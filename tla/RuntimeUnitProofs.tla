------------------------- MODULE RuntimeUnitProofs -------------------------
(***************************************************************************)
(* Units of the runtime that work by themselves.                           *)
(*                                                                         *)
(* The reset window of KanagawaResetControl is exact for every delay, hold *)
(* and latency.  The counters are read as "time left since the most recent *)
(* pulse" and every stage of the delay chain as a window of the history of *)
(* rst_in; a clock edge moves all of these windows by one cycle.           *)
(*                                                                         *)
(* KanagawaExternReturnRouter gives every result to the call it answers,   *)
(* for any number of ports and any timing.  What a port is owed is what is *)
(* under way to it in the places between port and join, in this order; a   *)
(* clock edge moves results from place to place, and a side track is one   *)
(* sequence with the queue behind it.                                      *)
(*                                                                         *)
(* The FIFOs made of registers are FIFOs: the row of register FIFOs of a   *)
(* read buffer for every length, the pair of one-entry FIFOs and the skid  *)
(* buffer.  Each step of theirs is a step of Fifo or changes nothing of it *)
(* that can be seen.                                                       *)
(***************************************************************************)
EXTENDS MCRuntimeUnits, RuntimeLemmas

(* What the stretched reset and the counters are compared with moves by    *)
(* one cycle at a clock edge: a window that starts one cycle ago gains the *)
(* pulse of this cycle, an older window takes the place of the next newer. *)
LEMMA HistoryShift ==
    ASSUME Reset!ResetControlAssumption, Reset!TypeOK, NEW rst_in \in BOOLEAN,
           past' = Reset!ChainShift(past, Reset!TOTAL_CYCLES, rst_in)
    PROVE  /\ \A k \in 1..Reset!TOTAL_CYCLES :
                Reset!PulseSeen(1, k)' <=> rst_in \/ Reset!PulseSeen(1, k - 1)
           /\ \A f, l \in 1..Reset!TOTAL_CYCLES :
                f > 1 => (Reset!PulseSeen(f, l)' <=> Reset!PulseSeen(f - 1, l - 1))
  <1>1. Reset!TOTAL_CYCLES \in Nat
    BY DEF Reset!ResetControlAssumption, Reset!TOTAL_CYCLES
  <1>2. \A j \in 1..Reset!TOTAL_CYCLES : past'[j] = IF j = 1 THEN rst_in ELSE past[j - 1]
    BY DEF Reset!ChainShift
  <1>3. ASSUME NEW k \in 1..Reset!TOTAL_CYCLES
        PROVE  Reset!PulseSeen(1, k)' <=> rst_in \/ Reset!PulseSeen(1, k - 1)
    <2>1. ASSUME Reset!PulseSeen(1, k)' PROVE rst_in \/ Reset!PulseSeen(1, k - 1)
      <3>1. PICK j \in 1..k : past'[j]
        BY <2>1 DEF Reset!PulseSeen
      <3>2. CASE j = 1
        BY <1>1, <1>2, <3>1, <3>2
      <3>3. CASE j # 1
        <4>1. j - 1 \in 1..(k - 1) /\ j \in 1..Reset!TOTAL_CYCLES
          BY <1>1, <3>3
        <4>2. past[j - 1]
          BY <1>2, <3>1, <3>3, <4>1
        <4> QED BY <4>1, <4>2 DEF Reset!PulseSeen
      <3> QED BY <3>2, <3>3
    <2>2. ASSUME rst_in PROVE Reset!PulseSeen(1, k)'
      <3>1. 1 \in 1..k /\ 1 \in 1..Reset!TOTAL_CYCLES
        BY <1>1
      <3>2. past'[1]
        BY <1>2, <2>2, <3>1
      <3> QED BY <3>1, <3>2 DEF Reset!PulseSeen
    <2>3. ASSUME Reset!PulseSeen(1, k - 1) PROVE Reset!PulseSeen(1, k)'
      <3>1. PICK j \in 1..(k - 1) : past[j]
        BY <2>3 DEF Reset!PulseSeen
      <3>2. j + 1 \in 1..k /\ j + 1 \in 1..Reset!TOTAL_CYCLES /\ j + 1 # 1 /\ (j + 1) - 1 = j
        BY <1>1
      <3>3. past'[j + 1]
        BY <1>2, <3>1, <3>2
      <3> QED BY <3>2, <3>3 DEF Reset!PulseSeen
    <2> QED BY <2>1, <2>2, <2>3
  <1>4. ASSUME NEW f \in 1..Reset!TOTAL_CYCLES, NEW l \in 1..Reset!TOTAL_CYCLES, f > 1
        PROVE  Reset!PulseSeen(f, l)' <=> Reset!PulseSeen(f - 1, l - 1)
    <2>1. ASSUME Reset!PulseSeen(f, l)' PROVE Reset!PulseSeen(f - 1, l - 1)
      <3>1. PICK j \in f..l : past'[j]
        BY <2>1 DEF Reset!PulseSeen
      <3>2. j - 1 \in (f - 1)..(l - 1) /\ j \in 1..Reset!TOTAL_CYCLES /\ j # 1
        BY <1>1, <1>4
      <3>3. past[j - 1]
        BY <1>2, <3>1, <3>2
      <3> QED BY <3>2, <3>3 DEF Reset!PulseSeen
    <2>2. ASSUME Reset!PulseSeen(f - 1, l - 1) PROVE Reset!PulseSeen(f, l)'
      <3>1. PICK j \in (f - 1)..(l - 1) : past[j]
        BY <2>2 DEF Reset!PulseSeen
      <3>2. j + 1 \in f..l /\ j + 1 \in 1..Reset!TOTAL_CYCLES /\ j + 1 # 1 /\ (j + 1) - 1 = j
        BY <1>1, <1>4
      <3>3. past'[j + 1]
        BY <1>2, <3>1, <3>2
      <3> QED BY <3>2, <3>3 DEF Reset!PulseSeen
    <2> QED BY <2>1, <2>2
  <1> QED BY <1>3, <1>4

(* A counter that a pulse loads with length - 1 and that otherwise counts  *)
(* down to zero keeps telling the time since the most recent pulse: this   *)
(* is what both KanagawaHoldReset's counter and the sequence counter do.   *)
LEMMA TimeLeftStep ==
    ASSUME Reset!ResetControlAssumption, Reset!TypeOK, NEW rst_in \in BOOLEAN,
           past' = Reset!ChainShift(past, Reset!TOTAL_CYCLES, rst_in),
           NEW length \in 1..Reset!TOTAL_CYCLES,
           NEW c \in 0..(length - 1), Reset!TimeLeft(c, length),
           NEW d, d = (IF rst_in THEN length - 1 ELSE IF c # 0 THEN c - 1 ELSE 0)
    PROVE  /\ d \in 0..(length - 1)
           /\ \A k \in 0..(length - 1) : d >= length - k <=> Reset!PulseSeen(1, k)'
  <1>1. Reset!TOTAL_CYCLES \in Nat /\ length \in Nat
    BY DEF Reset!ResetControlAssumption, Reset!TOTAL_CYCLES
  <1>2. d \in 0..(length - 1)
    BY <1>1
  <1>3. ASSUME NEW k \in 0..(length - 1)
        PROVE  d >= length - k <=> Reset!PulseSeen(1, k)'
    <2>1. CASE k = 0
      <3>1. ~ Reset!PulseSeen(1, k)'
        BY <2>1 DEF Reset!PulseSeen
      <3>2. ~ (d >= length - k)
        BY <1>1, <1>2, <2>1
      <3> QED BY <3>1, <3>2
    <2>2. CASE k # 0
      <3>1. k \in 1..Reset!TOTAL_CYCLES /\ k - 1 \in 0..(length - 1)
        BY <1>1, <2>2
      <3>2. Reset!PulseSeen(1, k)' <=> rst_in \/ Reset!PulseSeen(1, k - 1)
        BY <3>1, HistoryShift
      <3>3. c >= length - (k - 1) <=> Reset!PulseSeen(1, k - 1)
        BY <3>1 DEF Reset!TimeLeft
      <3>4. CASE rst_in
        <4>1. d >= length - k
          BY <1>1, <2>2, <3>4
        <4> QED BY <3>2, <3>4, <4>1
      <3>5. CASE ~rst_in
        <4>1. d >= length - k <=> c >= length - (k - 1)
          BY <1>1, <2>2, <3>5
        <4> QED BY <3>2, <3>3, <3>5, <4>1
      <3> QED BY <3>4, <3>5
    <2> QED BY <2>1, <2>2
  <1> QED BY <1>2, <1>3

(* Init, where every pulse of the past is assumed, satisfies the invariant.*)
LEMMA InitIInv ==
    ASSUME Reset!ResetControlAssumption, Reset!Init
    PROVE  Reset!IInv
  <1>1. /\ Reset!TOTAL_CYCLES \in Nat /\ HOLD_CYCLES \in Nat /\ DELAY_CYCLES \in Nat
        /\ HOLD_CYCLES > 1 /\ Reset!TOTAL_CYCLES >= HOLD_CYCLES + DELAY_CYCLES
        /\ ADDTIONAL_LATENCY \in Nat
    BY DEF Reset!ResetControlAssumption, Reset!TOTAL_CYCLES
  <1>2. Reset!TypeOK
    <2>1. counter \in 0..(HOLD_CYCLES - 1) /\ sequence_counter \in 0..(Reset!TOTAL_CYCLES - 1)
      BY <1>1 DEF Reset!Init
    <2> QED BY <2>1 DEF Reset!Init, Reset!TypeOK, Reset!Chains
  <1>3. \A f \in 1..Reset!TOTAL_CYCLES : \A l \in f..Reset!TOTAL_CYCLES : Reset!PulseSeen(f, l)
    BY <1>1 DEF Reset!Init, Reset!PulseSeen
  <1>4. ~Reset!PulseSeen(1, 0)
    BY DEF Reset!PulseSeen
  <1>5. ASSUME NEW length \in 1..Reset!TOTAL_CYCLES
        PROVE  Reset!TimeLeft(length - 1, length)
    <2> SUFFICES ASSUME NEW k \in 0..(length - 1)
                 PROVE  length - 1 >= length - k <=> Reset!PulseSeen(1, k)
      BY DEF Reset!TimeLeft
    <2>1. length - 1 >= length - k <=> k # 0
      BY <1>1
    <2>2. k # 0 => 1 \in 1..Reset!TOTAL_CYCLES /\ k \in 1..Reset!TOTAL_CYCLES
      BY <1>1
    <2> QED BY <1>3, <1>4, <2>1, <2>2
  <1>6. Reset!TimeLeft(counter, HOLD_CYCLES) /\ Reset!TimeLeft(sequence_counter, Reset!TOTAL_CYCLES)
    BY <1>1, <1>5 DEF Reset!Init
  <1>7. Reset!StretchedExact
    <2> SUFFICES ASSUME NEW i \in 1..DELAY_CYCLES
                 PROVE  delay_chain[i] <=> Reset!PulseSeen(i, i + HOLD_CYCLES - 1)
      BY DEF Reset!StretchedExact
    <2>1. i \in 1..Reset!TOTAL_CYCLES /\ i + HOLD_CYCLES - 1 \in i..Reset!TOTAL_CYCLES
      BY <1>1
    <2> QED BY <1>3, <2>1 DEF Reset!Init
  <1>8. Reset!DoneIsQuiet
    BY DEF Reset!DoneIsQuiet, Reset!Init
  <1>9. counter_not_zero <=> counter # 0
    BY <1>1 DEF Reset!Init
  <1> QED BY <1>2, <1>6, <1>7, <1>8, <1>9 DEF Reset!IInv

(* A clock edge preserves it. *)
LEMMA CycleIInv ==
    ASSUME Reset!ResetControlAssumption, Reset!IInv,
           NEW rst_in \in BOOLEAN, NEW others \in BOOLEAN, Reset!Cycle(rst_in, others)
    PROVE  Reset!IInv'
  <1>1. /\ Reset!TOTAL_CYCLES \in Nat /\ HOLD_CYCLES \in Nat /\ DELAY_CYCLES \in Nat
        /\ HOLD_CYCLES > 1 /\ Reset!TOTAL_CYCLES = HOLD_CYCLES + DELAY_CYCLES
        /\ ADDTIONAL_LATENCY \in Nat /\ ADDTIONAL_LATENCY > 0
    BY DEF Reset!ResetControlAssumption, Reset!TOTAL_CYCLES
  <1>2. Reset!TypeOK
    BY DEF Reset!IInv
  <1>3. past' = Reset!ChainShift(past, Reset!TOTAL_CYCLES, rst_in)
    BY DEF Reset!Cycle
  <1>4. HOLD_CYCLES \in 1..Reset!TOTAL_CYCLES /\ Reset!TOTAL_CYCLES \in 1..Reset!TOTAL_CYCLES
    BY <1>1
  <1>5. /\ counter' \in 0..(HOLD_CYCLES - 1)
        /\ \A k \in 0..(HOLD_CYCLES - 1) :
             counter' >= HOLD_CYCLES - k <=> Reset!PulseSeen(1, k)'
    <2>1. counter' = IF rst_in THEN HOLD_CYCLES - 1 ELSE IF counter # 0 THEN counter - 1 ELSE 0
      BY DEF Reset!Cycle, Reset!IInv
    <2>2. counter \in 0..(HOLD_CYCLES - 1) /\ Reset!TimeLeft(counter, HOLD_CYCLES)
      BY DEF Reset!IInv, Reset!TypeOK
    <2> QED BY <1>2, <1>3, <1>4, <2>1, <2>2, TimeLeftStep
  <1>6. /\ sequence_counter' \in 0..(Reset!TOTAL_CYCLES - 1)
        /\ \A k \in 0..(Reset!TOTAL_CYCLES - 1) :
             sequence_counter' >= Reset!TOTAL_CYCLES - k <=> Reset!PulseSeen(1, k)'
    <2>1. sequence_counter' = IF rst_in THEN Reset!TOTAL_CYCLES - 1
                              ELSE IF sequence_counter # 0 THEN sequence_counter - 1 ELSE 0
      BY DEF Reset!Cycle, Reset!SequenceStart
    <2>2. sequence_counter \in 0..(Reset!TOTAL_CYCLES - 1) /\ Reset!TimeLeft(sequence_counter, Reset!TOTAL_CYCLES)
      BY DEF Reset!IInv, Reset!TypeOK
    <2> QED BY <1>2, <1>3, <1>4, <2>1, <2>2, TimeLeftStep
  <1>7. counter_not_zero' <=> counter' # 0
    <2>1. counter_not_zero <=> counter # 0
      BY DEF Reset!IInv
    <2>2. counter \in 0..(HOLD_CYCLES - 1)
      BY <1>2 DEF Reset!TypeOK
    <2>3. CASE rst_in
      <3>1. counter' = HOLD_CYCLES - 1 /\ counter_not_zero'
        BY <2>3 DEF Reset!Cycle
      <3> QED BY <1>1, <3>1
    <2>4. CASE ~rst_in
      <3>1. counter' = IF counter # 0 THEN counter - 1 ELSE 0
        BY <2>1, <2>4 DEF Reset!Cycle
      <3>2. counter_not_zero' <=> counter # 0 /\ counter # 1
        BY <2>1, <2>4 DEF Reset!Cycle, Reset!counter_not_zero_next
      <3>3. counter' # 0 <=> counter # 0 /\ counter # 1
        BY <1>1, <2>2, <3>1
      <3> QED BY <3>2, <3>3
    <2> QED BY <2>3, <2>4
  (* The stretched reset of this cycle. *)
  <1>8. rst_in \/ counter_not_zero <=> Reset!PulseSeen(1, HOLD_CYCLES)'
    <2>1. HOLD_CYCLES - 1 \in 0..(HOLD_CYCLES - 1)
      BY <1>1
    <2>2. counter >= HOLD_CYCLES - (HOLD_CYCLES - 1) <=> Reset!PulseSeen(1, HOLD_CYCLES - 1)
      BY <2>1 DEF Reset!IInv, Reset!TimeLeft
    <2>3. counter >= HOLD_CYCLES - (HOLD_CYCLES - 1) <=> counter # 0
      BY <1>1, <1>2 DEF Reset!TypeOK
    <2>4. counter_not_zero <=> Reset!PulseSeen(1, HOLD_CYCLES - 1)
      BY <2>2, <2>3 DEF Reset!IInv
    <2> QED BY <1>2, <1>3, <1>4, <2>4, HistoryShift
  <1>9. ASSUME NEW i \in 1..DELAY_CYCLES
        PROVE  delay_chain'[i] <=> Reset!PulseSeen(i, i + HOLD_CYCLES - 1)'
    <2>1. delay_chain'[i] = IF i = 1 THEN rst_in \/ counter_not_zero ELSE delay_chain[i - 1]
      BY DEF Reset!Cycle, Reset!ChainShift
    <2>2. CASE i = 1
      <3>1. i + HOLD_CYCLES - 1 = HOLD_CYCLES
        BY <1>1, <2>2
      <3>2. Reset!PulseSeen(i, i + HOLD_CYCLES - 1)' <=> Reset!PulseSeen(1, HOLD_CYCLES)'
        BY <2>2, <3>1 DEF Reset!PulseSeen
      <3> QED BY <1>8, <2>1, <2>2, <3>2
    <2>3. CASE i # 1
      <3>1. /\ i - 1 \in 1..DELAY_CYCLES /\ i > 1
            /\ i \in 1..Reset!TOTAL_CYCLES
            /\ i + HOLD_CYCLES - 1 \in 1..Reset!TOTAL_CYCLES
            /\ (i + HOLD_CYCLES - 1) - 1 = (i - 1) + HOLD_CYCLES - 1
        BY <1>1, <2>3
      <3>2. delay_chain[i - 1] <=> Reset!PulseSeen(i - 1, (i - 1) + HOLD_CYCLES - 1)
        BY <3>1 DEF Reset!IInv, Reset!StretchedExact
      <3>3. Reset!PulseSeen(i, i + HOLD_CYCLES - 1)'
              <=> Reset!PulseSeen(i - 1, (i + HOLD_CYCLES - 1) - 1)
        BY <1>2, <1>3, <3>1, HistoryShift
      <3> QED BY <2>1, <2>3, <3>1, <3>2, <3>3
    <2> QED BY <2>2, <2>3
  <1>10. Reset!DoneIsQuiet'
    <2> SUFFICES ASSUME \/ finished_this_cycle' \/ finished_ff'
                        \/ \E i \in 1..ADDTIONAL_LATENCY : done_chain'[i]
                 PROVE  ~Reset!PulseSeen(1, Reset!TOTAL_CYCLES - 1)'
      BY DEF Reset!DoneIsQuiet
    <2>1. ~rst_in
      BY DEF Reset!Cycle
    <2>2. /\ Reset!TOTAL_CYCLES - 1 \in 1..Reset!TOTAL_CYCLES
          /\ Reset!TOTAL_CYCLES - 2 \in 0..(Reset!TOTAL_CYCLES - 1)
          /\ (Reset!TOTAL_CYCLES - 1) - 1 = Reset!TOTAL_CYCLES - 2
      BY <1>1
    <2>3. Reset!PulseSeen(1, Reset!TOTAL_CYCLES - 1)' <=> Reset!PulseSeen(1, Reset!TOTAL_CYCLES - 2)
      BY <1>2, <1>3, <2>1, <2>2, HistoryShift
    <2>4. Reset!PulseSeen(1, Reset!TOTAL_CYCLES - 2) => Reset!PulseSeen(1, Reset!TOTAL_CYCLES - 1)
      <3>1. 1..(Reset!TOTAL_CYCLES - 2) \subseteq 1..(Reset!TOTAL_CYCLES - 1)
        BY <1>1
      <3> QED BY <3>1 DEF Reset!PulseSeen
    <2>5. CASE finished_this_cycle'
      <3>1. sequence_counter = 1
        BY <2>5 DEF Reset!Cycle
      <3>2. ~(sequence_counter >= Reset!TOTAL_CYCLES - (Reset!TOTAL_CYCLES - 2))
        BY <1>1, <3>1
      <3> QED BY <2>2, <2>3, <3>2 DEF Reset!IInv, Reset!TimeLeft
    <2>6. CASE finished_ff'
      <3>1. finished_this_cycle \/ finished_ff
        BY <2>6 DEF Reset!Cycle
      <3> QED BY <2>3, <2>4, <3>1 DEF Reset!IInv, Reset!DoneIsQuiet
    <2>7. CASE \E i \in 1..ADDTIONAL_LATENCY : done_chain'[i]
      <3>1. PICK i \in 1..ADDTIONAL_LATENCY : done_chain'[i]
        BY <2>7
      <3>2. done_chain'[i] = IF i = 1 THEN finished_ff /\ others ELSE done_chain[i - 1]
        BY <2>1 DEF Reset!Cycle, Reset!ChainShift
      <3>3. i # 1 => i - 1 \in 1..ADDTIONAL_LATENCY
        BY <1>1
      <3>4. finished_ff \/ \E j \in 1..ADDTIONAL_LATENCY : done_chain[j]
        BY <3>1, <3>2, <3>3
      <3> QED BY <2>3, <2>4, <3>4 DEF Reset!IInv, Reset!DoneIsQuiet
    <2> QED BY <2>5, <2>6, <2>7
  <1>11. Reset!TypeOK'
    <2>1. counter_not_zero' \in BOOLEAN /\ finished_this_cycle' \in BOOLEAN
          /\ finished_ff' \in BOOLEAN
      BY DEF Reset!Cycle
    <2>2. delay_chain' \in Reset!Chains(DELAY_CYCLES, BOOLEAN)
      <3>1. \A i \in 1..DELAY_CYCLES : i # 1 => i - 1 \in 1..DELAY_CYCLES
        BY <1>1
      <3>2. \A i \in 1..DELAY_CYCLES :
              (IF i = 1 THEN rst_in \/ counter_not_zero ELSE delay_chain[i - 1]) \in BOOLEAN
        BY <1>2, <3>1 DEF Reset!TypeOK, Reset!Chains
      <3> QED BY <3>2 DEF Reset!Cycle, Reset!ChainShift, Reset!Chains
    <2>3. done_chain' \in Reset!Chains(ADDTIONAL_LATENCY, BOOLEAN)
      <3>1. \A i \in 1..ADDTIONAL_LATENCY : i # 1 => i - 1 \in 1..ADDTIONAL_LATENCY
        BY <1>1
      <3>2. \A i \in 1..ADDTIONAL_LATENCY :
              (IF i = 1 THEN finished_ff /\ others ELSE done_chain[i - 1]) \in BOOLEAN
        BY <1>2, <3>1 DEF Reset!TypeOK, Reset!Chains
      <3> QED BY <3>2 DEF Reset!Cycle, Reset!ChainShift, Reset!Chains
    <2>4. past' \in Reset!Chains(Reset!TOTAL_CYCLES, BOOLEAN)
      <3>1. \A i \in 1..Reset!TOTAL_CYCLES : i # 1 => i - 1 \in 1..Reset!TOTAL_CYCLES
        BY <1>1
      <3>2. \A i \in 1..Reset!TOTAL_CYCLES : (IF i = 1 THEN rst_in ELSE past[i - 1]) \in BOOLEAN
        BY <1>2, <3>1 DEF Reset!TypeOK, Reset!Chains
      <3> QED BY <3>2 DEF Reset!Cycle, Reset!ChainShift, Reset!Chains
    <2> QED BY <1>5, <1>6, <2>1, <2>2, <2>3, <2>4 DEF Reset!TypeOK
  <1> QED
    BY <1>5, <1>6, <1>7, <1>9, <1>10, <1>11
       DEF Reset!IInv, Reset!TimeLeft, Reset!StretchedExact

(* The inductive invariant of the reset controller. *)
THEOREM Invariance == Reset!Spec => []Reset!IInv
  <1> USE ResetAssumption
  <1>1. Reset!Init => Reset!IInv
    BY InitIInv
  <1>2. Reset!IInv /\ [Reset!Next]_(Reset!vars) => Reset!IInv'
    <2> SUFFICES ASSUME Reset!IInv, [Reset!Next]_(Reset!vars) PROVE Reset!IInv'
      OBVIOUS
    <2>1. CASE Reset!Next
      BY <2>1, CycleIInv DEF Reset!Next
    <2>2. CASE UNCHANGED Reset!vars
      BY <2>2 DEF Reset!vars, Reset!IInv, Reset!TypeOK, Reset!TimeLeft, Reset!PulseSeen,
          Reset!StretchedExact, Reset!DoneIsQuiet
    <2> QED BY <2>1, <2>2
  <1> QED BY <1>1, <1>2, PTL DEF Reset!Spec

(* For every delay, hold and latency the design is in reset in exactly the *)
(* cycles that lie DELAY_CYCLES to DELAY_CYCLES + HOLD_CYCLES - 1 cycles   *)
(* after a pulse, and neither the end of the sequence nor the done signal  *)
(* is shown while a reset is still on its way through the delay chain.     *)
THEOREM ResetWindowExactHolds == Reset!Spec => []ResetWindowExact
  <1> USE ResetAssumption
  <1>1. Reset!IInv => ResetWindowExact
    <2> SUFFICES ASSUME Reset!IInv, NEW rst_in \in BOOLEAN
                 PROVE  /\ Reset!rst_delayed_out(rst_in) <=>
                            \E k \in DELAY_CYCLES..(Reset!TOTAL_CYCLES - 1) :
                                IF k = 0 THEN rst_in ELSE past[k]
                        /\ finished_this_cycle \/ finished_ff \/ Reset!rst_and_startup_done_out =>
                            \A k \in 1..(Reset!TOTAL_CYCLES - 1) : ~past[k]
      BY DEF ResetWindowExact, Reset!ResetWindowExact
    <2>1. /\ Reset!TOTAL_CYCLES \in Nat /\ HOLD_CYCLES \in Nat /\ DELAY_CYCLES \in Nat
          /\ HOLD_CYCLES > 1 /\ Reset!TOTAL_CYCLES = HOLD_CYCLES + DELAY_CYCLES
          /\ ADDTIONAL_LATENCY \in Nat /\ ADDTIONAL_LATENCY > 0
      BY DEF Reset!ResetControlAssumption, Reset!TOTAL_CYCLES
    <2>2. finished_this_cycle \/ finished_ff \/ Reset!rst_and_startup_done_out =>
             \A k \in 1..(Reset!TOTAL_CYCLES - 1) : ~past[k]
      <3>1. Reset!rst_and_startup_done_out => \E i \in 1..ADDTIONAL_LATENCY : done_chain[i]
        <4>1. ADDTIONAL_LATENCY # 0 /\ ADDTIONAL_LATENCY \in 1..ADDTIONAL_LATENCY
          BY <2>1
        <4> QED BY <4>1 DEF Reset!rst_and_startup_done_out, Reset!ChainOut
      <3> QED BY <3>1 DEF Reset!IInv, Reset!DoneIsQuiet, Reset!PulseSeen
    <2>3. CASE DELAY_CYCLES = 0
      (* The chain is a wire: the window is the hold counter's. *)
      <3>1. /\ HOLD_CYCLES - 1 \in 0..(HOLD_CYCLES - 1)
            /\ Reset!TOTAL_CYCLES - 1 = HOLD_CYCLES - 1
            /\ counter >= HOLD_CYCLES - (HOLD_CYCLES - 1) <=> counter # 0
        BY <2>1, <2>3 DEF Reset!IInv, Reset!TypeOK
      <3>2. counter_not_zero <=> Reset!PulseSeen(1, HOLD_CYCLES - 1)
        BY <3>1 DEF Reset!IInv, Reset!TimeLeft
      <3>3. Reset!rst_delayed_out(rst_in) <=> rst_in \/ Reset!PulseSeen(1, HOLD_CYCLES - 1)
        BY <2>3, <3>2 DEF Reset!rst_delayed_out, Reset!ChainOut
      <3>4. 0..(HOLD_CYCLES - 1) = {0} \cup (1..(HOLD_CYCLES - 1))
        BY <2>1
      <3>5. (\E k \in 0..(HOLD_CYCLES - 1) : IF k = 0 THEN rst_in ELSE past[k])
               <=> rst_in \/ Reset!PulseSeen(1, HOLD_CYCLES - 1)
        <4>1. 0 \notin 1..(HOLD_CYCLES - 1)
          OBVIOUS
        <4> QED BY <3>4, <4>1 DEF Reset!PulseSeen
      <3> QED BY <2>2, <2>3, <3>1, <3>3, <3>5
    <2>4. CASE DELAY_CYCLES # 0
      <3>1. DELAY_CYCLES \in 1..DELAY_CYCLES /\ DELAY_CYCLES + HOLD_CYCLES - 1 = Reset!TOTAL_CYCLES - 1
        BY <2>1, <2>4
      <3>2. Reset!rst_delayed_out(rst_in) <=> Reset!PulseSeen(DELAY_CYCLES, Reset!TOTAL_CYCLES - 1)
        BY <2>4, <3>1
           DEF Reset!rst_delayed_out, Reset!ChainOut, Reset!IInv, Reset!StretchedExact
      <3>3. 0 \notin DELAY_CYCLES..(Reset!TOTAL_CYCLES - 1)
        BY <2>1, <2>4
      <3> QED BY <2>2, <3>2, <3>3 DEF Reset!PulseSeen
    <2> QED BY <2>3, <2>4
  <1> QED BY <1>1, Invariance, PTL
-----------------------------------------------------------------------------
(* What the assumption on the router's parameters says. *)
LEMMA RouterParameters ==
    /\ NUM_OUTPUT_PORTS \in Nat \ {0} /\ Tag \in Nat \ {0}
    /\ Router!Port = 1..NUM_OUTPUT_PORTS
    /\ CallSite \in [Router!Port -> Nat]
    /\ \A a, b \in Router!Port : CallSite[a] = CallSite[b] => a = b
    /\ None \notin Nat /\ None \notin Router!Datum /\ None \notin Router!SwitchRegisters
  BY RouterAssumption DEF Router!RouterAssumption, Router!Port, Router!IsInjective

(* The counter has a bit more than the ports need. *)
LEMMA CounterWidth ==
    \E H \in Nat : /\ H >= NUM_OUTPUT_PORTS
                   /\ 2^MatchWidth = 2 * H /\ 2^(MatchWidth - 1) = H
  BY RouterAssumption DEF Router!RouterAssumption

(* A result that is there or not there. *)
Cell(there, d) == IF there THEN <<d>> ELSE <<>>

CellMoves(c, d, e, x) ==
    /\ Cell(e, x) = After(Cell(c, d), c, e, x)
    /\ Cell(c, d) = After(Cell(c, d), FALSE, FALSE, x)
    /\ Cell(e, x) = After(<<>>, FALSE, e, x)
    /\ c => Cell(c, d) # <<>> /\ Head(Cell(c, d)) = d

LEMMA CellStep ==
    ASSUME NEW c \in BOOLEAN, NEW d, NEW e \in BOOLEAN, NEW x
    PROVE  CellMoves(c, d, e, x)
  <1>0. c => Cell(c, d) # <<>> /\ Head(Cell(c, d)) = d
    BY DEF Cell
  <1>1. CASE c /\ e
    BY <1>0, <1>1, Short, Zenon DEF Cell, After, CellMoves
  <1>2. CASE c /\ ~e
    BY <1>0, <1>2, Short, Zenon DEF Cell, After, CellMoves
  <1>3. CASE ~c /\ e
    BY <1>0, <1>3, Short, Zenon DEF Cell, After, CellMoves
  <1>4. CASE ~c /\ ~e
    BY <1>0, <1>4, Short, Zenon DEF Cell, After, CellMoves
  <1> QED BY <1>1, <1>2, <1>3, <1>4

(* The cells of a sequence that hold results for one port. *)
Cells(s, p) == [k \in 1..Len(s) |-> Cell(s[k][1] = p, s[k])]

LEMMA MineJoint ==
    ASSUME NEW p, NEW s \in Seq(Router!Datum)
    PROVE  /\ Cells(s, p) \in [1..Len(s) -> Seq(Router!Datum)]
           /\ Router!Mine(s, p) = IF Len(s) = 0 THEN <<>> ELSE Joint(Cells(s, p), Len(s))
  <1>1. Cells(s, p) \in [1..Len(s) -> Seq(Router!Datum)]
    BY DEF Cells, Cell
  <1>2. Len(Cells(s, p)) = Len(s) /\ Len(s) \in Nat
    BY DEF Cells
  <1>3. Router!Mine(s, p) = Router!FlattenSeq(Cells(s, p))
    BY DEF Router!Mine, Cells, Cell
  <1>4. CASE Len(s) = 0
    <2>1. Cells(s, p) = <<>>
      BY <1>1, <1>4 DEF Cells
    <2> QED BY <1>1, <1>2, <1>3, <1>4, <2>1 DEF Router!FlattenSeq
  <1>5. CASE Len(s) # 0
    BY <1>1, <1>2, <1>3, <1>5 DEF Router!FlattenSeq, Joint
  <1> QED BY <1>4, <1>5

(* Of a sequence that gives away its head and is given an item, the part   *)
(* for one port changes only if head or item are for that port.            *)
MineMoves(p, s, take, put, x) ==
    /\ Router!Mine(s, p) \in Seq(Router!Datum)
    /\ Router!Mine(After(s, take, put, x), p)
         = After(Router!Mine(s, p), take /\ Head(s)[1] = p, put /\ x[1] = p, x)
    /\ take /\ Head(s)[1] = p =>
         Router!Mine(s, p) # <<>> /\ Head(Router!Mine(s, p)) = Head(s)

LEMMA MineAfter ==
    ASSUME NEW p, NEW s \in Seq(Router!Datum), NEW take \in BOOLEAN, NEW put \in BOOLEAN,
           NEW x, take => s # <<>>, put => x \in Router!Datum
    PROVE  MineMoves(p, s, take, put, x)
  <1> DEFINE D == Router!Datum
             t == After(s, take, put, x)
             n == Len(s)
             l == Len(t)
             m == n + 1 - Bit(take)
             mine(k) == s[k][1] = p
             old == [k \in 1..m |-> IF k <= n THEN Cell(mine(k), s[k]) ELSE <<>>]
             new == [k \in 1..m |-> IF k <= l THEN Cell(t[k][1] = p, t[k]) ELSE <<>>]
             given == put /\ x[1] = p
             tk == [k \in 1..m |-> take /\ mine(k)]
             pt == [k \in 1..m |-> IF k = m THEN given ELSE take /\ mine(k + 1)]
             item == [k \in 1..m |-> IF k = m THEN x ELSE s[k + 1]]
  <1>1. t \in Seq(D) /\ MovesUp(s, t, take, put, x)
    BY AfterLength, AfterShows
  <1>2. /\ n \in Nat /\ l \in Nat /\ l = n + Bit(put) - Bit(take)
        /\ take => n > 0
        /\ m \in Nat /\ m > 0
        /\ \A k \in 1..(m - 1) : t[k] = s[k + Bit(take)]
        /\ put => t[m] = x
    BY <1>1 DEF MovesUp, Bit
  <1>3. /\ take => m = n
        /\ ~take => m = n + 1
        /\ put => l = m
        /\ ~put => l = m - 1
    BY <1>2 DEF Bit
  <1>4. \A k \in 1..n : s[k] \in D
    OBVIOUS
  <1>5. \A k \in 1..l : t[k] \in D
    BY <1>1
  <1>0. given \in BOOLEAN /\ \A k : mine(k) \in BOOLEAN
    OBVIOUS
  <1> HIDE DEF D, t, n, l, m
  <1>6. old \in [1..m -> Seq(D)] /\ new \in [1..m -> Seq(D)]
    <2>1. \A k \in 1..m : /\ (IF k <= n THEN Cell(mine(k), s[k]) ELSE <<>>) \in Seq(D)
                          /\ (IF k <= l THEN Cell(t[k][1] = p, t[k]) ELSE <<>>) \in Seq(D)
      BY <1>2, <1>4, <1>5 DEF Cell
    <2> QED BY <2>1
  <1>7. tk \in [1..m -> BOOLEAN] /\ pt \in [1..m -> BOOLEAN]
    OBVIOUS
  <1>8. ASSUME NEW k \in 1..m
        PROVE  /\ tk[k] => old[k] # <<>>
               /\ pt[k] => item[k] \in D
               /\ new[k] = After(old[k], tk[k], pt[k], item[k])
    <2>1. CASE k = m
      <3>1. tk[k] = (take /\ mine(k)) /\ pt[k] = given /\ item[k] = x
        BY <2>1
      <3>2. new[k] = Cell(given, x)
        <4>1. CASE put
          <5>0. k <= l /\ t[k] = x
            <6>1. l = m /\ t[m] = x
              BY <1>2, <1>3, <4>1, Zenon
            <6> QED BY <1>2, <2>1, <6>1
          <5>1. new[k] = Cell(x[1] = p, x)
            BY <5>0
          <5> QED BY <4>1, <5>1
        <4>2. CASE ~put
          <5>1. new[k] = <<>>
            BY <1>2, <1>3, <2>1, <4>2
          <5> QED BY <4>2, <5>1 DEF Cell
        <4> QED BY <4>1, <4>2
      <3>3. CASE take
        <4>1. old[k] = Cell(mine(k), s[k])
          BY <1>2, <1>3, <2>1, <3>3
        <4> HIDE DEF mine, given
        <4>2. CellMoves(mine(k), s[k], given, x)
          BY <1>0, CellStep
        <4>3. tk[k] = mine(k)
          BY <1>0, <3>1, <3>3, Zenon
        <4>4. given => x \in D
          BY DEF given, D
        <4> HIDE DEF old, new, tk, pt, item
        <4> QED BY <3>1, <3>2, <4>1, <4>2, <4>3, <4>4, Zenon DEF CellMoves
      <3>4. CASE ~take
        <4>1. old[k] = <<>> /\ tk[k] = FALSE
          BY <1>2, <1>3, <2>1, <3>1, <3>4
        <4>2. given => x \in D
          BY DEF D
        <4> HIDE DEF mine, given, old, new, tk, pt, item
        <4>3. CellMoves(FALSE, x, given, x)
          BY <1>0, CellStep
        <4> QED BY <3>1, <3>2, <4>1, <4>2, <4>3, Zenon DEF CellMoves
      <3> QED BY <3>3, <3>4
    <2>2. CASE k # m
      <3>1. k \in 1..(m - 1) /\ k <= n /\ k <= l
        BY <1>2, <1>3, <2>2
      <3>2. /\ old[k] = Cell(mine(k), s[k])
            /\ new[k] = Cell(t[k][1] = p, t[k])
            /\ tk[k] = (take /\ mine(k)) /\ pt[k] = (take /\ mine(k + 1))
            /\ item[k] = s[k + 1]
            /\ t[k] = s[k + Bit(take)]
        BY <1>2, <2>2, <3>1
      <3> HIDE DEF old, new, tk, pt, item
      <3>3. CASE take
        <4>1. t[k] = s[k + 1] /\ k + 1 \in 1..n
          BY <1>2, <1>3, <3>1, <3>2, <3>3 DEF Bit
        <4>2. new[k] = Cell(mine(k + 1), s[k + 1])
          BY <3>2, <4>1
        <4> HIDE DEF mine
        <4>3. CellMoves(mine(k), s[k], mine(k + 1), s[k + 1])
          BY <1>0, CellStep
        <4>4. tk[k] = mine(k) /\ pt[k] = mine(k + 1)
          BY <1>0, <3>2, <3>3, Zenon
        <4>5. s[k + 1] \in D
          BY <1>4, <4>1
        <4> QED BY <3>2, <4>2, <4>3, <4>4, <4>5, Zenon DEF CellMoves
      <3>4. CASE ~take
        <4>1. t[k] = s[k]
          BY <1>2, <1>3, <3>1, <3>2, <3>4 DEF Bit
        <4>2. new[k] = Cell(mine(k), s[k])
          BY <3>2, <4>1
        <4> HIDE DEF mine
        <4>3. CellMoves(mine(k), s[k], FALSE, s[k + 1])
          BY <1>0, CellStep
        <4>4. tk[k] = FALSE /\ pt[k] = FALSE
          BY <3>2, <3>4, Zenon
        <4> QED BY <3>2, <4>2, <4>3, <4>4, Zenon DEF CellMoves
      <3> QED BY <3>3, <3>4
    <2> QED BY <2>1, <2>2
  <1>9. ASSUME NEW k \in 2..m
        PROVE  pt[k - 1] = tk[k] /\ (pt[k - 1] => item[k - 1] = Head(old[k]))
    <2>1. k - 1 \in 1..m /\ k - 1 # m /\ (k - 1) + 1 = k /\ k \in 1..m
      BY <1>2
    <2>2. pt[k - 1] = (take /\ mine(k)) /\ tk[k] = (take /\ mine(k)) /\ item[k - 1] = s[k]
      BY <2>1
    <2>3. take => old[k] = Cell(mine(k), s[k])
      BY <1>2, <1>3, <2>1
    <2> HIDE DEF mine, old, new, tk, pt, item
    <2>4. CellMoves(mine(k), s[k], FALSE, x)
      BY <1>0, CellStep
    <2> QED BY <2>2, <2>3, <2>4, Zenon DEF CellMoves
  <1> HIDE DEF old, new, tk, pt, item
  <1>10. HandsOn(old, new, tk, pt, item, m, D)
    BY <1>6, <1>7, <1>8, <1>9 DEF HandsOn
  <1>11. RowChanges(old, new, tk, pt, item, m, D)
    BY <1>2, <1>10, Row
  <1>12. Joint(old, m) = Router!Mine(s, p)
    <2> DEFINE c == Cells(s, p)
    <2>1. \A k \in 1..m : old[k] = IF k <= n THEN c[k] ELSE <<>>
      BY <1>2 DEF old, Cells, n
    <2>2. c \in [1..n -> Seq(D)]
      BY MineJoint DEF D, n
    <2>3. m >= n
      BY <1>2, <1>3
    <2>4. Router!Mine(s, p) = IF n = 0 THEN <<>> ELSE Joint(c, n)
      BY MineJoint DEF n, D
    <2> HIDE DEF c
    <2>5. n \in Nat /\ m \in Nat /\ m > 0
      BY <1>2
    <2>6. Pads(old, m, c, n, D)
      BY <1>6, <2>1, <2>2, <2>3, <2>5 DEF Pads
    <2> QED BY <2>4, <2>6, Padded
  <1>13. Joint(new, m) = Router!Mine(t, p)
    <2> DEFINE c == Cells(t, p)
    <2>1. \A k \in 1..m : new[k] = IF k <= l THEN c[k] ELSE <<>>
      BY <1>2 DEF new, Cells, l
    <2>2. c \in [1..l -> Seq(D)]
      BY <1>1, MineJoint DEF D, l
    <2>3. m >= l
      BY <1>2, <1>3
    <2>4. Router!Mine(t, p) = IF l = 0 THEN <<>> ELSE Joint(c, l)
      BY <1>1, MineJoint DEF l, D
    <2> HIDE DEF c
    <2>5. l \in Nat /\ m \in Nat /\ m > 0
      BY <1>2
    <2>6. Pads(new, m, c, l, D)
      BY <1>6, <2>1, <2>2, <2>3, <2>5 DEF Pads
    <2> QED BY <2>4, <2>6, Padded
  <1>14. /\ tk[1] = (take /\ Head(s)[1] = p)
         /\ pt[m] = given /\ item[m] = x
         /\ tk[1] => Head(old[1]) = Head(s)
    <2>1. 1 \in 1..m /\ m \in 1..m
      BY <1>2
    <2>2. tk[1] = (take /\ mine(1)) /\ pt[m] = given /\ item[m] = x
      BY <2>1 DEF tk, pt, item
    <2>3. take => Head(s) = s[1] /\ old[1] = Cell(mine(1), s[1])
      BY <1>2, <2>1 DEF old, n
    <2>4. mine(1) = (s[1][1] = p)
      OBVIOUS
    <2> HIDE DEF mine
    <2>5. CellMoves(mine(1), s[1], FALSE, x)
      BY <1>0, CellStep
    <2> QED BY <2>2, <2>3, <2>4, <2>5, Zenon DEF CellMoves
  <1>15. /\ Joint(old, m) \in Seq(D)
         /\ Joint(new, m) = After(Joint(old, m), take /\ Head(s)[1] = p, given, x)
         /\ take /\ Head(s)[1] = p =>
               Joint(old, m) # <<>> /\ Head(Joint(old, m)) = Head(s)
    BY <1>11, <1>14 DEF RowChanges
  <1> QED BY <1>12, <1>13, <1>15 DEF MineMoves, D, t

LEMMA MineType ==
    ASSUME NEW p, NEW s \in Seq(Router!Datum)
    PROVE  Router!Mine(s, p) \in Seq(Router!Datum)
  <1>1. MineMoves(p, s, FALSE, FALSE, 0)
    BY MineAfter
  <1> QED BY <1>1 DEF MineMoves

(* The emitter's table starts the counter, every node it passes decrements *)
(* it, and its top bit shows at the node of its port.                      *)
LEMMA CounterStep ==
    ASSUME NEW p \in Router!Port, NEW i \in Router!Port, p >= i
    PROVE  /\ Router!CounterFor(p, i) \in 0..(2^MatchWidth - 1)
           /\ Router!Match(Router!CounterFor(p, i)) <=> p = i
           /\ p > i => (Router!CounterFor(p, i) - 1) % 2^MatchWidth = Router!CounterFor(p, i + 1)
           /\ Router!PORT_INDEX_MAP[p] = Router!CounterFor(p, 1)
  <1>1. PICK H \in Nat : /\ H >= NUM_OUTPUT_PORTS
                         /\ 2^MatchWidth = 2 * H /\ 2^(MatchWidth - 1) = H
    BY CounterWidth
  <1>2. p \in 1..NUM_OUTPUT_PORTS /\ i \in 1..NUM_OUTPUT_PORTS /\ NUM_OUTPUT_PORTS \in Nat
    BY RouterParameters
  <1> DEFINE M == 2^MatchWidth
  <1>3. M = 2 * H /\ M \in Nat /\ M > NUM_OUTPUT_PORTS
    BY <1>1, <1>2
  <1>4. Router!CounterFor(p, i) = IF p = i THEN M - 1 ELSE p - 1 - i
    BY DEF Router!CounterFor
  <1>5. /\ Router!CounterFor(p, i + 1) = IF p = i + 1 THEN M - 1 ELSE p - 1 - (i + 1)
        /\ Router!CounterFor(p, 1) = IF p = 1 THEN M - 1 ELSE p - 1 - 1
    BY DEF Router!CounterFor
  <1>6. Router!PORT_INDEX_MAP[p] = (p - 2) % M
    BY DEF Router!PORT_INDEX_MAP
  <1>7. Router!Match(Router!CounterFor(p, i)) <=> Router!CounterFor(p, i) >= H
    BY <1>1 DEF Router!Match
  <1> HIDE DEF M
  <1>8. (-1) % M = M - 1
    BY <1>1, <1>2, <1>3
  <1>9. \A k \in 0..(M - 1) : k % M = k
    BY <1>3
  <1>10. Router!CounterFor(p, i) \in 0..(M - 1)
    BY <1>2, <1>3, <1>4
  <1>11. Router!CounterFor(p, i) >= H <=> p = i
    BY <1>1, <1>2, <1>3, <1>4
  <1>12. p > i => (Router!CounterFor(p, i) - 1) % M = Router!CounterFor(p, i + 1)
    <2>1. CASE p = i + 1
      <3>1. Router!CounterFor(p, i) - 1 = -1
        BY <1>2, <1>4, <2>1
      <3> QED BY <1>5, <1>8, <2>1, <3>1
    <2>2. CASE p > i + 1
      <3>1. Router!CounterFor(p, i) - 1 = p - 1 - (i + 1) /\ p - 1 - (i + 1) \in 0..(M - 1)
        BY <1>2, <1>3, <1>4, <2>2
      <3> QED BY <1>2, <1>5, <1>9, <2>2, <3>1
    <2> QED BY <1>2, <2>1, <2>2
  <1>13. Router!PORT_INDEX_MAP[p] = Router!CounterFor(p, 1)
    <2>1. CASE p = 1
      <3>1. p - 2 = -1
        BY <2>1
      <3> QED BY <1>5, <1>6, <1>8, <2>1, <3>1
    <2>2. CASE p # 1
      <3>1. p - 2 \in 0..(M - 1) /\ p - 1 - 1 = p - 2
        BY <1>2, <1>3, <2>2
      <3> QED BY <1>5, <1>6, <1>9, <2>2, <3>1
    <2> QED BY <2>1, <2>2
  <1> QED BY <1>7, <1>10, <1>11, <1>12, <1>13 DEF M

(* What a node works on is for its port or for one behind it. *)
LEMMA NodeItem ==
    ASSUME Router!IInv, NEW i \in Router!Port, Router!InputTaken(i) \/ sidetrack[i] # None
    PROVE  /\ Router!Muxed(i).data \in Router!Datum
           /\ Router!Muxed(i).data[1] \in Router!Port /\ Router!Muxed(i).data[1] >= i
           /\ Router!Muxed(i).match_counter = Router!CounterFor(Router!Muxed(i).data[1], i)
           /\ Router!ToPort(i) <=> Router!Muxed(i).data[1] = i
  <1>1. /\ sidetrack[i] \in Router!SwitchRegisters \cup {None}
        /\ switch[i] \in Router!SwitchRegisters
    BY RouterParameters DEF Router!IInv, Router!TypeOK
  <1>2. /\ switch[i].valid => switch[i].data # None
        /\ sidetrack[i] # None => sidetrack[i].data # None
    BY RouterParameters DEF Router!IInv, Router!RegistersAgree
  <1>3. /\ Router!RouteFrom(switch[i], i)
        /\ sidetrack[i] # None => Router!RouteFrom(sidetrack[i], i)
    BY DEF Router!IInv, Router!RoutesKnown
  <1>4. /\ Router!Muxed(i) \in Router!SwitchRegisters /\ Router!Muxed(i).data # None
        /\ Router!RouteFrom(Router!Muxed(i), i)
    BY <1>1, <1>2, <1>3 DEF Router!InputTaken, Router!Muxed
  <1>5. Router!Muxed(i).data \in Router!Datum
    BY <1>4 DEF Router!SwitchRegisters
  <1>6. /\ Router!Muxed(i).data[1] \in Router!Port /\ Router!Muxed(i).data[1] >= i
        /\ Router!Muxed(i).match_counter = Router!CounterFor(Router!Muxed(i).data[1], i)
    BY <1>4, <1>5 DEF Router!RouteFrom, Router!Datum
  <1> QED BY <1>5, <1>6, CounterStep DEF Router!ToPort

-----------------------------------------------------------------------------
(* The result a call will have. *)
CallTag(call) == IF call = None THEN 0 ELSE next_tag[call]
Result(call) == <<call, CallTag(call)>>

LEMMA ResultType ==
    ASSUME Router!IInv, NEW call \in Router!Port
    PROVE  /\ call # None /\ Result(call) \in Router!Datum /\ Result(call)[1] = call
           /\ CallSite[call] \in Nat
  <1>1. next_tag[call] \in 0..(Tag - 1) /\ call # None /\ CallSite[call] \in Nat
    BY RouterParameters DEF Router!IInv, Router!TypeOK
  <1> QED BY <1>1 DEF Result, CallTag, Router!Datum

(* The two queues before the join, side tracks included: each loses what   *)
(* the join takes and gains the new call.                                  *)
LEMMA JoinStep ==
    ASSUME Router!IInv, NEW call \in Router!Port \cup {None}, NEW accepted,
           NEW show_index \in BOOLEAN, NEW show_data \in BOOLEAN,
           Router!Cycle(call, accepted, show_index, show_data)
    PROVE  /\ Router!ToJoin \in Seq(Router!Datum) /\ Router!IndexToJoin \in Seq(Nat)
           /\ (Router!ToJoin)' = After(Router!ToJoin, Router!Joins, call # None, Result(call))
           /\ (Router!IndexToJoin)'
                = After(Router!IndexToJoin, Router!Joins, call # None, CallSite[call])
           /\ Router!Joins =>
                /\ Router!ToJoin # <<>> /\ Head(Router!ToJoin) = Router!muxed_data
                /\ Router!IndexToJoin # <<>> /\ Head(Router!IndexToJoin) = Router!muxed_index
  <1> DEFINE put == call # None
             go == Router!Joins
             x == Result(call)
             y == CallSite[call]
             dt == Router!DataTaken
             it == Router!IndexTaken
             ds == Router!Optional(data_sidetrack)
             is == Router!Optional(index_sidetrack)
             ds2 == Router!Optional(data_sidetrack')
             is2 == Router!Optional(index_sidetrack')
             res == results
             ind == indices
  <1>1. put \in BOOLEAN /\ go \in BOOLEAN /\ dt \in BOOLEAN /\ it \in BOOLEAN
    BY DEF Router!Joins, Router!DataTaken, Router!IndexTaken
  <1>2. put => x \in Router!Datum /\ y \in Nat
    BY ResultType
  <1>3. /\ results \in Seq(Router!Datum) /\ indices \in Seq(Nat)
        /\ data_sidetrack \in Router!Datum \cup {None}
        /\ index_sidetrack \in Nat \cup {None}
    BY DEF Router!IInv, Router!TypeOK
  <1>4. /\ dt => results # <<>> /\ data_sidetrack = None
        /\ it => indices # <<>> /\ index_sidetrack = None
    BY DEF Router!IInv, Router!RegistersAgree, Router!DataTaken, Router!IndexTaken
  <1>5. /\ go => (dt \/ data_sidetrack # None) /\ (it \/ index_sidetrack # None)
    BY DEF Router!Joins
  <1>6. /\ data_sidetrack' = IF go THEN None ELSE IF dt THEN Head(results) ELSE data_sidetrack
        /\ index_sidetrack' = IF go THEN None ELSE IF it THEN Head(indices) ELSE index_sidetrack
    BY DEF Router!Cycle, Router!Join
  <1>7. results' = After(results, dt, put, x) /\ indices' = After(indices, it, put, y)
    BY DEF Router!Cycle, After, Result, CallTag
  <1>8. /\ ds \in Seq(Router!Datum) /\ Len(ds) <= 1 /\ is \in Seq(Nat) /\ Len(is) <= 1
        /\ ds = <<>> <=> data_sidetrack = None
        /\ is = <<>> <=> index_sidetrack = None
        /\ data_sidetrack # None => Head(ds) = data_sidetrack
        /\ index_sidetrack # None => Head(is) = index_sidetrack
    <2>1. CASE data_sidetrack = None /\ index_sidetrack = None
      BY <1>3, <2>1 DEF Router!Optional
    <2>2. CASE data_sidetrack = None /\ index_sidetrack # None
      BY <1>3, <2>2 DEF Router!Optional
    <2>3. CASE data_sidetrack # None /\ index_sidetrack = None
      BY <1>3, <2>3 DEF Router!Optional
    <2>4. CASE data_sidetrack # None /\ index_sidetrack # None
      BY <1>3, <2>4 DEF Router!Optional
    <2> QED BY <2>1, <2>2, <2>3, <2>4
  <1>9. /\ dt => Head(results) \in Router!Datum /\ Head(results) # None
        /\ it => Head(indices) \in Nat /\ Head(indices) # None
    <2>1. dt => Head(results) \in Router!Datum
      BY <1>3, <1>4, HeadTailProperties
    <2>2. it => Head(indices) \in Nat
      BY <1>3, <1>4, HeadTailProperties
    <2> QED BY <2>1, <2>2, RouterParameters, Zenon
  <1>10. /\ ds2 = IF go THEN <<>> ELSE IF dt THEN <<Head(res)>> ELSE ds
         /\ is2 = IF go THEN <<>> ELSE IF it THEN <<Head(ind)>> ELSE is
    BY <1>6, <1>9 DEF Router!Optional
  <1>11. /\ Router!ToJoin = ds \o res /\ Router!IndexToJoin = is \o ind
         /\ (Router!ToJoin)' = ds2 \o results' /\ (Router!IndexToJoin)' = is2 \o indices'
    BY DEF Router!ToJoin, Router!IndexToJoin, Router!Optional
  <1>12. /\ Router!muxed_data = IF ds # <<>> THEN Head(ds) ELSE Head(res)
         /\ Router!muxed_index = IF is # <<>> THEN Head(is) ELSE Head(ind)
    BY <1>8 DEF Router!muxed_data, Router!muxed_index
  <1>13. /\ dt => res # <<>> /\ ds = <<>>
         /\ it => ind # <<>> /\ is = <<>>
         /\ go => dt \/ ds # <<>>
         /\ go => it \/ is # <<>>
    BY <1>4, <1>5, <1>8
  <1>14. ds \o res \in Seq(Router!Datum) /\ is \o ind \in Seq(Nat)
    BY <1>3, <1>8, ConcatProperties
  <1>15. res \in Seq(Router!Datum) /\ ind \in Seq(Nat)
    BY <1>3
  <1> HIDE DEF put, go, x, y, dt, it, ds, is, ds2, is2, res, ind
  <1>16. SideTracked(ds, res, ds2, go, dt, put, x)
    <2>1. HasSideTrack(ds, res, ds2, go, dt, put, x, Router!Datum)
      BY <1>1, <1>2, <1>8, <1>10, <1>13, <1>15 DEF HasSideTrack
    <2> QED BY <2>1, SideTrack
  <1>17. SideTracked(is, ind, is2, go, it, put, y)
    <2>1. HasSideTrack(is, ind, is2, go, it, put, y, Nat)
      BY <1>1, <1>2, <1>8, <1>10, <1>13, <1>15 DEF HasSideTrack
    <2> QED BY <2>1, SideTrack
  <1>18. /\ ds2 \o results' = After(ds \o res, go, put, x)
         /\ is2 \o indices' = After(is \o ind, go, put, y)
         /\ go => /\ ds \o res # <<>> /\ Head(ds \o res) = Router!muxed_data
                  /\ is \o ind # <<>> /\ Head(is \o ind) = Router!muxed_index
    BY <1>7, <1>12, <1>16, <1>17 DEF SideTracked, res, ind
  <1> QED BY <1>11, <1>14, <1>18 DEF put, go, x, y

(* The join pairs a result with the index of its own call, and looks the   *)
(* right counter up.                                                       *)
LEMMA JoinPairs ==
    ASSUME Router!IInv, NEW call \in Router!Port \cup {None}, NEW accepted,
           NEW show_index \in BOOLEAN, NEW show_data \in BOOLEAN,
           Router!Cycle(call, accepted, show_index, show_data), Router!Joins
    PROVE  /\ Router!muxed_data \in Router!Datum /\ Router!muxed_data[1] \in Router!Port
           /\ Router!PORT_INDEX_MAP[Router!PortOf(Router!muxed_index)]
                = Router!CounterFor(Router!muxed_data[1], 1)
  <1> DEFINE s == Router!ToJoin
             t == Router!IndexToJoin
             d == Router!muxed_data
             j == Router!muxed_index
  <1>1. /\ s \in Seq(Router!Datum) /\ t \in Seq(Nat)
        /\ s # <<>> /\ Head(s) = d /\ t # <<>> /\ Head(t) = j
    BY JoinStep
  <1>2. Len(t) = Len(s) /\ \A k \in 1..Len(s) : t[k] = CallSite[s[k][1]]
    BY DEF Router!IInv, Router!Paired
  <1> HIDE DEF s, t, d, j
  <1>3. 1 \in 1..Len(s) /\ s[1] = d /\ t[1] = j /\ d \in Router!Datum
    BY <1>1
  <1>4. j = CallSite[d[1]] /\ d[1] \in Router!Port
    BY <1>2, <1>3 DEF Router!Datum
  <1>5. Router!PortOf(j) = d[1]
    BY <1>4, RouterParameters DEF Router!PortOf
  <1>6. 1 \in Router!Port /\ d[1] >= 1
    BY <1>4, RouterParameters
  <1>7. Router!PORT_INDEX_MAP[d[1]] = Router!CounterFor(d[1], 1)
    BY <1>4, <1>6, CounterStep
  <1> QED BY <1>3, <1>4, <1>5, <1>7 DEF d, j

LEMMA PairedStep ==
    ASSUME Router!IInv, NEW call \in Router!Port \cup {None}, NEW accepted,
           NEW show_index \in BOOLEAN, NEW show_data \in BOOLEAN,
           Router!Cycle(call, accepted, show_index, show_data)
    PROVE  (Router!Paired)'
  <1> DEFINE s == Router!ToJoin
             t == Router!IndexToJoin
             s2 == (Router!ToJoin)'
             t2 == (Router!IndexToJoin)'
             go == Router!Joins
             put == call # None
             x == Result(call)
             y == CallSite[call]
             b == Bit(go)
             n == Len(s)
  <1>1. /\ s \in Seq(Router!Datum) /\ t \in Seq(Nat)
        /\ s2 = After(s, go, put, x) /\ t2 = After(t, go, put, y)
        /\ go => s # <<>> /\ t # <<>>
    BY JoinStep
  <1>2. Len(t) = n /\ \A k \in 1..n : t[k] = CallSite[s[k][1]]
    BY DEF Router!IInv, Router!Paired
  <1>3. put => x \in Router!Datum /\ x[1] = call /\ y \in Nat
    BY ResultType
  <1>4. go \in BOOLEAN /\ put \in BOOLEAN
    BY DEF Router!Joins
  <1> HIDE DEF s, t, s2, t2, go, put, x
  <1>5. MovesUp(s, s2, go, put, x) /\ MovesUp(t, t2, go, put, y)
    BY <1>1, <1>3, <1>4, AfterShows
  <1>6. b \in {0, 1} /\ Bit(put) \in {0, 1} /\ n \in Nat /\ (go => n > 0) /\ (~put => Bit(put) = 0)
        /\ (put => Bit(put) = 1)
    BY <1>1, <1>4 DEF Bit
  <1>7. /\ Len(s2) = n + Bit(put) - b /\ Len(t2) = n + Bit(put) - b
        /\ \A k \in 1..(n - b) : s2[k] = s[k + b] /\ t2[k] = t[k + b]
        /\ put => s2[n - b + 1] = x /\ t2[n - b + 1] = y
    BY <1>2, <1>5 DEF MovesUp
  <1>8. ASSUME NEW k \in 1..Len(s2) PROVE t2[k] = CallSite[s2[k][1]]
    <2>1. b <= n /\ (b = 1 => go)
      BY <1>4, <1>6 DEF Bit
    <2>2. CASE k <= n - b
      <3>1. k \in 1..(n - b) /\ k + b \in 1..n
        BY <1>6, <1>7, <2>1, <2>2
      <3> HIDE DEF b, n
      <3> QED BY <1>2, <1>7, <3>1
    <2>3. CASE ~(k <= n - b)
      <3>1. put /\ k = n - b + 1
        BY <1>4, <1>6, <1>7, <2>1, <2>3
      <3> HIDE DEF b, n
      <3> QED BY <1>3, <1>7, <3>1
    <2> QED BY <2>2, <2>3
  <1>9. Len(t2) = Len(s2)
    BY <1>7
  <1> QED BY <1>8, <1>9 DEF Router!Paired, s2, t2

-----------------------------------------------------------------------------
(* What the registers before node i are given by the join or by the node   *)
(* before it.                                                              *)
Fed(i, accepted) == IF i = 1 THEN Router!Joins
                    ELSE ~Router!ToPort(i - 1) /\ Router!Moves(i - 1, accepted)
Given(i) == IF i = 1 THEN Router!muxed_data ELSE Router!Muxed(i - 1).data

Registers == 1..(NUM_OUTPUT_PORTS + 1)

LEMMA GivenItem ==
    ASSUME Router!IInv, NEW call \in Router!Port \cup {None}, NEW accepted,
           NEW show_index \in BOOLEAN, NEW show_data \in BOOLEAN,
           Router!Cycle(call, accepted, show_index, show_data),
           NEW i \in Registers, Fed(i, accepted)
    PROVE  /\ Given(i) \in Router!Datum /\ Given(i)[1] \in Router!Port /\ Given(i)[1] >= i
           /\ Router!SwitchFree(i)
           /\ switch'[i] = [valid |-> TRUE, data |-> Given(i),
                            match_counter |-> Router!CounterFor(Given(i)[1], i)]
  <1>1. /\ NUM_OUTPUT_PORTS \in Nat /\ Router!Port = 1..NUM_OUTPUT_PORTS
        /\ \A d \in Router!Port : d \in Nat /\ d >= 1
    BY RouterParameters
  <1>2. switch'[i] =
          IF i = 1 /\ Router!Joins THEN
             [valid |-> TRUE, data |-> Router!muxed_data,
              match_counter |-> Router!PORT_INDEX_MAP[Router!PortOf(Router!muxed_index)]]
          ELSE IF i > 1 /\ ~Router!ToPort(i - 1) /\ Router!Moves(i - 1, accepted) THEN
             [valid |-> TRUE, data |-> Router!Muxed(i - 1).data,
              match_counter |-> (Router!Muxed(i - 1).match_counter - 1) % 2^MatchWidth]
          ELSE IF Router!SwitchFree(i) THEN
             [switch[i] EXCEPT !.valid = FALSE, !.data = None]
          ELSE switch[i]
    BY DEF Router!Cycle, Router!Nodes, Registers
  <1>3. CASE i = 1
    <2>1. Router!Joins /\ Given(i) = Router!muxed_data
      BY <1>3 DEF Fed, Given
    <2>2. /\ Given(i) \in Router!Datum /\ Given(i)[1] \in Router!Port
          /\ Router!PORT_INDEX_MAP[Router!PortOf(Router!muxed_index)]
               = Router!CounterFor(Given(i)[1], i)
      BY <1>3, <2>1, JoinPairs
    <2>3. Router!SwitchFree(i)
      BY <1>3, <2>1 DEF Router!Joins
    <2> QED BY <1>1, <1>2, <1>3, <2>1, <2>2, <2>3
  <1>4. CASE i # 1
    <2> DEFINE j == i - 1
               d == Router!Muxed(j).data
    <2>1. j \in Router!Port /\ i = j + 1 /\ i > 1 /\ j \in Nat
      BY <1>1, <1>4 DEF Registers
    <2>2. ~Router!ToPort(j) /\ Router!Moves(j, accepted) /\ Given(i) = d
      BY <1>4 DEF Fed, Given
    <2>3. Router!InputTaken(j) \/ sidetrack[j] # None
      BY <2>2 DEF Router!Moves
    <2>4. /\ d \in Router!Datum /\ d[1] \in Router!Port /\ d[1] >= j /\ d[1] # j
          /\ Router!Muxed(j).match_counter = Router!CounterFor(d[1], j)
      BY <2>1, <2>2, <2>3, NodeItem
    <2>5. Router!SwitchFree(i)
      BY <2>1, <2>2 DEF Router!Moves, Router!Free
    <2>6. switch'[i] = [valid |-> TRUE, data |-> d,
              match_counter |-> (Router!Muxed(j).match_counter - 1) % 2^MatchWidth]
      BY <1>2, <1>4, <2>1, <2>2
    <2> HIDE DEF j, d
    <2>7. d[1] > j /\ d[1] >= i
      BY <1>1, <2>1, <2>4
    <2>8. (Router!CounterFor(d[1], j) - 1) % 2^MatchWidth = Router!CounterFor(d[1], i)
      BY <2>1, <2>4, <2>7, CounterStep
    <2> QED BY <2>2, <2>4, <2>5, <2>6, <2>7, <2>8
  <1> QED BY <1>3, <1>4

(* The registers before a node after an edge. *)
LEMMA SwitchStep ==
    ASSUME Router!IInv, NEW call \in Router!Port \cup {None}, NEW accepted,
           NEW show_index \in BOOLEAN, NEW show_data \in BOOLEAN,
           Router!Cycle(call, accepted, show_index, show_data),
           NEW i \in Registers
    PROVE  /\ switch'[i] \in Router!SwitchRegisters
           /\ switch'[i].valid <=> switch'[i].data # None
           /\ i \in Router!Port => Router!RouteFrom(switch'[i], i)
           /\ switch'[i].data = IF Fed(i, accepted) THEN Given(i)
                                ELSE IF Router!SwitchFree(i) THEN None ELSE switch[i].data
  <1>1. CASE Fed(i, accepted)
    <2> DEFINE d == Given(i)
    <2>1. /\ d \in Router!Datum /\ d[1] \in Router!Port /\ d[1] >= i
          /\ switch'[i] = [valid |-> TRUE, data |-> d,
                           match_counter |-> Router!CounterFor(d[1], i)]
      BY <1>1, GivenItem
    <2>2. d # None
      BY <2>1, RouterParameters
    <2>3. i \in Router!Port
      BY <2>1, RouterParameters DEF Registers
    <2> HIDE DEF d
    <2>4. Router!CounterFor(d[1], i) \in 0..(2^MatchWidth - 1)
      BY <2>1, <2>3, CounterStep
    <2>5. switch'[i] \in Router!SwitchRegisters
      BY <2>1, <2>4 DEF Router!SwitchRegisters
    <2>6. /\ switch'[i].valid = TRUE /\ switch'[i].data = d
          /\ switch'[i].match_counter = Router!CounterFor(d[1], i)
      BY <2>1
    <2>7. Router!RouteFrom(switch'[i], i)
      BY <2>1, <2>6 DEF Router!RouteFrom
    <2>8. switch'[i].valid <=> switch'[i].data # None
      BY <2>2, <2>6
    <2> QED BY <1>1, <2>5, <2>6, <2>7, <2>8 DEF d
  <1>2. CASE ~Fed(i, accepted)
    <2>1. switch[i] \in Router!SwitchRegisters
      BY DEF Router!IInv, Router!TypeOK, Registers
    <2>2. switch[i].valid <=> switch[i].data # None
      BY DEF Router!IInv, Router!RegistersAgree, Registers
    <2>3. i \in Router!Port => Router!RouteFrom(switch[i], i)
      BY DEF Router!IInv, Router!RoutesKnown
    <2>4. switch'[i] = IF Router!SwitchFree(i) THEN
                          [switch[i] EXCEPT !.valid = FALSE, !.data = None]
                       ELSE switch[i]
      <3>1. /\ ~(i = 1 /\ Router!Joins)
            /\ ~(i > 1 /\ ~Router!ToPort(i - 1) /\ Router!Moves(i - 1, accepted))
        BY <1>2 DEF Fed
      <3> QED BY <3>1 DEF Router!Cycle, Router!Nodes, Registers
    <2>5. CASE Router!SwitchFree(i)
      <3> DEFINE r == [switch[i] EXCEPT !.valid = FALSE, !.data = None]
      <3>1. switch'[i] = r
        BY <2>4, <2>5
      <3>2. r \in Router!SwitchRegisters /\ r.valid = FALSE /\ r.data = None
        BY <2>1 DEF Router!SwitchRegisters
      <3> HIDE DEF r
      <3>3. Router!RouteFrom(r, i)
        BY <3>2 DEF Router!RouteFrom
      <3> QED BY <1>2, <2>5, <3>1, <3>2, <3>3
    <2>6. CASE ~Router!SwitchFree(i)
      <3>1. switch'[i] = switch[i]
        BY <2>4, <2>6
      <3> QED BY <1>2, <2>1, <2>2, <2>3, <2>6, <3>1
    <2> QED BY <2>5, <2>6
  <1> QED BY <1>1, <1>2

(* A node passes on the oldest of what it holds and gets what it is given. *)
LEMMA HeldStep ==
    ASSUME Router!IInv, NEW call \in Router!Port \cup {None}, NEW accepted,
           NEW show_index \in BOOLEAN, NEW show_data \in BOOLEAN,
           Router!Cycle(call, accepted, show_index, show_data),
           NEW i \in Router!Port
    PROVE  /\ Router!Held(i) \in Seq(Router!Datum)
           /\ Router!Held(i)' = After(Router!Held(i), Router!Moves(i, accepted),
                                      Fed(i, accepted), Given(i))
           /\ Router!Moves(i, accepted) =>
                Router!Held(i) # <<>> /\ Head(Router!Held(i)) = Router!Muxed(i).data
  <1> DEFINE D == Router!Datum
             go == Router!Moves(i, accepted)
             put == Fed(i, accepted)
             x == Given(i)
             taken == Router!InputTaken(i)
             free == Router!SwitchFree(i)
             side == sidetrack[i]
             d == switch[i].data
             d2 == switch'[i].data
             front == IF side = None THEN <<>> ELSE <<side.data>>
             back == Router!Optional(d)
             front2 == IF sidetrack'[i] = None THEN <<>> ELSE <<sidetrack'[i].data>>
             back2 == Router!Optional(d2)
  <1>1. /\ i \in Registers /\ ~(i > NUM_OUTPUT_PORTS)
    BY RouterParameters DEF Registers
  <1>2. go \in BOOLEAN /\ put \in BOOLEAN /\ taken \in BOOLEAN
    BY DEF Router!Moves, Fed, Router!InputTaken, Router!Joins
  <1>3. put => x \in D /\ free
    BY <1>1, GivenItem
  <1>4. /\ switch[i] \in Router!SwitchRegisters
        /\ side \in Router!SwitchRegisters \cup {None}
    BY <1>1 DEF Router!IInv, Router!TypeOK, Registers
  <1>5. /\ switch[i].valid <=> d # None
        /\ side # None => ~ready[i] /\ side.data # None
    BY <1>1 DEF Router!IInv, Router!RegistersAgree, Registers
  <1>6. d \in D \cup {None} /\ (side # None => side.data \in D)
    BY <1>4, <1>5 DEF Router!SwitchRegisters
  <1>7. /\ taken <=> d # None /\ ready[i]
        /\ free <=> d = None \/ ready[i]
    BY <1>1, <1>5 DEF Router!InputTaken, Router!SwitchFree, Router!SwitchReady
  <1>8. d2 = IF put THEN x ELSE IF free THEN None ELSE d
    BY <1>1, SwitchStep
  <1>9. sidetrack'[i] = IF go THEN None ELSE IF taken THEN switch[i] ELSE side
    BY DEF Router!Cycle, Router!Nodes
  <1>10. go => taken \/ side # None
    BY DEF Router!Moves
  <1>11. Router!Muxed(i).data = IF side # None THEN side.data ELSE d
    BY DEF Router!Muxed
  <1>12. switch[i] # None /\ None \notin D
    BY <1>4, RouterParameters
  <1>13. Router!Held(i) = front \o back /\ Router!Held(i)' = front2 \o back2
    BY DEF Router!Held, Router!Optional
  <1> HIDE DEF D, go, put, x, taken, free, d, d2, side
  <1>14. /\ front \in Seq(D) /\ Len(front) <= 1 /\ back \in Seq(D)
         /\ front = <<>> <=> side = None
         /\ back = <<>> <=> d = None
         /\ d # None => Head(back) = d
         /\ side # None => Head(front) = side.data
    BY <1>6 DEF Router!Optional
  <1>15. front2 = IF go THEN <<>> ELSE IF taken THEN <<Head(back)>> ELSE front
    <2>1. CASE go
      BY <1>9, <2>1
    <2>2. CASE ~go /\ taken
      <3>1. sidetrack'[i] = switch[i] /\ switch[i].data = d
        BY <1>9, <2>2 DEF d
      <3>2. Head(back) = d
        BY <1>7, <1>14, <2>2
      <3> QED BY <1>12, <2>2, <3>1, <3>2
    <2>3. CASE ~go /\ ~taken
      BY <1>9, <2>3
    <2> QED BY <2>1, <2>2, <2>3
  <1>16. back2 = After(back, taken, put, x)
    <2>1. CASE put
      <3>1. x \in D /\ x # None /\ (d # None => taken) /\ d2 = x
        BY <1>3, <1>7, <1>8, <1>12, <2>1
      <3>2. back2 = <<x>>
        BY <3>1 DEF Router!Optional
      <3>3. CASE d = None
        <4>1. back = <<>> /\ ~taken
          BY <1>7, <1>14, <3>3
        <4> QED BY <2>1, <3>2, <4>1, Short, Zenon DEF After
      <3>4. CASE d # None
        <4>1. back = <<d>> /\ taken
          BY <3>1, <3>4 DEF Router!Optional
        <4> QED BY <2>1, <3>2, <4>1, Short, Zenon DEF After
      <3> QED BY <3>3, <3>4
    <2>2. CASE ~put
      <3>1. CASE d = None
        <4>1. back = <<>> /\ ~taken /\ d2 = None
          BY <1>7, <1>8, <1>14, <2>2, <3>1
        <4>2. back2 = <<>>
          BY <4>1 DEF Router!Optional
        <4> QED BY <2>2, <4>1, <4>2, Short, Zenon DEF After
      <3>2. CASE d # None /\ taken
        <4>1. back = <<d>> /\ back2 = <<>>
          BY <1>7, <1>8, <2>2, <3>2 DEF Router!Optional
        <4> QED BY <2>2, <3>2, <4>1, Short, Zenon DEF After
      <3>3. CASE d # None /\ ~taken
        <4>1. back = <<d>> /\ back2 = <<d>>
          BY <1>7, <1>8, <2>2, <3>3 DEF Router!Optional
        <4> QED BY <2>2, <3>3, <4>1, Short, Zenon DEF After
      <3> QED BY <3>1, <3>2, <3>3
    <2> QED BY <2>1, <2>2
  <1>17. /\ taken => back # <<>> /\ front = <<>>
         /\ go => taken \/ front # <<>>
    BY <1>5, <1>7, <1>10, <1>14
  <1>18. Router!Muxed(i).data = IF front # <<>> THEN Head(front) ELSE IF d # None THEN Head(back) ELSE d
    BY <1>11, <1>14
  <1> HIDE DEF front, back, front2, back2
  <1>19. HasSideTrack(front, back, front2, go, taken, put, x, D)
    BY <1>2, <1>3, <1>14, <1>15, <1>17 DEF HasSideTrack
  <1>20. SideTracked(front, back, front2, go, taken, put, x)
    BY <1>19, SideTrack
  <1>21. /\ front2 \o back2 = After(front \o back, go, put, x)
         /\ go => front \o back # <<>> /\ Head(front \o back) = Router!Muxed(i).data
    BY <1>7, <1>14, <1>16, <1>17, <1>18, <1>20 DEF SideTracked
  <1>22. front \o back \in Seq(D)
    BY <1>14, ConcatProperties
  <1> QED BY <1>13, <1>21, <1>22 DEF D, go, put, x

(* What a port is offered. *)
LEMMA OutputStep ==
    ASSUME Router!IInv, NEW call \in Router!Port \cup {None}, NEW accepted,
           NEW show_index \in BOOLEAN, NEW show_data \in BOOLEAN,
           Router!Cycle(call, accepted, show_index, show_data),
           NEW p \in Router!Port, p \in accepted => output[p] # None
    PROVE  /\ Router!Optional(output[p]) \in Seq(Router!Datum)
           /\ output'[p] \in Router!Datum \cup {None}
           /\ Router!Optional(output'[p])
                = After(Router!Optional(output[p]), p \in accepted,
                        Router!ToPort(p) /\ Router!Moves(p, accepted), Router!Muxed(p).data)
           /\ p \in accepted => /\ Router!Optional(output[p]) # <<>>
                                /\ Head(Router!Optional(output[p])) = output[p]
  <1> DEFINE o == output[p]
             e == output'[p]
             put == Router!ToPort(p) /\ Router!Moves(p, accepted)
             take == p \in accepted
             x == Router!Muxed(p).data
  <1>1. o \in Router!Datum \cup {None}
    BY DEF Router!IInv, Router!TypeOK
  <1>2. e = IF put THEN x ELSE IF o = None \/ take THEN None ELSE o
    BY DEF Router!Cycle, Router!Nodes, Router!OutputFree
  <1>3. put => x \in Router!Datum /\ (o = None \/ take)
    <2> SUFFICES ASSUME put PROVE x \in Router!Datum /\ (o = None \/ take)
      OBVIOUS
    <2>1. Router!InputTaken(p) \/ sidetrack[p] # None
      BY DEF Router!Moves
    <2>2. x \in Router!Datum
      BY <2>1, NodeItem
    <2>3. o = None \/ take
      BY DEF Router!Moves, Router!Free, Router!OutputFree
    <2> QED BY <2>2, <2>3
  <1>4. take => o # None
    OBVIOUS
  <1>5. put \in BOOLEAN /\ take \in BOOLEAN
    BY DEF Router!Moves
  <1>6. None \notin Router!Datum
    BY RouterParameters
  <1> HIDE DEF o, e, put, take, x
  <1>8. Router!Optional(e) = After(Router!Optional(o), take, put, x)
    <2>1. CASE o = None
      <3>1. ~take /\ Router!Optional(o) = <<>>
        BY <1>4, <2>1 DEF Router!Optional
      <3>2. CASE put
        <4>1. Router!Optional(e) = <<x>>
          BY <1>2, <1>3, <1>6, <3>2 DEF Router!Optional
        <4> QED BY <3>1, <3>2, <4>1, Short, Zenon DEF After
      <3>3. CASE ~put
        <4>1. Router!Optional(e) = <<>>
          BY <1>2, <2>1, <3>3 DEF Router!Optional
        <4> QED BY <3>1, <3>3, <4>1, Short, Zenon DEF After
      <3> QED BY <3>2, <3>3
    <2>2. CASE o # None
      <3>1. Router!Optional(o) = <<o>>
        BY <2>2 DEF Router!Optional
      <3>2. CASE put
        <4>1. take /\ Router!Optional(e) = <<x>>
          BY <1>2, <1>3, <1>6, <2>2, <3>2 DEF Router!Optional
        <4> QED BY <3>1, <3>2, <4>1, Short, Zenon DEF After
      <3>3. CASE ~put /\ take
        <4>1. Router!Optional(e) = <<>>
          BY <1>2, <3>3 DEF Router!Optional
        <4> QED BY <3>1, <3>3, <4>1, Short, Zenon DEF After
      <3>4. CASE ~put /\ ~take
        <4>1. Router!Optional(e) = <<o>>
          BY <1>2, <2>2, <3>4 DEF Router!Optional
        <4> QED BY <3>1, <3>4, <4>1, Short, Zenon DEF After
      <3> QED BY <3>2, <3>3, <3>4
    <2> QED BY <2>1, <2>2
  <1>9. Router!Optional(o) \in Seq(Router!Datum) /\ e \in Router!Datum \cup {None}
    BY <1>1, <1>2, <1>3 DEF Router!Optional
  <1>10. take => Router!Optional(o) # <<>> /\ Head(Router!Optional(o)) = o
    BY <1>4 DEF Router!Optional
  <1> QED BY <1>8, <1>9, <1>10 DEF o, e, put, take, x

(* A result for port p leaves the join (j = 0) or node j. *)
Leaves(j, p, accepted) ==
    IF j = 0 THEN Router!Joins /\ Router!muxed_data[1] = p
    ELSE Router!Moves(j, accepted) /\ Router!Muxed(j).data[1] = p

(* A place on the way to port p: what it was, what it becomes, and whether *)
(* its oldest result leaves and a new one comes.                           *)
PlaceMoves(old, new, take, put, item, head, S) ==
    /\ old \in Seq(S) /\ new \in Seq(S) /\ take \in BOOLEAN /\ put \in BOOLEAN
    /\ new = After(old, take, put, item)
    /\ take => old # <<>> /\ Head(old) = head
    /\ put => item \in S

LEMMA NodePlace ==
    ASSUME Router!IInv, NEW call \in Router!Port \cup {None}, NEW accepted,
           NEW show_index \in BOOLEAN, NEW show_data \in BOOLEAN,
           Router!Cycle(call, accepted, show_index, show_data),
           NEW p \in Router!Port, NEW i \in 1..p
    PROVE  PlaceMoves(Router!Mine(Router!Held(i), p), (Router!Mine(Router!Held(i), p))',
                      Leaves(i, p, accepted), Leaves(i - 1, p, accepted), Given(i),
                      Given(i + 1), Router!Datum)
  <1> DEFINE D == Router!Datum
             s == Router!Held(i)
             t == Router!Held(i)'
             go == Router!Moves(i, accepted)
             put == Fed(i, accepted)
             x == Given(i)
             y == Given(i + 1)
             out == Leaves(i, p, accepted)
             in == Leaves(i - 1, p, accepted)
  <1>1. p \in 1..NUM_OUTPUT_PORTS /\ NUM_OUTPUT_PORTS \in Nat /\ Router!Port = 1..NUM_OUTPUT_PORTS
    BY RouterParameters
  <1>2. i \in Router!Port /\ i \in Registers /\ i # 0 /\ i + 1 # 1 /\ (i + 1) - 1 = i
    BY <1>1 DEF Registers
  <1>3. s \in Seq(D) /\ t = After(s, go, put, x) /\ (go => s # <<>> /\ Head(s) = y)
    BY <1>2, HeldStep DEF Given
  <1>4. put => x \in D
    BY <1>2, GivenItem
  <1>5. go \in BOOLEAN /\ put \in BOOLEAN /\ out \in BOOLEAN /\ in \in BOOLEAN
    BY DEF Router!Moves, Fed, Leaves, Router!Joins
  <1>6. out <=> go /\ Head(s)[1] = p
    BY <1>2, <1>3 DEF Leaves, Given
  <1>7. in <=> put /\ x[1] = p
    <2>1. CASE i = 1
      BY <2>1 DEF Leaves, Fed, Given
    <2>2. CASE i # 1
      <3> DEFINE j == i - 1
      <3>1. j \in Router!Port /\ j # 0 /\ j < p
        BY <1>1, <2>2
      <3>2. Router!Moves(j, accepted) /\ Router!Muxed(j).data[1] = p => ~Router!ToPort(j)
        <4> SUFFICES ASSUME Router!Moves(j, accepted), Router!Muxed(j).data[1] = p
                     PROVE  ~Router!ToPort(j)
          OBVIOUS
        <4>1. Router!InputTaken(j) \/ sidetrack[j] # None
          BY DEF Router!Moves
        <4>2. Router!ToPort(j) <=> Router!Muxed(j).data[1] = j
          BY <3>1, <4>1, NodeItem
        <4> QED BY <1>1, <3>1, <4>2
      <3> QED BY <2>2, <3>1, <3>2 DEF Leaves, Fed, Given
    <2> QED BY <2>1, <2>2
  <1>8. (Router!Mine(Router!Held(i), p))' = Router!Mine(t, p)
    BY DEF Router!Mine
  <1> HIDE DEF D, s, t, go, put, x, y, out, in
  <1>9. MineMoves(p, s, go, put, x)
    BY <1>3, <1>4, <1>5, MineAfter DEF D
  <1>10. /\ Router!Mine(s, p) \in Seq(D)
         /\ Router!Mine(t, p) = After(Router!Mine(s, p), go /\ Head(s)[1] = p, put /\ x[1] = p, x)
         /\ go /\ Head(s)[1] = p =>
              Router!Mine(s, p) # <<>> /\ Head(Router!Mine(s, p)) = Head(s)
    BY <1>3, <1>9 DEF MineMoves, D
  <1> DEFINE a == Router!Mine(s, p)
             b == Router!Mine(t, p)
  <1>11. a \in Seq(D) /\ b = After(a, out, in, x) /\ (out => a # <<>> /\ Head(a) = y)
    <2>1. (go /\ Head(s)[1] = p) = out /\ (put /\ x[1] = p) = in
      BY <1>5, <1>6, <1>7, Zenon
    <2>2. out => go
      BY <1>6
    <2> QED BY <1>3, <1>10, <2>1, <2>2, Zenon
  <1>12. in => x \in D
    BY <1>4, <1>7
  <1> HIDE DEF a, b
  <1>13. b \in Seq(D)
    BY <1>5, <1>11, <1>12, AfterLength
  <1>14. PlaceMoves(a, b, out, in, x, y, D)
    BY <1>5, <1>11, <1>12, <1>13, Zenon DEF PlaceMoves
  <1> QED BY <1>8, <1>14 DEF a, b, D, s, out, in, x, y

LEMMA JoinPlace ==
    ASSUME Router!IInv, NEW call \in Router!Port \cup {None}, NEW accepted,
           NEW show_index \in BOOLEAN, NEW show_data \in BOOLEAN,
           Router!Cycle(call, accepted, show_index, show_data),
           NEW p \in Router!Port
    PROVE  PlaceMoves(Router!Mine(Router!ToJoin, p), (Router!Mine(Router!ToJoin, p))',
                      Leaves(0, p, accepted), call = p, Result(call), Given(1), Router!Datum)
  <1> DEFINE D == Router!Datum
             s == Router!ToJoin
             t == (Router!ToJoin)'
             go == Router!Joins
             put == call # None
             x == Result(call)
             y == Given(1)
             out == Leaves(0, p, accepted)
             in == call = p
  <1>1. s \in Seq(D) /\ t = After(s, go, put, x) /\ (go => s # <<>> /\ Head(s) = y)
    BY JoinStep DEF Given
  <1>2. (put => x \in D /\ x[1] = call) /\ (in => put)
    BY ResultType, RouterParameters
  <1>3. go \in BOOLEAN /\ put \in BOOLEAN /\ out \in BOOLEAN /\ in \in BOOLEAN
    BY DEF Leaves, Router!Joins
  <1>4. out <=> go /\ Head(s)[1] = p
    BY <1>1 DEF Leaves, Given
  <1>5. in <=> put /\ x[1] = p
    BY <1>2
  <1>6. (Router!Mine(Router!ToJoin, p))' = Router!Mine(t, p)
    BY DEF Router!Mine
  <1> HIDE DEF D, s, t, go, put, x, y, out, in
  <1>7. MineMoves(p, s, go, put, x)
    BY <1>1, <1>2, <1>3, MineAfter DEF D
  <1> DEFINE a == Router!Mine(s, p)
             b == Router!Mine(t, p)
  <1>8. a \in Seq(D) /\ b = After(a, out, in, x) /\ (out => a # <<>> /\ Head(a) = y)
    <2>1. (go /\ Head(s)[1] = p) = out /\ (put /\ x[1] = p) = in
      BY <1>3, <1>4, <1>5, Zenon
    <2>2. out => go
      BY <1>4
    <2>3. /\ a \in Seq(D)
          /\ b = After(a, go /\ Head(s)[1] = p, put /\ x[1] = p, x)
          /\ go /\ Head(s)[1] = p => a # <<>> /\ Head(a) = Head(s)
      BY <1>1, <1>7 DEF MineMoves, D
    <2> QED BY <1>1, <2>1, <2>2, <2>3, Zenon
  <1>9. in => x \in D
    BY <1>2
  <1> HIDE DEF a, b
  <1>10. b \in Seq(D)
    BY <1>3, <1>8, <1>9, AfterLength
  <1>11. PlaceMoves(a, b, out, in, x, y, D)
    BY <1>3, <1>8, <1>9, <1>10, Zenon DEF PlaceMoves
  <1> QED BY <1>6, <1>11 DEF a, b, D, s, out, in, x, y

LEMMA OutputPlace ==
    ASSUME Router!IInv, NEW call \in Router!Port \cup {None}, NEW accepted,
           NEW show_index \in BOOLEAN, NEW show_data \in BOOLEAN,
           Router!Cycle(call, accepted, show_index, show_data),
           NEW p \in Router!Port, p \in accepted => output[p] # None
    PROVE  PlaceMoves(Router!Optional(output[p]), Router!Optional(output'[p]),
                      p \in accepted, Leaves(p, p, accepted), Given(p + 1), output[p],
                      Router!Datum)
  <1> DEFINE D == Router!Datum
             a == Router!Optional(output[p])
             b == Router!Optional(output'[p])
             take == p \in accepted
             in == Leaves(p, p, accepted)
             x == Given(p + 1)
  <1>1. p \in Nat /\ p # 0 /\ p + 1 # 1 /\ (p + 1) - 1 = p
    BY RouterParameters
  <1>2. x = Router!Muxed(p).data
    BY <1>1 DEF Given
  <1>3. Router!Moves(p, accepted) =>
           (Router!ToPort(p) <=> Router!Muxed(p).data[1] = p) /\ x \in D
    <2> SUFFICES ASSUME Router!Moves(p, accepted)
                 PROVE  (Router!ToPort(p) <=> Router!Muxed(p).data[1] = p) /\ x \in D
      OBVIOUS
    <2>1. Router!InputTaken(p) \/ sidetrack[p] # None
      BY DEF Router!Moves
    <2> QED BY <1>2, <2>1, NodeItem
  <1>4. in <=> Router!ToPort(p) /\ Router!Moves(p, accepted)
    BY <1>1, <1>3 DEF Leaves
  <1>5. take \in BOOLEAN /\ in \in BOOLEAN /\ (in => x \in D)
    <2>1. take \in BOOLEAN /\ in \in BOOLEAN
      BY <1>1 DEF Leaves, Router!Moves
    <2>2. in => x \in D
      BY <1>3, <1>4
    <2> QED BY <2>1, <2>2
  <1>6. /\ a \in Seq(D)
        /\ b = After(a, take, Router!ToPort(p) /\ Router!Moves(p, accepted), x)
        /\ take => a # <<>> /\ Head(a) = output[p]
    BY <1>2, OutputStep
  <1> HIDE DEF D, a, b, take, in, x
  <1>7. (Router!ToPort(p) /\ Router!Moves(p, accepted)) = in
    BY <1>4, <1>5, Zenon
  <1>8. b = After(a, take, in, x)
    BY <1>6, <1>7, Zenon
  <1>9. b \in Seq(D)
    BY <1>5, <1>6, <1>8, AfterLength
  <1>10. PlaceMoves(a, b, take, in, x, output[p], D)
    BY <1>5, <1>6, <1>8, <1>9, Zenon DEF PlaceMoves
  <1> QED BY <1>10 DEF D, a, b, take, in, x

(* All that is under way to a port, from the port back to the join: it     *)
(* loses what the port accepts and gains the result of a new call.         *)
LEMMA RouteStep ==
    ASSUME Router!IInv, NEW call \in Router!Port \cup {None}, NEW accepted,
           NEW show_index \in BOOLEAN, NEW show_data \in BOOLEAN,
           Router!Cycle(call, accepted, show_index, show_data),
           NEW p \in Router!Port, p \in accepted => output[p] # None
    PROVE  Router!FlattenSeq(Router!Way(p)')
             = After(Router!FlattenSeq(Router!Way(p)), p \in accepted, call = p, Result(call))
  <1> DEFINE n == p + 2
             old == Router!Way(p)
             new == Router!Way(p)'
             D == Router!Datum
             offered == Router!Optional(output[p])
             offered2 == Router!Optional(output'[p])
             held(i) == Router!Mine(Router!Held(i), p)
             held2(i) == (Router!Mine(Router!Held(i), p))'
             join == Router!Mine(Router!ToJoin, p)
             join2 == (Router!Mine(Router!ToJoin, p))'
             out(j) == Leaves(j, p, accepted)
             value(j) == Given(j + 1)
             accept == p \in accepted
             new_call == call = p
             x == Result(call)
             shown == output[p]
             take == [k \in 1..n |-> IF k = 1 THEN accept ELSE out(p + 2 - k)]
             put == [k \in 1..n |-> IF k = n THEN new_call ELSE out(p + 1 - k)]
             item == [k \in 1..n |-> IF k = n THEN x ELSE value(p + 1 - k)]
  <1>1. p \in Nat /\ p >= 1 /\ n \in Nat /\ n > 0
    BY RouterParameters
  <1>2. old = [k \in 1..n |-> IF k = 1 THEN offered
                              ELSE IF k = n THEN join ELSE held(p + 2 - k)]
    BY DEF Router!Way
  <1>3. new = [k \in 1..n |-> IF k = 1 THEN offered2
                              ELSE IF k = n THEN join2 ELSE held2(p + 2 - k)]
    BY DEF Router!Way, Router!Optional
  <1>4. PlaceMoves(offered, offered2, accept, out(p), value(p), shown, D)
    BY OutputPlace
  <1>5. PlaceMoves(join, join2, out(0), new_call, x, value(0), D)
    BY JoinPlace
  <1>6. ASSUME NEW i \in 1..p
        PROVE  PlaceMoves(held(i), held2(i), out(i), out(i - 1), value(i - 1), value(i), D)
    <2>1. (i - 1) + 1 = i
      OBVIOUS
    <2>2. PlaceMoves(Router!Mine(Router!Held(i), p), (Router!Mine(Router!Held(i), p))',
                     Leaves(i, p, accepted), Leaves(i - 1, p, accepted), Given(i),
                     Given(i + 1), Router!Datum)
      BY NodePlace
    <2> QED BY <2>1, <2>2
  <1> HIDE DEF n, old, new, D, offered, offered2, held, held2, join, join2, out, value,
              accept, new_call, x, shown
  <1>7. ASSUME NEW k \in 1..n
        PROVE  \E h : /\ PlaceMoves(old[k], new[k], take[k], put[k], item[k], h, D)
                      /\ k = 1 => h = shown
                      /\ k # 1 => h = value(p + 2 - k)
    <2>1. CASE k = 1
      <3>1. k # n /\ p + 1 - k = p
        BY <1>1, <2>1 DEF n
      <3>2. /\ old[k] = offered /\ new[k] = offered2 /\ take[k] = accept
            /\ put[k] = out(p) /\ item[k] = value(p)
        BY <1>2, <1>3, <2>1, <3>1
      <3> QED BY <1>4, <2>1, <3>2, Zenon
    <2>2. CASE k = n
      <3>1. k # 1 /\ p + 2 - k = 0
        BY <1>1, <2>2 DEF n
      <3>2. /\ old[k] = join /\ new[k] = join2 /\ take[k] = out(0)
            /\ put[k] = new_call /\ item[k] = x
        BY <1>2, <1>3, <2>2, <3>1
      <3> QED BY <1>5, <3>1, <3>2, Zenon
    <2>3. CASE k # 1 /\ k # n
      <3> DEFINE i == p + 2 - k
      <3>1. i \in 1..p /\ p + 1 - k = i - 1
        BY <1>1, <2>3 DEF n
      <3>2. /\ old[k] = held(i) /\ new[k] = held2(i) /\ take[k] = out(i)
            /\ put[k] = out(i - 1) /\ item[k] = value(i - 1)
        BY <1>2, <1>3, <2>3, <3>1
      <3>3. PlaceMoves(held(i), held2(i), out(i), out(i - 1), value(i - 1), value(i), D)
        BY <1>6, <3>1
      <3> QED BY <2>3, <3>2, <3>3, Zenon
    <2> QED BY <2>1, <2>2, <2>3
  <1>8. /\ DOMAIN old = 1..n /\ old = [k \in 1..n |-> old[k]]
        /\ DOMAIN new = 1..n /\ new = [k \in 1..n |-> new[k]]
    BY <1>2, <1>3
  <1>9. \A k \in 2..n : /\ k \in 1..n /\ k - 1 \in 1..n /\ k # 1 /\ k - 1 # n
                        /\ p + 1 - (k - 1) = p + 2 - k
    BY <1>1
  <1>10. ASSUME NEW k \in 2..n
         PROVE  /\ put[k - 1] = take[k]
                /\ item[k - 1] = value(p + 2 - k)
    BY <1>9
  <1>11. /\ take[1] = accept /\ put[n] = new_call /\ item[n] = x
    BY <1>1
  <1>12. /\ take = [k \in 1..n |-> take[k]] /\ put = [k \in 1..n |-> put[k]]
    OBVIOUS
  <1> HIDE DEF take, put, item
  <1>13. \A k \in 1..n : /\ old[k] \in Seq(D) /\ new[k] \in Seq(D)
                         /\ take[k] \in BOOLEAN /\ put[k] \in BOOLEAN
                         /\ new[k] = After(old[k], take[k], put[k], item[k])
                         /\ take[k] => old[k] # <<>>
                         /\ take[k] /\ k # 1 => Head(old[k]) = value(p + 2 - k)
                         /\ put[k] => item[k] \in D
    BY <1>7, Zenon DEF PlaceMoves
  <1>14. /\ old \in [1..n -> Seq(D)] /\ new \in [1..n -> Seq(D)]
         /\ take \in [1..n -> BOOLEAN] /\ put \in [1..n -> BOOLEAN]
    BY <1>8, <1>12, <1>13, Zenon
  <1>15. ASSUME NEW k \in 2..n
         PROVE  put[k - 1] = take[k] /\ (put[k - 1] => item[k - 1] = Head(old[k]))
    BY <1>9, <1>10, <1>13, Zenon
  <1>16. HandsOn(old, new, take, put, item, n, D)
    BY <1>13, <1>14, <1>15, Zenon DEF HandsOn
  <1>17. RowChanges(old, new, take, put, item, n, D)
    BY <1>1, <1>16, Row
  <1>18. Router!FlattenSeq(old) = Joint(old, n) /\ Router!FlattenSeq(new) = Joint(new, n)
    <2>1. Len(old) = n /\ Len(new) = n
      BY <1>1, <1>14
    <2> QED BY <1>1, <2>1 DEF Router!FlattenSeq, Joint
  <1>19. Joint(new, n) = After(Joint(old, n), accept, new_call, x)
    BY <1>11, <1>17, Zenon DEF RowChanges
  <1>20. Router!FlattenSeq(new) = After(Router!FlattenSeq(old), accept, new_call, x)
    BY <1>18, <1>19
  <1> QED BY <1>20 DEF old, new, accept, new_call, x

-----------------------------------------------------------------------------
LEMMA TypeStep ==
    ASSUME Router!IInv, NEW call \in Router!Port \cup {None}, NEW accepted,
           NEW show_index \in BOOLEAN, NEW show_data \in BOOLEAN,
           Router!Cycle(call, accepted, show_index, show_data),
           \A p \in Router!Port : p \in accepted => output[p] # None
    PROVE  (Router!TypeOK)'
  <1>1. next_tag' \in [Router!Port -> 0..(Tag - 1)]
    <2>1. \A n \in Nat : n % Tag \in 0..(Tag - 1)
      BY RouterParameters
    <2>2. next_tag \in [Router!Port -> 0..(Tag - 1)]
      BY DEF Router!IInv, Router!TypeOK
    <2>3. call # None => call \in Router!Port
      OBVIOUS
    <2>4. next_tag' = [p \in Router!Port |-> IF p = call THEN (CallTag(call) + 1) % Tag
                                             ELSE next_tag[p]]
      BY DEF Router!Cycle, CallTag
    <2>5. CallTag(call) + 1 \in Nat
      BY <2>2, <2>3 DEF CallTag
    <2> QED BY <2>1, <2>2, <2>4, <2>5
  <1>2. results' \in Seq(Router!Datum) /\ indices' \in Seq(Nat)
    <2> DEFINE put == call # None
               dt == Router!DataTaken
               it == Router!IndexTaken
               x == Result(call)
               y == CallSite[call]
    <2>1. results' = After(results, dt, put, x) /\ indices' = After(indices, it, put, y)
      BY DEF Router!Cycle, After, Result, CallTag
    <2>2. put => x \in Router!Datum /\ y \in Nat
      BY ResultType
    <2>3. results \in Seq(Router!Datum) /\ indices \in Seq(Nat)
      BY DEF Router!IInv, Router!TypeOK
    <2>4. (dt => results # <<>>) /\ (it => indices # <<>>)
      BY DEF Router!IInv, Router!RegistersAgree, Router!DataTaken, Router!IndexTaken
    <2>5. put \in BOOLEAN /\ dt \in BOOLEAN /\ it \in BOOLEAN
      BY DEF Router!DataTaken, Router!IndexTaken
    <2> HIDE DEF put, dt, it, x, y
    <2> QED BY <2>1, <2>2, <2>3, <2>4, <2>5, AfterLength
  <1>3. /\ index_valid' \in BOOLEAN /\ data_valid' \in BOOLEAN
        /\ index_ready' \in BOOLEAN /\ data_ready' \in BOOLEAN
    BY DEF Router!Cycle, Router!Join
  <1>4. index_sidetrack' \in Nat \cup {None} /\ data_sidetrack' \in Router!Datum \cup {None}
    <2>1. /\ results \in Seq(Router!Datum) /\ indices \in Seq(Nat)
          /\ index_sidetrack \in Nat \cup {None} /\ data_sidetrack \in Router!Datum \cup {None}
      BY DEF Router!IInv, Router!TypeOK
    <2>2. /\ Router!DataTaken => results # <<>>
          /\ Router!IndexTaken => indices # <<>>
      BY DEF Router!IInv, Router!RegistersAgree, Router!DataTaken, Router!IndexTaken
    <2>3. /\ Router!DataTaken => Head(results) \in Router!Datum
          /\ Router!IndexTaken => Head(indices) \in Nat
      BY <2>1, <2>2
    <2> QED BY <2>1, <2>3 DEF Router!Cycle, Router!Join
  <1>5. switch' \in [Registers -> Router!SwitchRegisters]
    <2>1. DOMAIN switch' = Registers /\ switch' = [i \in Registers |-> switch'[i]]
      BY DEF Router!Cycle, Router!Nodes, Registers
    <2>2. \A i \in Registers : switch'[i] \in Router!SwitchRegisters
      BY SwitchStep
    <2> QED BY <2>1, <2>2
  <1>6. ready' \in [Router!Port -> BOOLEAN]
    BY DEF Router!Cycle, Router!Nodes
  <1>7. sidetrack' \in [Router!Port -> Router!SwitchRegisters \cup {None}]
    <2>1. \A i \in Router!Port : /\ switch[i] \in Router!SwitchRegisters
                                 /\ sidetrack[i] \in Router!SwitchRegisters \cup {None}
      BY RouterParameters DEF Router!IInv, Router!TypeOK
    <2> QED BY <2>1 DEF Router!Cycle, Router!Nodes
  <1>8. output' \in [Router!Port -> Router!Datum \cup {None}]
    <2>1. output' = [p \in Router!Port |-> output'[p]]
      BY DEF Router!Cycle, Router!Nodes
    <2>2. \A p \in Router!Port : output'[p] \in Router!Datum \cup {None}
      BY OutputStep
    <2> QED BY <2>1, <2>2
  <1> QED BY <1>1, <1>2, <1>3, <1>4, <1>5, <1>6, <1>7, <1>8 DEF Router!TypeOK, Registers

LEMMA AgreeStep ==
    ASSUME Router!IInv, NEW call \in Router!Port \cup {None}, NEW accepted,
           NEW show_index \in BOOLEAN, NEW show_data \in BOOLEAN,
           Router!Cycle(call, accepted, show_index, show_data)
    PROVE  (Router!RegistersAgree)' /\ (Router!RoutesKnown)'
  <1>1. (index_valid' => indices' # <<>>) /\ (data_valid' => results' # <<>>)
    BY DEF Router!Cycle
  <1>2. /\ index_sidetrack' # None => ~index_ready'
        /\ data_sidetrack' # None => ~data_ready'
    BY DEF Router!Cycle, Router!Join, Router!IInv, Router!RegistersAgree
  <1>3. ASSUME NEW i \in Registers PROVE switch'[i].valid <=> switch'[i].data # None
    BY SwitchStep
  <1>4. ASSUME NEW i \in Router!Port
        PROVE  /\ sidetrack'[i] # None => ~ready'[i] /\ sidetrack'[i].data # None
               /\ sidetrack'[i] # None => Router!RouteFrom(sidetrack'[i], i)
    <2>1. i \in Registers
      BY RouterParameters DEF Registers
    <2>2. /\ sidetrack'[i] = IF Router!Moves(i, accepted) THEN None
                             ELSE IF Router!InputTaken(i) THEN switch[i] ELSE sidetrack[i]
          /\ ready'[i] = (Router!Free(i, accepted) \/
                             IF Router!InputTaken(i) THEN FALSE
                             ELSE sidetrack[i] = None \/ ready[i])
      BY DEF Router!Cycle, Router!Nodes
    <2>3. /\ switch[i].valid <=> switch[i].data # None
          /\ sidetrack[i] # None => ~ready[i] /\ sidetrack[i].data # None
      BY <2>1 DEF Router!IInv, Router!RegistersAgree, Registers
    <2>4. /\ Router!RouteFrom(switch[i], i)
          /\ sidetrack[i] # None => Router!RouteFrom(sidetrack[i], i)
      BY DEF Router!IInv, Router!RoutesKnown
    <2>5. Router!Moves(i, accepted) <=>
             Router!Free(i, accepted) /\ (Router!InputTaken(i) \/ sidetrack[i] # None)
      BY DEF Router!Moves
    <2>6. Router!InputTaken(i) => switch[i].data # None
      BY <2>3 DEF Router!InputTaken
    <2> QED BY <2>2, <2>3, <2>4, <2>5, <2>6
  <1>5. ASSUME NEW i \in Router!Port PROVE Router!RouteFrom(switch'[i], i)
    <2>1. i \in Registers
      BY RouterParameters DEF Registers
    <2> QED BY <2>1, SwitchStep
  <1>6. (Router!RegistersAgree)'
    BY <1>1, <1>2, <1>3, <1>4 DEF Router!RegistersAgree, Registers
  <1>7. (Router!RoutesKnown)'
    <2>1. \A i \in Router!Port :
             /\ Router!RouteFrom(switch'[i], i)
             /\ sidetrack'[i] # None => Router!RouteFrom(sidetrack'[i], i)
      BY <1>4, <1>5
    <2> QED BY <2>1 DEF Router!RoutesKnown, Router!RouteFrom
  <1> QED BY <1>6, <1>7

LEMMA DueStep ==
    ASSUME Router!IInv, NEW call \in Router!Port \cup {None}, NEW accepted,
           NEW show_index \in BOOLEAN, NEW show_data \in BOOLEAN,
           Router!Cycle(call, accepted, show_index, show_data),
           \A p \in Router!Port : p \in accepted => output[p] # None
    PROVE  (Router!DueUnderWay)'
  <1> SUFFICES ASSUME NEW p \in Router!Port
               PROVE  due'[p] = Router!FlattenSeq(Router!Way(p)')
    BY DEF Router!DueUnderWay, Router!FlattenSeq, Router!Way
  <1>1. due[p] = Router!FlattenSeq(Router!Way(p))
    BY DEF Router!IInv, Router!DueUnderWay
  <1>2. due'[p] = After(due[p], p \in accepted, call = p, Result(call))
    BY DEF Router!Cycle, After, Result, CallTag
  <1>3. Router!FlattenSeq(Router!Way(p)')
          = After(Router!FlattenSeq(Router!Way(p)), p \in accepted, call = p, Result(call))
    BY RouteStep
  <1> QED BY <1>1, <1>2, <1>3

(* At first nothing is under way and nothing is due. *)
LEMMA RouterInit == Router!Init => Router!IInv
  <1> SUFFICES ASSUME Router!Init PROVE Router!IInv
    OBVIOUS
  <1>0. 0 \in 0..(2^MatchWidth - 1) /\ 2^MatchWidth - 1 \in 0..(2^MatchWidth - 1)
    BY RouterParameters, CounterWidth
  <1>1. PICK matching \in SUBSET Router!Port :
           switch = [i \in 1..(NUM_OUTPUT_PORTS + 1) |->
                        [valid |-> FALSE, data |-> None,
                         match_counter |-> IF i \in matching THEN 2^MatchWidth - 1 ELSE 0]]
    BY DEF Router!Init
  <1>2. \A i \in 1..(NUM_OUTPUT_PORTS + 1) : /\ switch[i] \in Router!SwitchRegisters
                                             /\ switch[i].valid = FALSE
                                             /\ switch[i].data = None
    BY <1>0, <1>1 DEF Router!SwitchRegisters
  <1>3. \A i \in Router!Port : i \in 1..(NUM_OUTPUT_PORTS + 1)
    BY RouterParameters
  <1>4. Router!TypeOK
    <2>1. 0 \in 0..(Tag - 1)
      BY RouterParameters
    <2>2. switch \in [1..(NUM_OUTPUT_PORTS + 1) -> Router!SwitchRegisters]
      BY <1>1, <1>2
    <2>3. /\ next_tag \in [Router!Port -> 0..(Tag - 1)]
          /\ sidetrack \in [Router!Port -> Router!SwitchRegisters \cup {None}]
          /\ output \in [Router!Port -> Router!Datum \cup {None}]
          /\ ready \in [Router!Port -> BOOLEAN]
      BY <2>1 DEF Router!Init
    <2>4. indices \in Seq(Nat) /\ results \in Seq(Router!Datum)
      BY DEF Router!Init
    <2>5. /\ index_valid \in BOOLEAN /\ data_valid \in BOOLEAN
          /\ index_ready \in BOOLEAN /\ data_ready \in BOOLEAN
          /\ index_sidetrack = None /\ data_sidetrack = None
      BY DEF Router!Init
    <2> QED BY <2>2, <2>3, <2>4, <2>5 DEF Router!TypeOK
  <1>5. Router!RegistersAgree
    BY <1>2 DEF Router!Init, Router!RegistersAgree
  <1>6. Router!RoutesKnown
    BY <1>2, <1>3 DEF Router!Init, Router!RoutesKnown, Router!RouteFrom
  <1>7. <<>> \o <<>> = <<>>
    OBVIOUS
  <1>8. Router!ToJoin = <<>> /\ Router!IndexToJoin = <<>>
    BY <1>7 DEF Router!Init, Router!ToJoin, Router!IndexToJoin, Router!Optional
  <1>9. Router!Paired
    BY <1>8 DEF Router!Paired
  <1>10. ASSUME NEW i \in Router!Port PROVE Router!Held(i) = <<>>
    BY <1>2, <1>3, <1>7 DEF Router!Init, Router!Held, Router!Optional
  <1>11. ASSUME NEW p PROVE Router!Mine(<<>>, p) = <<>>
    <2>1. <<>> \in Seq(Router!Datum) /\ Len(<<>>) = 0
      OBVIOUS
    <2> QED BY <2>1, MineJoint
  <1>12. ASSUME NEW p \in Router!Port PROVE due[p] = Router!FlattenSeq(Router!Way(p))
    <2> DEFINE n == p + 2
               row == Router!Way(p)
    <2>1. p \in Nat /\ n \in Nat /\ n > 0 /\ p \in 1..NUM_OUTPUT_PORTS
          /\ Router!Port = 1..NUM_OUTPUT_PORTS /\ NUM_OUTPUT_PORTS \in Nat
      BY RouterParameters
    <2>2. row = [k \in 1..n |-> <<>>]
      <3>1. ASSUME NEW k \in 1..n
            PROVE  (IF k = 1 THEN Router!Optional(output[p])
                    ELSE IF k = p + 2 THEN Router!Mine(Router!ToJoin, p)
                    ELSE Router!Mine(Router!Held(p + 2 - k), p)) = <<>>
        <4>1. CASE k = 1
          BY <4>1 DEF Router!Init, Router!Optional
        <4>2. CASE k = p + 2
          BY <1>8, <1>11, <2>1, <4>2
        <4>3. CASE k # 1 /\ k # p + 2
          <5>1. p + 2 - k \in Router!Port
            BY <2>1, <4>3
          <5> QED BY <1>10, <1>11, <4>3, <5>1
        <4> QED BY <4>1, <4>2, <4>3
      <3> QED BY <3>1 DEF Router!Way
    <2> HIDE DEF n, row
    <2>3. row \in [1..n -> Seq(Router!Datum)] /\ \A k \in 1..n : Len(row[k]) <= 0
      BY <2>2
    <2>4. Joint(row, n) \in Seq(Router!Datum) /\ Len(Joint(row, n)) <= 0 * n
      BY <2>1, <2>3, RowLength
    <2>5. Joint(row, n) = <<>>
      <3> DEFINE s == Joint(row, n)
      <3>1. s \in Seq(Router!Datum) /\ Len(s) <= 0
        BY <2>1, <2>4
      <3> HIDE DEF s
      <3>2. s = <<>>
        BY <3>1, EmptySeq
      <3> QED BY <3>2 DEF s
    <2>6. Router!FlattenSeq(row) = Joint(row, n)
      <3>1. Len(row) = n
        BY <2>1, <2>3
      <3> QED BY <2>1, <3>1 DEF Router!FlattenSeq, Joint
    <2>7. due[p] = <<>>
      BY DEF Router!Init
    <2> QED BY <2>5, <2>6, <2>7 DEF row
  <1> QED BY <1>4, <1>5, <1>6, <1>9, <1>12 DEF Router!IInv, Router!DueUnderWay

(* Every edge of the clock keeps the invariant. *)
THEOREM RouterInvariance == Router!Spec => []Router!IInv
  <1>1. Router!IInv /\ [Router!Next]_(Router!vars) => (Router!IInv)'
    <2> SUFFICES ASSUME Router!IInv, [Router!Next]_(Router!vars) PROVE (Router!IInv)'
      OBVIOUS
    <2>1. CASE Router!Next
      <3>1. PICK call \in Router!Port \cup {None},
                 accepted \in SUBSET {p \in Router!Port : output[p] # None},
                 show_index \in BOOLEAN, show_data \in BOOLEAN :
                    Router!Cycle(call, accepted, show_index, show_data)
        BY <2>1 DEF Router!Next
      <3>2. \A p \in Router!Port : p \in accepted => output[p] # None
        OBVIOUS
      <3> QED BY <3>1, <3>2, TypeStep, AgreeStep, PairedStep, DueStep DEF Router!IInv
    <2>2. CASE UNCHANGED Router!vars
      <3> USE <2>2 DEF Router!vars
      <3>1. (Router!TypeOK)' /\ (Router!RegistersAgree)'
        BY DEF Router!IInv, Router!TypeOK, Router!RegistersAgree
      <3>2. (Router!RoutesKnown)'
        BY DEF Router!IInv, Router!RoutesKnown, Router!RouteFrom
      <3>3. (Router!ToJoin)' = Router!ToJoin /\ (Router!IndexToJoin)' = Router!IndexToJoin
        BY DEF Router!ToJoin, Router!IndexToJoin, Router!Optional
      <3>4. (Router!Paired)'
        BY <3>3 DEF Router!IInv, Router!Paired
      <3>5. ASSUME NEW p \in Router!Port PROVE Router!Way(p)' = Router!Way(p)
        BY DEF Router!Way, Router!Mine, Router!ToJoin, Router!Held, Router!Optional,
           Router!FlattenSeq
      <3>6. (Router!DueUnderWay)'
        <4>1. \A p \in Router!Port : due'[p] = Router!FlattenSeq(Router!Way(p)')
          BY <3>5 DEF Router!IInv, Router!DueUnderWay
        <4> QED BY <4>1 DEF Router!DueUnderWay, Router!FlattenSeq, Router!Way
      <3> QED BY <3>1, <3>2, <3>4, <3>6 DEF Router!IInv
    <2> QED BY <2>1, <2>2
  <1> QED BY <1>1, RouterInit, PTL DEF Router!Spec

(* For any number of ports, any table of call sites and however indices,   *)
(* results and ready signals are timed: what a port is offered is the      *)
(* result of its own oldest call without an answer.                        *)
THEOREM RoutedToCallerHolds == Router!Spec => []RoutedToCaller
  <1>1. Router!IInv => RoutedToCaller
    <2> SUFFICES ASSUME Router!IInv, NEW p \in Router!Port, output[p] # None
                 PROVE  due[p] # <<>> /\ output[p] = Head(due[p])
      BY DEF RoutedToCaller, Router!RoutedToCaller
    <2> DEFINE n == p + 2
               row == Router!Way(p)
    <2>1. p \in Nat /\ n \in Nat /\ n > 0 /\ Router!Port = 1..NUM_OUTPUT_PORTS
          /\ NUM_OUTPUT_PORTS \in Nat /\ p \in 1..NUM_OUTPUT_PORTS
      BY RouterParameters
    <2>2. output[p] \in Router!Datum
      BY DEF Router!IInv, Router!TypeOK
    <2>3. row[1] = <<output[p]>> /\ DOMAIN row = 1..n /\ row = [k \in 1..n |-> row[k]]
      BY <2>1 DEF Router!Way, Router!Optional
    <2>4. ASSUME NEW k \in 1..n PROVE row[k] \in Seq(Router!Datum)
      <3>1. CASE k = 1
        <4>1. <<output[p]>> \in Seq(Router!Datum)
          BY <2>2
        <4> HIDE DEF row
        <4> QED BY <2>3, <3>1, <4>1
      <3>2. CASE k = n
        <4>1. Router!ToJoin \in Seq(Router!Datum)
          BY DEF Router!ToJoin, Router!Optional, Router!IInv, Router!TypeOK
        <4>2. row[k] = Router!Mine(Router!ToJoin, p)
          BY <2>1, <3>2 DEF Router!Way
        <4> QED BY <4>1, <4>2, MineType
      <3>3. CASE k # 1 /\ k # n
        <4> DEFINE i == p + 2 - k
        <4>1. i \in Router!Port
          BY <2>1, <3>3
        <4>2. Router!Held(i) \in Seq(Router!Datum)
          <5>1. /\ switch[i].data \in Router!Datum \cup {None}
                /\ sidetrack[i] # None => sidetrack[i].data \in Router!Datum
            BY <2>1, <4>1 DEF Router!IInv, Router!TypeOK, Router!RegistersAgree,
               Router!SwitchRegisters
          <5> QED BY <5>1 DEF Router!Held, Router!Optional
        <4>3. row[k] = Router!Mine(Router!Held(i), p)
          BY <3>3 DEF Router!Way
        <4> QED BY <4>2, <4>3, MineType
      <3> QED BY <3>1, <3>2, <3>3
    <2> HIDE DEF n, row
    <2>5. row \in [1..n -> Seq(Router!Datum)] /\ row[1] # <<>> /\ Head(row[1]) = output[p]
      BY <2>3, <2>4
    <2>6. Joint(row, n) # <<>> /\ Head(Joint(row, n)) = output[p]
      BY <2>1, <2>5, RowHead
    <2>7. due[p] = Joint(row, n)
      <3>1. Len(row) = n
        BY <2>1, <2>5
      <3>2. due[p] = Router!FlattenSeq(row)
        BY DEF Router!IInv, Router!DueUnderWay, row
      <3> QED BY <2>1, <3>1, <3>2 DEF Router!FlattenSeq, Joint
    <2> QED BY <2>6, <2>7
  <1> QED BY <1>1, RouterInvariance, PTL
-----------------------------------------------------------------------------
(* The registers of a register FIFO agree: both copies of empty, full with *)
(* the overflow register, and what is offered is an item.                  *)
Sound(s) ==
    /\ s \in Regs!SkidStates(Item)
    /\ s.empty = s.internal_empty /\ s.full = s.overflow
    /\ s.overflow => ~s.empty /\ s.overflow_data \in Item
    /\ ~s.empty => s.output_data \in Item

(* One clock edge of a register FIFO. *)
LEMMA SkidStep ==
    ASSUME NEW s, Sound(s), NEW wrreq \in BOOLEAN, NEW rdreq \in BOOLEAN, NEW data,
           wrreq => ~s.full /\ data \in Item, rdreq => ~s.empty,
           data \in Item \cup {NoItem},
           NEW e, e = Regs!SkidNext(s, wrreq, data, rdreq)
    PROVE  /\ Sound(e)
           /\ Regs!SkidItems(e) = After(Regs!SkidItems(s), rdreq, wrreq, data)
  <1>1. /\ s.full \in BOOLEAN /\ s.overflow \in BOOLEAN /\ s.empty \in BOOLEAN
        /\ s.internal_empty = s.empty /\ s.full = s.overflow
        /\ s.output_data \in Item \cup {NoItem} /\ s.overflow_data \in Item \cup {NoItem}
    BY DEF Sound, Regs!SkidStates
  <1>2. RegistersAgree(s, Item)
    BY <1>1 DEF Sound, RegistersAgree
  <1>3. RegisterEdge(s, e, wrreq, data, rdreq)
    BY DEF Regs!SkidNext, Regs!Direct, RegisterEdge
  <1>4. RegistersAgree(e, Item) /\ Entries(e) = After(Entries(s), rdreq, wrreq, data)
    BY <1>2, <1>3, RegisterStep
  <1>5. e \in Regs!SkidStates(Item)
    BY <1>1 DEF Regs!SkidNext, Regs!Direct, Regs!SkidStates
  <1> QED BY <1>4, <1>5 DEF Sound, RegistersAgree, Entries, Regs!SkidItems

(* What a register FIFO whose registers agree holds. *)
Holds(s, items) ==
    /\ items \in Seq(Item) /\ Len(items) <= 2
    /\ ~s.empty => items # <<>> /\ Head(items) = s.output_data

LEMMA SoundItems ==
    ASSUME NEW s, Sound(s)
    PROVE  Holds(s, Regs!SkidItems(s))
  <1>1. RegistersAgree(s, Item)
    BY DEF Sound, Regs!SkidStates, RegistersAgree
  <1>2. Entries(s) = Regs!SkidItems(s)
    BY DEF Entries, Regs!SkidItems
  <1> QED BY <1>1, <1>2, EntriesType DEF Holds

(* The registers of every stage of the read buffer agree. *)
ReadBufferInv ==
    /\ stage \in [Regs!Stages -> Regs!SkidStates(Item)]
    /\ \A i \in Regs!Stages : Sound(stage[i])

(* The library joins sequences as the lemmas on rows do. *)
LEMMA FlattenRow ==
    ASSUME NEW items, NEW n \in Nat, n > 0, Len(items) = n
    PROVE  Regs!FlattenSeq(items) = Joint(items, n)
  BY DEF Regs!FlattenSeq, Joint

(* A sound register with the types of its fields spelt out. *)
Whole(s) ==
    /\ Sound(s)
    /\ s.empty \in BOOLEAN /\ s.full \in BOOLEAN
    /\ s.output_data \in Item \cup {NoItem}
    /\ ~s.empty => s.output_data \in Item

(* A clock edge of the read buffer. *)
LEMMA ReadBufferStep ==
    ASSUME Regs!ReadBufferAssumption, ReadBufferInv,
           NEW head \in Item \cup {NoItem}, NEW rdreq \in BOOLEAN, Regs!Cycle(head, rdreq)
    PROVE  /\ ReadBufferInv'
           /\ Regs!Contents \in Seq(Item)
           /\ Regs!Contents' = After(Regs!Contents, rdreq, Regs!Pulls(head), head)
           /\ rdreq => Regs!Contents # <<>> /\ delivered' = Head(Regs!Contents)
           /\ Len(Regs!Contents') <= 2 * ReadBufferDepth
  <1> DEFINE wrreq(i) == IF i = 0 THEN Regs!Pulls(head) ELSE Regs!Moves(i)
             data(i) == IF i = 0 THEN head ELSE stage[i - 1].output_data
             rd(i) == IF i = Regs!LastStage THEN rdreq ELSE Regs!Moves(i + 1)
  <1>0. /\ ReadBufferDepth \in Nat /\ ReadBufferDepth > 0 /\ NoItem \notin Item
        /\ 0 \in Regs!Stages /\ Regs!LastStage \in Regs!Stages
    BY DEF Regs!ReadBufferAssumption, Regs!Stages, Regs!LastStage
  <1>1. /\ rdreq => ~stage[Regs!LastStage].empty
        /\ stage' = [i \in Regs!Stages |-> Regs!SkidNext(stage[i], wrreq(i), data(i), rd(i))]
        /\ delivered' = IF rdreq THEN stage[Regs!LastStage].output_data ELSE delivered
    BY DEF Regs!Cycle, Regs!rdempty_out, Regs!rddata_out
  <1>2. \A i \in Regs!Stages : Whole(stage[i])
    BY DEF ReadBufferInv, Sound, Whole, Regs!SkidStates
  <1>3. ASSUME NEW i \in Regs!Stages
        PROVE  /\ wrreq(i) \in BOOLEAN /\ rd(i) \in BOOLEAN
               /\ wrreq(i) => ~stage[i].full /\ data(i) \in Item
               /\ rd(i) => ~stage[i].empty
               /\ data(i) \in Item \cup {NoItem}
    <2>1. i \in 0..(ReadBufferDepth - 1) /\ Regs!LastStage = ReadBufferDepth - 1
      BY DEF Regs!Stages, Regs!LastStage
    <2>2. /\ i # 0 => i - 1 \in Regs!Stages
          /\ i # Regs!LastStage => i + 1 \in Regs!Stages /\ (i + 1) - 1 = i
      BY <1>0, <2>1 DEF Regs!Stages
    <2>3. /\ wrreq(i) \in BOOLEAN
          /\ wrreq(i) => ~stage[i].full /\ data(i) \in Item
          /\ data(i) \in Item \cup {NoItem}
      <3>1. CASE i = 0
        BY <1>2, <3>1 DEF Regs!Pulls, Whole
      <3>2. CASE i # 0
        <4>1. wrreq(i) = (~stage[i - 1].empty /\ ~stage[i].full)
              /\ data(i) = stage[i - 1].output_data
          BY <3>2 DEF Regs!Moves
        <4>2. /\ ~stage[i - 1].empty => stage[i - 1].output_data \in Item
              /\ stage[i - 1].output_data \in Item \cup {NoItem}
          <5> DEFINE j == i - 1
          <5>1. j \in Regs!Stages
            BY <2>2, <3>2
          <5> HIDE DEF j
          <5>2. Whole(stage[j])
            BY ONLY <1>2, <5>1
          <5>3. /\ ~stage[j].empty => stage[j].output_data \in Item
                /\ stage[j].output_data \in Item \cup {NoItem}
            BY ONLY <5>2 DEF Whole
          <5> QED BY <5>3 DEF j
        <4> HIDE DEF wrreq, data
        <4> QED BY <4>1, <4>2
      <3> QED BY <3>1, <3>2
    <2>4. rd(i) \in BOOLEAN /\ (rd(i) => ~stage[i].empty)
      <3>1. CASE i = Regs!LastStage
        BY <1>1, <3>1
      <3>2. CASE i # Regs!LastStage
        BY <1>2, <2>2, <3>2 DEF Regs!Moves, Whole
      <3> QED BY <3>1, <3>2
    <2> QED BY <2>3, <2>4
  <1>4. ASSUME NEW i \in Regs!Stages
        PROVE  /\ Sound(stage'[i])
               /\ Regs!SkidItems(stage'[i]) = After(Regs!SkidItems(stage[i]), rd(i), wrreq(i), data(i))
    <2>1. stage'[i] = Regs!SkidNext(stage[i], wrreq(i), data(i), rd(i))
      BY <1>1
    <2> DEFINE s == stage[i]
               w == wrreq(i)
               d == data(i)
               r == rd(i)
    <2>2. /\ Sound(s) /\ w \in BOOLEAN /\ r \in BOOLEAN /\ d \in Item \cup {NoItem}
          /\ w => ~s.full /\ d \in Item
          /\ r => ~s.empty
      <3>1. Whole(stage[i])
        BY ONLY <1>2
      <3> HIDE DEF wrreq, data, rd
      <3> QED BY <1>3, <3>1 DEF Whole
    <2>3. stage'[i] = Regs!SkidNext(s, w, d, r)
      BY <2>1
    <2> HIDE DEF s, w, d, r
    <2>4. Sound(stage'[i]) /\ Regs!SkidItems(stage'[i]) = After(Regs!SkidItems(s), r, w, d)
      BY <2>2, <2>3, SkidStep
    <2> QED BY <2>4 DEF s, w, d, r
  <1>5. ReadBufferInv'
    <2>1. \A i \in Regs!Stages : stage'[i] \in Regs!SkidStates(Item)
      BY <1>4 DEF Sound
    <2>2. stage' \in [Regs!Stages -> Regs!SkidStates(Item)]
      BY <1>1, <2>1
    <2> QED BY <1>4, <2>2 DEF ReadBufferInv
  <1> DEFINE n == ReadBufferDepth
             at(k) == ReadBufferDepth - k
             items == [k \in 1..n |-> Regs!SkidItems(stage[at(k)])]
             new == [k \in 1..n |-> Regs!SkidItems(stage'[at(k)])]
             take == [k \in 1..n |-> rd(at(k))]
             put == [k \in 1..n |-> wrreq(at(k))]
             item == [k \in 1..n |-> data(at(k))]
  <1>6. \A k \in 1..n : at(k) \in Regs!Stages
    BY <1>0 DEF Regs!Stages
  <1>7. ASSUME NEW i \in Regs!Stages
        PROVE  /\ Holds(stage[i], Regs!SkidItems(stage[i]))
               /\ Holds(stage'[i], Regs!SkidItems(stage'[i]))
    <2>1. Sound(stage[i]) /\ Sound(stage'[i])
      <3>1. Whole(stage[i])
        BY ONLY <1>2
      <3> HIDE DEF wrreq, data, rd
      <3> QED BY <1>4, <3>1 DEF Whole
    <2> QED BY <2>1, SoundItems
  <1>8. /\ items \in [1..n -> Seq(Item)] /\ new \in [1..n -> Seq(Item)]
        /\ \A k \in 1..n : Len(new[k]) <= 2
    <2>1. \A k \in 1..n : /\ Regs!SkidItems(stage[at(k)]) \in Seq(Item)
                          /\ Regs!SkidItems(stage'[at(k)]) \in Seq(Item)
                          /\ Len(Regs!SkidItems(stage'[at(k)])) <= 2
      BY <1>6, <1>7 DEF Holds
    <2> HIDE DEF at
    <2> QED BY <2>1
  <1>9. take \in [1..n -> BOOLEAN] /\ put \in [1..n -> BOOLEAN]
    BY <1>3, <1>6
  <1>10. \A k \in 1..n : /\ take[k] => items[k] # <<>>
                         /\ put[k] => item[k] \in Item
                         /\ new[k] = After(items[k], take[k], put[k], item[k])
    <2> SUFFICES ASSUME NEW k \in 1..n
                 PROVE  /\ take[k] => items[k] # <<>>
                        /\ put[k] => item[k] \in Item
                        /\ new[k] = After(items[k], take[k], put[k], item[k])
      OBVIOUS
    <2>1. at(k) \in Regs!Stages
      BY <1>6
    <2>2. /\ take[k] = rd(at(k)) /\ put[k] = wrreq(at(k)) /\ item[k] = data(at(k))
          /\ items[k] = Regs!SkidItems(stage[at(k)]) /\ new[k] = Regs!SkidItems(stage'[at(k)])
      OBVIOUS
    <2>3. /\ rd(at(k)) => ~stage[at(k)].empty
          /\ wrreq(at(k)) => data(at(k)) \in Item
      BY <1>3, <2>1
    <2>4. ~stage[at(k)].empty => Regs!SkidItems(stage[at(k)]) # <<>>
      BY <1>7, <2>1 DEF Holds
    <2>5. Regs!SkidItems(stage'[at(k)])
            = After(Regs!SkidItems(stage[at(k)]), rd(at(k)), wrreq(at(k)), data(at(k)))
      BY <1>4, <2>1
    <2> HIDE DEF at, rd, wrreq, data, items, new, take, put, item
    <2> QED BY <2>2, <2>3, <2>4, <2>5
  <1>11. \A k \in 2..n : /\ put[k - 1] = take[k]
                         /\ put[k - 1] => item[k - 1] = Head(items[k])
    <2> SUFFICES ASSUME NEW k \in 2..n
                 PROVE  /\ put[k - 1] = take[k]
                        /\ put[k - 1] => item[k - 1] = Head(items[k])
      OBVIOUS
    <2> DEFINE i == ReadBufferDepth - k
    <2>1. /\ k \in 1..n /\ k - 1 \in 1..n /\ at(k) = i /\ at(k - 1) = i + 1
          /\ i \in Regs!Stages /\ i + 1 # 0 /\ i # Regs!LastStage /\ (i + 1) - 1 = i
      BY <1>0 DEF Regs!Stages, Regs!LastStage
    <2>2. put[k - 1] = Regs!Moves(i + 1) /\ take[k] = Regs!Moves(i + 1)
      BY <2>1
    <2>3. item[k - 1] = stage[i].output_data /\ items[k] = Regs!SkidItems(stage[i])
      BY <2>1
    <2>4. Regs!Moves(i + 1) => ~stage[i].empty
      BY <2>1 DEF Regs!Moves
    <2>5. ~stage[i].empty => Head(Regs!SkidItems(stage[i])) = stage[i].output_data
      BY <1>7, <2>1 DEF Holds
    <2> HIDE DEF i, put, take, item, items
    <2> QED BY <2>2, <2>3, <2>4, <2>5
  <1>12. /\ take[1] = rdreq /\ put[n] = Regs!Pulls(head) /\ item[n] = head
         /\ items[1] = Regs!SkidItems(stage[Regs!LastStage])
    <2>1. 1 \in 1..n /\ n \in 1..n /\ at(1) = Regs!LastStage /\ at(n) = 0
      BY <1>0 DEF Regs!LastStage
    <2> QED BY <2>1
  <1>13. Regs!Contents = Joint(items, n) /\ Regs!Contents' = Joint(new, n)
    <2>1. Regs!Contents = Regs!FlattenSeq(items) /\ Regs!Contents' = Regs!FlattenSeq(new)
      BY DEF Regs!Contents
    <2>2. Len(items) = n /\ Len(new) = n /\ n \in Nat /\ n > 0
      BY <1>0
    <2> HIDE DEF items, new, n
    <2> QED BY <2>1, <2>2, FlattenRow
  <1>14. ~stage[Regs!LastStage].empty
           => Head(Regs!SkidItems(stage[Regs!LastStage])) = stage[Regs!LastStage].output_data
    BY <1>0, <1>7 DEF Holds
  <1> HIDE DEF items, new, take, put, item, n, at, wrreq, data, rd
  <1>15. n \in Nat /\ n > 0 /\ n = ReadBufferDepth
    BY <1>0 DEF n
  <1>16. /\ Joint(items, n) \in Seq(Item)
         /\ Joint(new, n) = After(Joint(items, n), take[1], put[n], item[n])
         /\ take[1] => /\ Joint(items, n) # <<>>
                       /\ Head(Joint(items, n)) = Head(items[1])
    <2>1. HandsOn(items, new, take, put, item, n, Item)
      BY <1>8, <1>9, <1>10, <1>11 DEF HandsOn
    <2>2. RowChanges(items, new, take, put, item, n, Item)
      BY <1>15, <2>1, Row
    <2> QED BY <2>2 DEF RowChanges
  <1>17. Len(Joint(new, n)) <= 2 * n
    BY <1>8, <1>15, RowLength
  <1> QED BY <1>1, <1>5, <1>12, <1>13, <1>14, <1>15, <1>16, <1>17

(* The row of register FIFOs of a read buffer, whatever its length, is one *)
(* FIFO of twice that many entries: at every clock edge each stage moves on*)
(* the flags its neighbours had before it, and no item is lost, duplicated *)
(* or overtaken between two stages.                                        *)
THEOREM ReadBufferImplementsFifo == Regs!Spec => Regs!ImplementsFifo
  <1> USE RegistersAssumption
  <1>1. Regs!Init => ReadBufferInv /\ Regs!Abstract!Init
    <2> SUFFICES ASSUME Regs!Init PROVE ReadBufferInv /\ Regs!Abstract!Init
      OBVIOUS
    <2>1. \A i \in Regs!Stages : stage[i] = Regs!SkidReset
      BY DEF Regs!Init
    <2>2. ReadBufferInv
      BY <2>1 DEF Regs!Init, ReadBufferInv, Sound, Regs!SkidReset, Regs!SkidStates
    <2> DEFINE items == [k \in 1..ReadBufferDepth |-> Regs!SkidItems(stage[ReadBufferDepth - k])]
    <2>3. ReadBufferDepth \in Nat /\ ReadBufferDepth > 0 /\ \A k \in 1..ReadBufferDepth : ReadBufferDepth - k \in Regs!Stages
      BY DEF Regs!ReadBufferAssumption, Regs!Stages
    <2>4. Regs!SkidItems(Regs!SkidReset) = <<>>
      BY DEF Regs!SkidItems, Regs!SkidReset
    <2>5. items \in [1..ReadBufferDepth -> Seq(Item)] /\ \A k \in 1..ReadBufferDepth : Len(items[k]) <= 0
      <3>1. \A k \in 1..ReadBufferDepth : Regs!SkidItems(stage[ReadBufferDepth - k]) = <<>>
        BY <2>1, <2>3, <2>4
      <3>2. <<>> \in Seq(Item) /\ Len(<<>>) = 0
        OBVIOUS
      <3>3. items = [k \in 1..ReadBufferDepth |-> <<>>]
        BY <3>1, Zenon
      <3> HIDE DEF items
      <3>4. \A k \in 1..ReadBufferDepth : items[k] = <<>>
        BY <3>3
      <3>5. items \in [1..ReadBufferDepth -> Seq(Item)]
        BY <3>2, <3>3
      <3> QED BY <3>2, <3>4, <3>5
    <2>6. Regs!Contents = Joint(items, ReadBufferDepth)
      <3>1. Regs!Contents = Regs!FlattenSeq(items) /\ Len(items) = ReadBufferDepth
        BY <2>3 DEF Regs!Contents
      <3> HIDE DEF items
      <3> QED BY <2>3, <3>1, FlattenRow
    <2> HIDE DEF items
    <2>7. Joint(items, ReadBufferDepth) \in Seq(Item) /\ Len(Joint(items, ReadBufferDepth)) <= 0 * ReadBufferDepth
      BY <2>3, <2>5, RowLength
    <2>8. Regs!Contents = <<>>
      BY <2>3, <2>6, <2>7, EmptySeq, LenProperties
    <2> QED BY <2>2, <2>8 DEF Regs!Init, Regs!Abstract!Init
  <1>2. ReadBufferInv /\ [Regs!Next]_(Regs!vars)
          => ReadBufferInv' /\ [Regs!Abstract!Next]_(Regs!Abstract!fifoVars)
    <2> SUFFICES ASSUME ReadBufferInv, [Regs!Next]_(Regs!vars)
                 PROVE  ReadBufferInv' /\ [Regs!Abstract!Next]_(Regs!Abstract!fifoVars)
      OBVIOUS
    <2>1. CASE UNCHANGED Regs!vars
      BY <2>1 DEF Regs!vars, ReadBufferInv, Regs!Contents, Regs!Abstract!fifoVars
    <2>2. ASSUME NEW head \in Item \cup {NoItem}, NEW rdreq \in BOOLEAN, Regs!Cycle(head, rdreq)
          PROVE  ReadBufferInv' /\ [Regs!Abstract!Next]_(Regs!Abstract!fifoVars)
      <3> DEFINE old == Regs!Contents
                 now == Regs!Contents'
      <3>1. /\ ReadBufferInv' /\ old \in Seq(Item)
            /\ now = After(old, rdreq, Regs!Pulls(head), head)
            /\ rdreq => old # <<>> /\ delivered' = Head(old)
            /\ Len(now) <= 2 * ReadBufferDepth
        BY <2>2, ReadBufferStep
      <3>2. /\ Regs!Pulls(head) \in BOOLEAN /\ (Regs!Pulls(head) => head \in Item)
            /\ delivered' = IF rdreq THEN Regs!rddata_out ELSE delivered
            /\ sent' = IF Regs!Pulls(head) THEN 1 - sent ELSE sent
            /\ received' = IF rdreq THEN 1 - received ELSE received
        BY <2>2 DEF Regs!Cycle, Regs!Pulls
      <3> HIDE DEF old, now
      <3>3. CASE rdreq /\ Regs!Pulls(head)
        <4>1. now = Append(Tail(old), head)
          BY <3>1, <3>3, AfterCases
        <4>2. Regs!Abstract!PutAndTake(head)
          BY <3>1, <3>2, <3>3, <4>1 DEF Regs!Abstract!PutAndTake, old, now
        <4> QED BY <3>1, <3>2, <3>3, <4>2 DEF Regs!Abstract!Next
      <3>4. CASE rdreq /\ ~Regs!Pulls(head)
        <4>1. now = Tail(old)
          <5>1. now = After(old, TRUE, FALSE, head)
            BY <3>1, <3>4 DEF After
          <5> QED BY <3>1, <3>4, <5>1, AfterCases
        <4>2. Regs!Abstract!Take
          BY <3>1, <3>2, <3>4, <4>1 DEF Regs!Abstract!Take, old, now
        <4> QED BY <3>1, <4>2 DEF Regs!Abstract!Next
      <3>5. CASE ~rdreq /\ Regs!Pulls(head)
        <4>1. now = Append(old, head)
          BY <3>1, <3>5, AfterCases
        <4>2. Regs!Abstract!Put(head)
          BY <3>1, <3>2, <3>5, <4>1 DEF Regs!Abstract!Put, old, now
        <4> QED BY <3>1, <3>2, <3>5, <4>2 DEF Regs!Abstract!Next
      <3>6. CASE ~rdreq /\ ~Regs!Pulls(head)
        <4>1. now = old
          <5>1. now = After(old, FALSE, FALSE, head)
            BY <3>1, <3>6 DEF After
          <5> QED BY <3>1, <3>6, <5>1, AfterCases
        <4> QED BY <3>1, <3>2, <3>6, <4>1 DEF Regs!Abstract!fifoVars, old, now
      <3> QED BY <3>2, <3>3, <3>4, <3>5, <3>6
    <2> QED BY <2>1, <2>2 DEF Regs!Next
  <1> QED BY <1>1, <1>2, PTL DEF Regs!Spec, Regs!ImplementsFifo, Regs!Abstract!Spec
-----------------------------------------------------------------------------
(* The registers of the skid buffer, as those of a register FIFO: closed   *)
(* to the sender is full, nothing offered to the receiver is empty.        *)
SkidRegisters ==
    [full |-> ~input_ready_ff, overflow |-> overflow_valid_ff,
     empty |-> ~output_valid_ff, internal_empty |-> ~internal_output_valid_ff,
     output_data |-> output_data_ff, overflow_data |-> overflow_data_ff]

SkidBufferInv ==
    /\ input_ready_ff \in BOOLEAN /\ internal_input_ready_ff = input_ready_ff
    /\ output_valid_ff \in BOOLEAN /\ internal_output_valid_ff = output_valid_ff
    /\ overflow_valid_ff \in BOOLEAN
    /\ Sound(SkidRegisters)

(* A clock edge of the skid buffer is one of a register FIFO. *)
LEMMA SkidBufferStep ==
    ASSUME NoItem \notin Item, SkidBufferInv,
           NEW data \in Item \cup {NoItem}, NEW output_ready \in BOOLEAN,
           Regs!Skid!Cycle(data, output_ready),
           NEW source, source = (data # NoItem /\ input_ready_ff),
           NEW sink, sink = (output_valid_ff /\ output_ready)
    PROVE  /\ SkidBufferInv'
           /\ Regs!Skid!Contents \in Seq(Item) /\ Len(Regs!Skid!Contents') <= 2
           /\ Regs!Skid!Contents' = After(Regs!Skid!Contents, sink, source, data)
           /\ sink => Regs!Skid!Contents # <<>> /\ output_data_ff = Head(Regs!Skid!Contents)
  <1> DEFINE s == SkidRegisters
             e == SkidRegisters'
  <1>1. /\ input_ready_ff \in BOOLEAN /\ internal_input_ready_ff = input_ready_ff
        /\ output_valid_ff \in BOOLEAN /\ internal_output_valid_ff = output_valid_ff
        /\ overflow_valid_ff \in BOOLEAN /\ source \in BOOLEAN /\ sink \in BOOLEAN
    BY DEF SkidBufferInv
  <1>2. /\ s.full = ~input_ready_ff /\ s.overflow = overflow_valid_ff
        /\ s.empty = ~output_valid_ff /\ s.internal_empty = ~internal_output_valid_ff
        /\ s.output_data = output_data_ff /\ s.overflow_data = overflow_data_ff
    BY DEF SkidRegisters
  <1>3. Sound(s)
    BY DEF SkidBufferInv
  <1> DEFINE direct == source /\ (output_ready \/ ~output_valid_ff)
             spill == source /\ ~direct
  <1>4. /\ input_ready_ff' = (~spill /\ (sink \/ input_ready_ff))
        /\ internal_input_ready_ff' = input_ready_ff'
        /\ output_valid_ff' = (source \/ (output_valid_ff /\ ~(sink /\ ~overflow_valid_ff)))
        /\ internal_output_valid_ff' = output_valid_ff'
        /\ overflow_valid_ff' = (spill \/ (overflow_valid_ff /\ ~sink))
        /\ output_data_ff' = IF direct THEN data
                             ELSE IF sink /\ overflow_valid_ff THEN overflow_data_ff
                             ELSE output_data_ff
        /\ overflow_data_ff' = IF source THEN data ELSE overflow_data_ff
    BY <1>1 DEF Regs!Skid!Cycle, Regs!Skid!Sink, Regs!Skid!Direct
  <1>5. direct = Regs!Direct(s, source, sink)
    BY <1>1, <1>2 DEF Regs!Direct
  <1>6. e = Regs!SkidNext(s, source, data, sink)
    <2>1. /\ (~input_ready_ff') = (spill \/ (s.full /\ ~sink))
          /\ overflow_valid_ff' = (spill \/ (s.overflow /\ ~sink))
          /\ (~output_valid_ff') = (~source /\ ((sink /\ ~s.overflow) \/ s.empty))
          /\ (~internal_output_valid_ff')
                = (~source /\ ((sink /\ ~s.overflow) \/ s.internal_empty))
          /\ output_data_ff' = IF direct THEN data
                               ELSE IF sink /\ s.overflow THEN s.overflow_data
                               ELSE s.output_data
          /\ overflow_data_ff' = IF source THEN data ELSE s.overflow_data
      BY <1>1, <1>2, <1>4
    <2>2. e = [full |-> ~input_ready_ff', overflow |-> overflow_valid_ff',
               empty |-> ~output_valid_ff', internal_empty |-> ~internal_output_valid_ff',
               output_data |-> output_data_ff', overflow_data |-> overflow_data_ff']
      BY DEF SkidRegisters
    <2> HIDE DEF s, e, direct
    <2> QED BY <1>5, <2>1, <2>2 DEF Regs!SkidNext
  <1>7. /\ source => ~s.full /\ data \in Item
        /\ sink => ~s.empty
    BY <1>1, <1>2
  <1>8. Regs!Skid!Contents = Regs!SkidItems(s) /\ Regs!Skid!Contents' = Regs!SkidItems(e)
    <2>1. /\ e.overflow = overflow_valid_ff' /\ e.empty = ~output_valid_ff'
          /\ e.output_data = output_data_ff' /\ e.overflow_data = overflow_data_ff'
      BY DEF SkidRegisters
    <2> QED BY <1>2, <2>1 DEF Regs!Skid!Contents, Regs!SkidItems
  <1> HIDE DEF s, e
  <1>9. Sound(e) /\ Regs!SkidItems(e) = After(Regs!SkidItems(s), sink, source, data)
    <2>1. ASSUME NEW u, Sound(u), source => ~u.full /\ data \in Item, sink => ~u.empty,
                 NEW v, v = Regs!SkidNext(u, source, data, sink)
          PROVE  Sound(v) /\ Regs!SkidItems(v) = After(Regs!SkidItems(u), sink, source, data)
      <3>1. /\ source \in BOOLEAN /\ sink \in BOOLEAN /\ data \in Item \cup {NoItem}
            /\ Sound(u) /\ (source => ~u.full /\ data \in Item) /\ (sink => ~u.empty)
            /\ v = Regs!SkidNext(u, source, data, sink)
        BY <1>1, <2>1
      <3> QED BY ONLY <3>1, SkidStep, SMT
    <2> QED BY <1>3, <1>6, <1>7, <2>1, Zenon
  <1>10. Holds(s, Regs!SkidItems(s)) /\ Holds(e, Regs!SkidItems(e))
    BY <1>3, <1>9, SoundItems
  <1>11. SkidBufferInv'
    BY <1>1, <1>4, <1>9 DEF SkidBufferInv, e
  <1> QED BY <1>2, <1>7, <1>8, <1>9, <1>10, <1>11 DEF Holds

(* The skid buffer is a FIFO of two entries: exactly the items offered     *)
(* while ready was high come out, in order, although the sender learns one *)
(* cycle late that the receiver has stopped.                               *)
THEOREM SkidBufferImplementsFifo == Regs!Skid!Spec => Regs!Skid!ImplementsFifo
  <1> NoItem \notin Item
    BY RegistersAssumption DEF Regs!ReadBufferAssumption
  <1>1. Regs!Skid!Init => SkidBufferInv /\ Regs!Skid!Abstract!Init
    BY DEF Regs!Skid!Init, SkidBufferInv, SkidRegisters, Sound, Regs!SkidStates,
        Regs!Skid!Abstract!Init,
           Regs!Skid!Contents
  <1>2. SkidBufferInv /\ [Regs!Skid!Next]_(Regs!Skid!vars)
          => SkidBufferInv' /\ [Regs!Skid!Abstract!Next]_(Regs!Skid!Abstract!fifoVars)
    <2> SUFFICES ASSUME SkidBufferInv, [Regs!Skid!Next]_(Regs!Skid!vars)
                 PROVE  SkidBufferInv' /\ [Regs!Skid!Abstract!Next]_(Regs!Skid!Abstract!fifoVars)
      OBVIOUS
    <2>1. CASE UNCHANGED Regs!Skid!vars
      BY <2>1 DEF Regs!Skid!vars, SkidBufferInv, SkidRegisters, Regs!Skid!Contents,
                  Regs!Skid!Abstract!fifoVars
    <2>2. ASSUME NEW data \in Item \cup {NoItem}, NEW output_ready \in BOOLEAN,
                 Regs!Skid!Cycle(data, output_ready)
          PROVE  SkidBufferInv' /\ [Regs!Skid!Abstract!Next]_(Regs!Skid!Abstract!fifoVars)
      <3> DEFINE old == Regs!Skid!Contents
                 now == Regs!Skid!Contents'
                 put == data # NoItem /\ input_ready_ff
                 take == output_valid_ff /\ output_ready
      <3>1. /\ SkidBufferInv' /\ old \in Seq(Item) /\ Len(now) <= 2
            /\ now = After(old, take, put, data)
            /\ take => old # <<>> /\ output_data_ff = Head(old)
        <4> HIDE DEF put, take
        <4>1. put = (data # NoItem /\ input_ready_ff)
          BY DEF put
        <4>2. take = (output_valid_ff /\ output_ready)
          BY DEF take
        <4> QED BY <2>2, <4>1, <4>2, SkidBufferStep
      <3>2. /\ take \in BOOLEAN /\ put \in BOOLEAN /\ (put => data \in Item)
            /\ skid_delivered' = IF take THEN output_data_ff ELSE skid_delivered
            /\ skid_sent' = IF put THEN 1 - skid_sent ELSE skid_sent
            /\ skid_received' = IF take THEN 1 - skid_received ELSE skid_received
        BY <2>2 DEF Regs!Skid!Cycle
      <3> HIDE DEF old, now, put, take
      <3>3. CASE take /\ put
        <4>1. now = Append(Tail(old), data)
          BY <3>1, <3>3, AfterCases
        <4>2. Regs!Skid!Abstract!PutAndTake(data)
          BY <3>1, <3>2, <3>3, <4>1 DEF Regs!Skid!Abstract!PutAndTake, old, now
        <4> QED BY <3>1, <3>2, <3>3, <4>2 DEF Regs!Skid!Abstract!Next
      <3>4. CASE take /\ ~put
        <4>1. now = Tail(old)
          <5>1. now = After(old, TRUE, FALSE, data)
            BY <3>1, <3>4 DEF After
          <5> QED BY <3>1, <3>4, <5>1, AfterCases
        <4>2. Regs!Skid!Abstract!Take
          BY <3>1, <3>2, <3>4, <4>1 DEF Regs!Skid!Abstract!Take, old, now
        <4> QED BY <3>1, <4>2 DEF Regs!Skid!Abstract!Next
      <3>5. CASE ~take /\ put
        <4>1. now = Append(old, data)
          <5>1. now = After(old, FALSE, TRUE, data)
            BY <3>1, <3>5 DEF After
          <5> QED BY <3>1, <5>1, AfterCases
        <4>2. Regs!Skid!Abstract!Put(data)
          BY <3>1, <3>2, <3>5, <4>1 DEF Regs!Skid!Abstract!Put, old, now
        <4> QED BY <3>1, <3>2, <3>5, <4>2 DEF Regs!Skid!Abstract!Next
      <3>6. CASE ~take /\ ~put
        <4>1. now = old
          <5>1. now = After(old, FALSE, FALSE, data)
            BY <3>1, <3>6 DEF After
          <5> QED BY <3>1, <3>6, <5>1, AfterCases
        <4> QED BY <3>1, <3>2, <3>6, <4>1 DEF Regs!Skid!Abstract!fifoVars, old, now
      <3> QED BY <3>2, <3>3, <3>4, <3>5, <3>6
    <2> QED BY <2>1, <2>2 DEF Regs!Skid!Next
  <1> QED BY <1>1, <1>2, PTL DEF Regs!Skid!Spec, Regs!Skid!ImplementsFifo, Regs!Skid!Abstract!Spec
-----------------------------------------------------------------------------
(* The turns of the two halves agree with which of them hold an item: when *)
(* the same half is written and read next both are empty or both full,     *)
(* otherwise just the one that is read next is full.                       *)
DualInv ==
    /\ in_which \in BOOLEAN /\ out_which \in BOOLEAN
    /\ wrptr \in [BOOLEAN -> BOOLEAN] /\ rdptr \in [BOOLEAN -> BOOLEAN]
    /\ dual_q \in [BOOLEAN -> Item \cup {NoItem}]
    /\ \A h \in BOOLEAN : ~Regs!Dual!half_empty(h) => dual_q[h] \in Item
    /\ IF in_which = out_which
       THEN Regs!Dual!half_empty(in_which) = Regs!Dual!half_empty(~in_which)
       ELSE Regs!Dual!half_empty(in_which) /\ ~Regs!Dual!half_empty(out_which)

(* A clock edge of the pair of one-entry FIFOs. *)
LEMMA DualStep ==
    ASSUME NoItem \notin Item, DualInv,
           NEW data \in Item \cup {NoItem}, NEW rdreq \in BOOLEAN,
           Regs!Dual!Cycle(data, rdreq),
           NEW wrreq, wrreq = (data # NoItem)
    PROVE  /\ DualInv'
           /\ Regs!Dual!Contents \in Seq(Item) /\ Len(Regs!Dual!Contents') <= 2
           /\ Regs!Dual!Contents' = After(Regs!Dual!Contents, rdreq, wrreq, data)
           /\ rdreq => Regs!Dual!Contents # <<>> /\ dual_q[out_which] = Head(Regs!Dual!Contents)
  <1> DEFINE i == in_which
             o == out_which
             E(h) == rdptr[h] = wrptr[h]
             F(h) == rdptr'[h] = wrptr'[h]
             items(a, b, x, y) == (IF a THEN <<>> ELSE <<x>>) \o (IF b THEN <<>> ELSE <<y>>)
  <1>1. /\ i \in BOOLEAN /\ o \in BOOLEAN
        /\ \A h \in BOOLEAN : E(h) \in BOOLEAN /\ (~E(h) => dual_q[h] \in Item)
        /\ IF i = o THEN E(i) = E(~i) ELSE E(i) /\ ~E(o)
    BY DEF DualInv, Regs!Dual!half_empty
  <1>2. /\ wrreq \in BOOLEAN /\ (wrreq => data \in Item)
        /\ wrreq => E(i)
        /\ rdreq => ~E(o)
        /\ in_which' = IF wrreq THEN ~i ELSE i
        /\ out_which' = IF rdreq THEN ~o ELSE o
        /\ wrptr' = IF wrreq THEN [wrptr EXCEPT ![i] = ~wrptr[i]] ELSE wrptr
        /\ rdptr' = IF rdreq THEN [rdptr EXCEPT ![o] = ~rdptr[o]] ELSE rdptr
        /\ dual_q' = IF wrreq THEN [dual_q EXCEPT ![i] = data] ELSE dual_q
    BY DEF Regs!Dual!Cycle, Regs!Dual!full, Regs!Dual!empty, Regs!Dual!half_empty,
        Regs!Dual!Turn, Regs!Dual!Toggle
  <1>3. /\ wrptr' \in [BOOLEAN -> BOOLEAN] /\ rdptr' \in [BOOLEAN -> BOOLEAN]
        /\ dual_q' \in [BOOLEAN -> Item \cup {NoItem}]
    BY <1>1, <1>2 DEF DualInv
  <1>4. \A h \in BOOLEAN :
           /\ F(h) = IF wrreq /\ h = i THEN FALSE ELSE IF rdreq /\ h = o THEN TRUE ELSE E(h)
           /\ dual_q'[h] = IF wrreq /\ h = i THEN data ELSE dual_q[h]
    BY <1>1, <1>2 DEF DualInv, Regs!Dual!half_empty
  <1>5. DualInv'
    <2> DEFINE j == in_which'
               p == out_which'
    <2>1. j \in BOOLEAN /\ p \in BOOLEAN
      BY <1>1, <1>2
    <2>2. \A h \in BOOLEAN : ~F(h) => dual_q'[h] \in Item
      <3> HIDE DEF E, F
      <3> SUFFICES ASSUME NEW h \in BOOLEAN, ~F(h) PROVE dual_q'[h] \in Item
        OBVIOUS
      <3>1. CASE wrreq /\ h = i
        BY <1>2, <1>4, <3>1
      <3>2. CASE ~(wrreq /\ h = i)
        <4>1. ~E(h) /\ dual_q'[h] = dual_q[h]
          BY <1>1, <1>2, <1>4, <3>2
        <4> QED BY <1>1, <4>1
      <3> QED BY <3>1, <3>2
    <2>3. IF j = p THEN F(j) = F(~j) ELSE F(j) /\ ~F(p)
      <3>1. /\ TRUE \in BOOLEAN /\ FALSE \in BOOLEAN /\ (~TRUE) = FALSE /\ (~FALSE) = TRUE
        OBVIOUS
      <3> HIDE DEF E, F
      <3>2. CASE i = TRUE /\ o = TRUE
        BY <1>1, <1>2, <1>4, <3>1, <3>2
      <3>3. CASE i = TRUE /\ o = FALSE
        BY <1>1, <1>2, <1>4, <3>1, <3>3
      <3>4. CASE i = FALSE /\ o = TRUE
        BY <1>1, <1>2, <1>4, <3>1, <3>4
      <3>5. CASE i = FALSE /\ o = FALSE
        BY <1>1, <1>2, <1>4, <3>1, <3>5
      <3> QED BY <1>1, <3>2, <3>3, <3>4, <3>5
    <2> QED BY <1>3, <2>1, <2>2, <2>3 DEF DualInv, Regs!Dual!half_empty
  <1> DEFINE x == dual_q[o]
             y == dual_q[~o]
  <1>6. /\ Regs!Dual!Contents = items(E(o), E(~o), x, y)
        /\ Regs!Dual!Contents' = items(F(out_which'), F(~out_which'), dual_q'[out_which'],
                                  dual_q'[~out_which'])
    BY DEF Regs!Dual!Contents, Regs!Dual!half_empty
  <1>7. /\ (~o) \in BOOLEAN /\ (E(o) => E(~o))
        /\ ~E(o) => x \in Item
        /\ ~E(~o) => y \in Item
        /\ wrreq => i = IF E(o) THEN o ELSE ~o
    <2> HIDE DEF E, F
    <2>1. (~o) \in BOOLEAN
      BY <1>1
    <2>2. (~E(o) => x \in Item) /\ (~E(~o) => y \in Item)
      BY <1>1, <2>1, Zenon
    <2>3. CASE o = TRUE
      BY <1>1, <1>2, <2>1, <2>2, <2>3
    <2>4. CASE o = FALSE
      BY <1>1, <1>2, <2>1, <2>2, <2>4
    <2> QED BY <1>1, <2>3, <2>4
  <1> HIDE DEF E, F
  <1>8. ASSUME NEW u, NEW v
        PROVE  /\ items(TRUE, TRUE, u, v) = <<>> /\ items(FALSE, TRUE, u, v) = <<u>>
               /\ items(FALSE, FALSE, u, v) = <<u, v>>
    BY Short
  <1>9. Regs!Dual!Contents = IF E(o) THEN <<>> ELSE IF E(~o) THEN <<x>> ELSE <<x, y>>
    BY <1>1, <1>6, <1>7, <1>8
  <1> DEFINE a == F(o)
             b == F(~o)
             u == dual_q'[o]
             v == dual_q'[~o]
  <1>10. Regs!Dual!Contents' = IF rdreq THEN items(b, a, v, u) ELSE items(a, b, u, v)
    <2>1. CASE rdreq
      <3>1. out_which' = ~o /\ (~out_which') = o
        BY <1>1, <1>2, <2>1
      <3> QED BY <1>6, <2>1, <3>1
    <2>2. CASE ~rdreq
      <3>1. out_which' = o
        BY <1>2, <2>2
      <3> QED BY <1>6, <2>2, <3>1
    <2> QED BY <2>1, <2>2
  <1>11. /\ a = (IF wrreq /\ i = o THEN FALSE ELSE IF rdreq THEN TRUE ELSE E(o))
         /\ u = (IF wrreq /\ i = o THEN data ELSE x)
    BY <1>1, <1>4
  <1>12. /\ b = (IF wrreq /\ i = ~o THEN FALSE ELSE E(~o))
         /\ v = (IF wrreq /\ i = ~o THEN data ELSE y)
    BY <1>1, <1>4, <1>7
  <1>13. /\ E(o) \in BOOLEAN /\ E(~o) \in BOOLEAN /\ a \in BOOLEAN /\ b \in BOOLEAN
         /\ (i = o) \in BOOLEAN /\ (i = ~o) \in BOOLEAN /\ ((i = o) # (i = ~o))
    BY <1>1, <1>7, <1>11, <1>12
  <1> HIDE DEF a, b, u, v, x, y
  <1>14. /\ Regs!Dual!Contents' = After(Regs!Dual!Contents, rdreq, wrreq, data)
         /\ Regs!Dual!Contents' \in {<<>>, <<data>>, <<x>>, <<y>>, <<x, data>>, <<x, y>>}
    <2>1. CASE E(o)
      <3>1. ~rdreq /\ E(~o)
        BY <1>2, <1>7, <2>1
      <3>2. CASE wrreq
        <4>1. a = FALSE /\ b = TRUE /\ u = data
          BY <1>7, <1>11, <1>12, <1>13, <2>1, <3>1, <3>2
        <4>2. Regs!Dual!Contents' = <<data>> /\ Regs!Dual!Contents = <<>>
          BY <1>8, <1>9, <1>10, <2>1, <3>1, <4>1
        <4> QED BY <3>1, <3>2, <4>2, Short, Zenon DEF After
      <3>3. CASE ~wrreq
        <4>1. a = TRUE /\ b = TRUE
          BY <1>11, <1>12, <1>13, <2>1, <3>1, <3>3
        <4>2. Regs!Dual!Contents' = <<>> /\ Regs!Dual!Contents = <<>>
          BY <1>8, <1>9, <1>10, <2>1, <3>1, <4>1
        <4> QED BY <3>1, <3>3, <4>2, Short, Zenon DEF After
      <3> QED BY <3>2, <3>3
    <2>2. CASE ~E(o) /\ E(~o)
      <3>1. CASE rdreq /\ wrreq
        <4>1. a = TRUE /\ b = FALSE /\ v = data
          BY <1>7, <1>11, <1>12, <1>13, <2>2, <3>1
        <4>2. Regs!Dual!Contents' = <<data>> /\ Regs!Dual!Contents = <<x>>
          BY <1>8, <1>9, <1>10, <2>2, <3>1, <4>1
        <4> QED BY <3>1, <4>2, Short, Zenon DEF After
      <3>2. CASE rdreq /\ ~wrreq
        <4>1. a = TRUE /\ b = TRUE
          BY <1>11, <1>12, <1>13, <2>2, <3>2
        <4>2. Regs!Dual!Contents' = <<>> /\ Regs!Dual!Contents = <<x>>
          BY <1>8, <1>9, <1>10, <2>2, <3>2, <4>1
        <4> QED BY <3>2, <4>2, Short, Zenon DEF After
      <3>3. CASE ~rdreq /\ wrreq
        <4>1. a = FALSE /\ b = FALSE /\ u = x /\ v = data
          BY <1>7, <1>11, <1>12, <1>13, <2>2, <3>3
        <4>2. Regs!Dual!Contents' = <<x, data>> /\ Regs!Dual!Contents = <<x>>
          BY <1>8, <1>9, <1>10, <2>2, <3>3, <4>1
        <4> QED BY <3>3, <4>2, Short, Zenon DEF After
      <3>4. CASE ~rdreq /\ ~wrreq
        <4>1. a = FALSE /\ b = TRUE /\ u = x
          BY <1>11, <1>12, <1>13, <2>2, <3>4
        <4>2. Regs!Dual!Contents' = <<x>> /\ Regs!Dual!Contents = <<x>>
          BY <1>8, <1>9, <1>10, <2>2, <3>4, <4>1
        <4> QED BY <3>4, <4>2, Short, Zenon DEF After
      <3> QED BY <1>2, <3>1, <3>2, <3>3, <3>4
    <2>3. CASE ~E(o) /\ ~E(~o)
      <3>1. ~wrreq
        BY <1>2, <1>7, <2>3
      <3>2. CASE rdreq
        <4>1. a = TRUE /\ b = FALSE /\ v = y
          BY <1>11, <1>12, <1>13, <2>3, <3>1, <3>2
        <4>2. Regs!Dual!Contents' = <<y>> /\ Regs!Dual!Contents = <<x, y>>
          BY <1>8, <1>9, <1>10, <2>3, <3>2, <4>1
        <4> QED BY <3>1, <3>2, <4>2, Short, Zenon DEF After
      <3>3. CASE ~rdreq
        <4>1. a = FALSE /\ b = FALSE /\ u = x /\ v = y
          BY <1>11, <1>12, <1>13, <2>3, <3>1, <3>3
        <4>2. Regs!Dual!Contents' = <<x, y>> /\ Regs!Dual!Contents = <<x, y>>
          BY <1>8, <1>9, <1>10, <2>3, <3>3, <4>1
        <4> QED BY <3>1, <3>3, <4>2, Short, Zenon DEF After
      <3> QED BY <3>2, <3>3
    <2> QED BY <2>1, <2>2, <2>3
  <1>15. Len(Regs!Dual!Contents') <= 2
    <2> DEFINE now == Regs!Dual!Contents'
    <2>1. now \in {<<>>, <<data>>, <<x>>, <<y>>, <<x, data>>, <<x, y>>}
      BY <1>14
    <2> SUFFICES Len(now) <= 2
      OBVIOUS
    <2> HIDE DEF now
    <2>2. CASE now = <<>>
      BY <2>2
    <2>3. ASSUME NEW z, now = <<z>> PROVE Len(now) <= 2
      BY <2>3
    <2>4. CASE now = <<x, data>>
      BY <2>4
    <2>5. CASE now = <<x, y>>
      BY <2>5
    <2> QED BY <2>1, <2>2, <2>3, <2>4, <2>5
  <1>16. Regs!Dual!Contents \in Seq(Item)
    BY <1>7, <1>9
  <1>17. rdreq => Regs!Dual!Contents # <<>> /\ Head(Regs!Dual!Contents) = x
    BY <1>2, <1>9
  <1> QED BY <1>5, <1>14, <1>15, <1>16, <1>17 DEF x

(* The two one-entry FIFOs, written and read in turn, are one FIFO of two  *)
(* entries: a half is never written while it holds an item or read while it*)
(* is empty, and the items come out in the order in which they went in.    *)
THEOREM DualImplementsFifo == Regs!Dual!Spec => Regs!Dual!ImplementsFifo
  <1> NoItem \notin Item
    BY RegistersAssumption DEF Regs!ReadBufferAssumption
  <1>1. Regs!Dual!Init => DualInv /\ Regs!Dual!Abstract!Init
    BY Short DEF Regs!Dual!Init, DualInv, Regs!Dual!Halves, Regs!Dual!half_empty,
        Regs!Dual!Contents,
                 Regs!Dual!Abstract!Init
  <1>2. DualInv /\ [Regs!Dual!Next]_(Regs!Dual!vars)
          => DualInv' /\ [Regs!Dual!Abstract!Next]_(Regs!Dual!Abstract!fifoVars)
    <2> SUFFICES ASSUME DualInv, [Regs!Dual!Next]_(Regs!Dual!vars)
                 PROVE  DualInv' /\ [Regs!Dual!Abstract!Next]_(Regs!Dual!Abstract!fifoVars)
      OBVIOUS
    <2>1. CASE UNCHANGED Regs!Dual!vars
      BY <2>1 DEF Regs!Dual!vars, DualInv, Regs!Dual!half_empty, Regs!Dual!Contents,
                  Regs!Dual!Abstract!fifoVars
    <2>2. ASSUME NEW data \in Item \cup {NoItem}, NEW rdreq \in BOOLEAN,
                 Regs!Dual!Cycle(data, rdreq)
          PROVE  DualInv' /\ [Regs!Dual!Abstract!Next]_(Regs!Dual!Abstract!fifoVars)
      <3> DEFINE old == Regs!Dual!Contents
                 now == Regs!Dual!Contents'
                 put == data # NoItem
                 take == rdreq
      <3>1. /\ DualInv' /\ old \in Seq(Item) /\ Len(now) <= 2
            /\ now = After(old, take, put, data)
            /\ take => old # <<>> /\ dual_q[out_which] = Head(old)
        <4> HIDE DEF put
        <4>1. put = (data # NoItem)
          BY DEF put
        <4> QED BY <2>2, <4>1, DualStep
      <3>2. /\ take \in BOOLEAN /\ put \in BOOLEAN /\ (put => data \in Item)
            /\ dual_delivered' = IF take THEN dual_q[out_which] ELSE dual_delivered
            /\ dual_sent' = IF put THEN 1 - dual_sent ELSE dual_sent
            /\ dual_received' = IF take THEN 1 - dual_received ELSE dual_received
        BY <2>2 DEF Regs!Dual!Cycle
      <3> HIDE DEF old, now, put, take
      <3>3. CASE take /\ put
        <4>1. now = Append(Tail(old), data)
          BY <3>1, <3>3, AfterCases
        <4>2. Regs!Dual!Abstract!PutAndTake(data)
          BY <3>1, <3>2, <3>3, <4>1 DEF Regs!Dual!Abstract!PutAndTake, old, now
        <4> QED BY <3>1, <3>2, <3>3, <4>2 DEF Regs!Dual!Abstract!Next
      <3>4. CASE take /\ ~put
        <4>1. now = Tail(old)
          <5>1. now = After(old, TRUE, FALSE, data)
            BY <3>1, <3>4 DEF After
          <5> QED BY <3>1, <3>4, <5>1, AfterCases
        <4>2. Regs!Dual!Abstract!Take
          BY <3>1, <3>2, <3>4, <4>1 DEF Regs!Dual!Abstract!Take, old, now
        <4> QED BY <3>1, <4>2 DEF Regs!Dual!Abstract!Next
      <3>5. CASE ~take /\ put
        <4>1. now = Append(old, data)
          <5>1. now = After(old, FALSE, TRUE, data)
            BY <3>1, <3>5 DEF After
          <5> QED BY <3>1, <5>1, AfterCases
        <4>2. Regs!Dual!Abstract!Put(data)
          BY <3>1, <3>2, <3>5, <4>1 DEF Regs!Dual!Abstract!Put, old, now
        <4> QED BY <3>1, <3>2, <3>5, <4>2 DEF Regs!Dual!Abstract!Next
      <3>6. CASE ~take /\ ~put
        <4>1. now = old
          <5>1. now = After(old, FALSE, FALSE, data)
            BY <3>1, <3>6 DEF After
          <5> QED BY <3>1, <3>6, <5>1, AfterCases
        <4> QED BY <3>1, <3>2, <3>6, <4>1 DEF Regs!Dual!Abstract!fifoVars, old, now
      <3> QED BY <3>2, <3>3, <3>4, <3>5, <3>6
    <2> QED BY <2>1, <2>2 DEF Regs!Dual!Next
  <1> QED BY <1>1, <1>2, PTL DEF Regs!Dual!Spec, Regs!Dual!ImplementsFifo, Regs!Dual!Abstract!Spec
-----------------------------------------------------------------------------
(* Each of the FIFOs made of registers passes on exactly the items it      *)
(* accepted, in order, for every length of a read buffer and every set of  *)
(* items.                                                                  *)
THEOREM AllImplementFifoHolds ==
    Regs!RegistersInit /\ [][Regs!RegistersNext]_(Regs!registerVars) => AllImplementFifo
  <1>1. Regs!RegistersInit => Regs!Init /\ Regs!Dual!Init /\ Regs!Skid!Init
    BY DEF Regs!RegistersInit
  <1>2. [Regs!RegistersNext]_(Regs!registerVars)
          => /\ [Regs!Next]_(Regs!vars)
             /\ [Regs!Dual!Next]_(Regs!Dual!vars) /\ [Regs!Skid!Next]_(Regs!Skid!vars)
    BY DEF Regs!RegistersNext, Regs!registerVars, Regs!vars, Regs!dualVars, Regs!skidVars,
           Regs!Dual!vars, Regs!Skid!vars
  <1>3. Regs!Spec => Regs!ImplementsFifo
    BY ReadBufferImplementsFifo
  <1>4. /\ Regs!Dual!Spec => Regs!Dual!ImplementsFifo
        /\ Regs!Skid!Spec => Regs!Skid!ImplementsFifo
    BY DualImplementsFifo, SkidBufferImplementsFifo
  <1> QED BY <1>1, <1>2, <1>3, <1>4, PTL
          DEF Regs!Spec, Regs!Dual!Spec, Regs!Skid!Spec, AllImplementFifo,
              Regs!AllImplementFifo
=============================================================================
