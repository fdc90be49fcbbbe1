-------------------------- MODULE SemaphoreProofs --------------------------
(***************************************************************************)
(* KanagawaSemaphore keeps its limit for every MAX_VALUE and SEM_DELAY.    *)
(* The inductive invariant is IInv of Semaphore: "Promise" says what a low *)
(* almost_full is worth at each stage of its way to the writer,            *)
(* "LeaveAfterEnter" that no suffix of the decrement chain outruns the     *)
(* same suffix of the increment chain.                                     *)
(***************************************************************************)
EXTENDS Semaphore, RuntimeLemmas

(* The write delay the counter is built with leaves it a threshold. *)
LEMMA DelayFits ==
    /\ ADJUSTED_DELAY \in Nat
    /\ DECR_DELAY \in Nat \ {0}
    /\ MAX_VALUE - ALMOST_FULL_MARGIN >= 1
    /\ ALMOST_FULL_THRESHOLD \in Nat \ {0}
  BY SemaphoreAssumption DEF ADJUSTED_DELAY, DECR_DELAY, ALMOST_FULL_MARGIN,
     ALMOST_FULL_THRESHOLD

(* The counter is wide enough for the limit. *)
LEMMA WidthFits == USEDW_MODULUS \in Nat /\ MAX_VALUE < USEDW_MODULUS
  BY SemaphoreAssumption, Zenon DEF USEDW_MODULUS

(* The constants are numbers. *)
LEMMA MaxValueType == MAX_VALUE \in Nat \ {0}
  BY SemaphoreAssumption

(* After reset the counter and the chains are empty. *)
LEMMA InitInv == Init => IInv
  <1> SUFFICES ASSUME Init PROVE IInv
    OBVIOUS
  <1> USE DelayFits, WidthFits, MaxValueType
  <1>1. TypeOK
    <2>1. usedw_ff \in 0..(USEDW_MODULUS - 1)
      BY DEF Init, FifoPtrsInit
    <2> QED
      BY <2>1 DEF Init, FifoPtrsInit, TypeOK, FifoPtrsTypeOK, Chains
  <1>2. \A k \in Nat : /\ Pulses(delay_wrreq, ADJUSTED_DELAY, k) = 0
                       /\ Pulses(delay_decr, DECR_DELAY, k) = 0
    BY PulsesInit DEF Init, FifoPtrsInit
  <1>3. usedw_ff = 0 /\ inside = 0 /\ ~empty
    BY DEF Init, FifoPtrsInit
  <1>4. CountExact /\ Admitted = 0
    BY <1>2, <1>3 DEF CountExact, Admitted
  <1>5. Promise
    BY <1>4 DEF Promise, ALMOST_FULL_MARGIN
  <1>6. LeaveAfterEnter
    BY <1>2, <1>3 DEF LeaveAfterEnter
  <1> QED
    BY <1>1, <1>3, <1>4, <1>5, <1>6 DEF IInv

(* A decrement that reaches the counter finds a thread there. *)
LEMMA Counted == IInv => (decr_count_delayed => usedw_ff > 0)
  <1> SUFFICES ASSUME IInv, decr_count_delayed PROVE usedw_ff > 0
    OBVIOUS
  <1> USE DelayFits DEF DECR_DELAY
  <1>1. /\ delay_decr \in Chains(DECR_DELAY, BOOLEAN)
        /\ usedw_ff \in Int
    BY WidthFits DEF IInv, TypeOK, FifoPtrsTypeOK
  <1>2. Pulses(delay_decr, DECR_DELAY, ADJUSTED_DELAY)
          = Pulses(delay_decr, DECR_DELAY, ADJUSTED_DELAY + 1)
            + Bit(delay_decr[ADJUSTED_DELAY + 1])
    BY <1>1, PulsesSplit
  <1>3. Pulses(delay_decr, DECR_DELAY, ADJUSTED_DELAY) = 1
    BY <1>2, PulsesNone DEF Bit, decr_count_delayed
  <1>4. Pulses(delay_wrreq, ADJUSTED_DELAY, ADJUSTED_DELAY) = 0
    BY PulsesNone
  <1> QED
    BY <1>1, <1>3, <1>4 DEF IInv, LeaveAfterEnter

(* The invariant holds again after every clock edge. *)
LEMMA CycleInv ==
    ASSUME IInv, NEW incr \in BOOLEAN, NEW decr \in BOOLEAN, Cycle(incr, decr)
    PROVE  IInv'
  <1> DEFINE D  == ADJUSTED_DELAY
             wr == wrreq_delayed(incr)
             rd == decr_count_delayed
             entering == Pulses(delay_wrreq, D, 0)
             leaving  == Pulses(delay_decr, DECR_DELAY, 0)
  <1> USE DelayFits, WidthFits, MaxValueType
  <1>1. /\ delay_wrreq \in Chains(D, BOOLEAN)
        /\ delay_almost_full \in Chains(D, BOOLEAN)
        /\ delay_decr \in Chains(DECR_DELAY, BOOLEAN)
        /\ almost_full_raw \in BOOLEAN
        /\ usedw_ff \in Nat
        /\ inside \in Nat
    BY DEF IInv, TypeOK, FifoPtrsTypeOK
  <1>2. /\ delay_wrreq' = ChainShift(delay_wrreq, D, incr)
        /\ delay_almost_full' = ChainShift(delay_almost_full, D, almost_full_raw)
        /\ delay_decr' = ChainShift(delay_decr, DECR_DELAY, decr)
        /\ usedw_ff' = usedw_next(wr, rd)
        /\ almost_full_raw' = (usedw_ff' >= ALMOST_FULL_THRESHOLD)
        /\ empty' = (usedw_ff' = 0)
        /\ inside' = inside + Bit(incr) - Bit(decr)
        /\ incr => ~full_out
        /\ decr => inside + Bit(incr) > 0
    BY DEF Cycle, CanRelease, FifoPtrsCycle, almost_full_next
  <1>3. /\ delay_wrreq' \in Chains(D, BOOLEAN)
        /\ delay_almost_full' \in Chains(D, BOOLEAN)
        /\ delay_decr' \in Chains(DECR_DELAY, BOOLEAN)
        /\ wr \in BOOLEAN
        /\ rd \in BOOLEAN
    <2>1. rd = ChainOut(delay_decr, DECR_DELAY, decr)
      BY DEF decr_count_delayed, ChainOut
    <2> QED
      BY <1>1, <1>2, <2>1, ChainShiftType DEF wrreq_delayed
  <1>4. /\ entering' = entering + Bit(incr) - Bit(wr)
        /\ entering \in Nat
        /\ entering' \in Nat
        /\ entering' <= D
    BY <1>1, <1>2, PulsesEdge, PulsesType DEF wrreq_delayed
  <1>5. /\ leaving' = leaving + Bit(decr) - Bit(rd)
        /\ leaving \in Nat
        /\ leaving' \in Nat
    <2>1. rd = ChainOut(delay_decr, DECR_DELAY, decr)
      BY DEF decr_count_delayed, ChainOut
    <2> QED
      BY <1>1, <1>2, <2>1, PulsesEdge, PulsesType
  <1>6. incr => Admitted <= MAX_VALUE - 1
    <2>1. full_out = FullAt(D)
      BY DEF full_out, almost_full, ChainOut, FullAt
    <2> QED
      BY <1>2, <2>1 DEF IInv, Promise
  <1>7. usedw_ff + Bit(wr) <= MAX_VALUE
    BY <1>1, <1>3, <1>4, <1>6 DEF IInv, Admitted, Bit
  <1>8. usedw_ff' = usedw_ff + Bit(wr) - Bit(rd)
    <2>1. usedw_ff + Bit(wr) - Bit(rd) \in 0..(USEDW_MODULUS - 1)
      BY <1>1, <1>3, <1>7, Counted DEF Bit
    <2>2. \A n \in 0..(USEDW_MODULUS - 1) : n % USEDW_MODULUS = n
      OBVIOUS
    <2> QED
      BY <1>2, <2>1, <2>2 DEF usedw_next
  <1>9. usedw_ff' \in 0..MAX_VALUE
    BY <1>1, <1>3, <1>7, <1>8, Counted DEF Bit
  <1>10. /\ Admitted' = Admitted + Bit(incr) - Bit(rd)
         /\ Admitted' <= MAX_VALUE
    <2>1. Admitted' = usedw_ff' + entering'
      BY DEF Admitted
    <2>2. Admitted = usedw_ff + entering
      BY DEF Admitted
    <2> QED
      BY <1>1, <1>3, <1>4, <1>6, <1>8, <2>1, <2>2 DEF IInv, Bit
  <1>11. TypeOK'
    <2>1. inside' \in Nat
      BY <1>1, <1>2 DEF Bit
    <2>2. usedw_ff' \in 0..(USEDW_MODULUS - 1)
      BY <1>9
    <2>3. almost_full_raw' \in BOOLEAN /\ empty' \in BOOLEAN
      BY <1>2
    <2> QED
      BY <1>3, <2>1, <2>2, <2>3 DEF TypeOK, FifoPtrsTypeOK
  <1>12. CountExact'
    <2>1. inside = usedw_ff + entering - leaving
      BY DEF IInv, CountExact
    <2>2. inside' = usedw_ff' + entering' - leaving'
      BY <1>1, <1>2, <1>3, <1>4, <1>5, <1>8, <2>1 DEF Bit
    <2> QED
      BY <2>2 DEF CountExact
  <1>13. Promise'
    <2> SUFFICES ASSUME NEW j \in 0..D, ~FullAt(j)'
                 PROVE  Admitted' <= MAX_VALUE - 1 - (D - j)
      BY DEF Promise
    <2>1. CASE j = 0
      <3>a. ~almost_full_raw'
        BY <2>1 DEF FullAt
      <3>b. ~(usedw_ff' >= ALMOST_FULL_THRESHOLD)
        BY <1>2, <3>a, Zenon
      <3>1. usedw_ff' < ALMOST_FULL_THRESHOLD
        BY <1>9, <3>b
      <3>2. Admitted' = usedw_ff' + entering'
        BY DEF Admitted
      <3> QED
        BY <1>4, <1>9, <2>1, <3>1, <3>2 DEF ALMOST_FULL_THRESHOLD, ALMOST_FULL_MARGIN
    <2>2. CASE j # 0
      <3>1. j - 1 \in 0..D /\ ~FullAt(j - 1)
        BY <1>2, <2>2 DEF FullAt, ChainShift
      <3>2. Admitted <= MAX_VALUE - 1 - (D - (j - 1))
        BY <3>1 DEF IInv, Promise
      <3>3. Admitted \in Int
        BY <1>1, <1>4 DEF Admitted
      <3> QED
        BY <1>3, <1>10, <3>2, <3>3 DEF Bit
    <2> QED BY <2>1, <2>2
  <1>14. LeaveAfterEnter'
    <2> SUFFICES ASSUME NEW k \in 0..D
                 PROVE  Pulses(delay_decr', DECR_DELAY, k)
                          <= usedw_ff' + Pulses(delay_wrreq', D, k)
      BY DEF LeaveAfterEnter
    <2>1. CASE k = 0
      <3>1. inside' = usedw_ff' + entering' - leaving' /\ inside' >= 0
        BY <1>11, <1>12 DEF TypeOK, CountExact
      <3> QED
        BY <1>4, <1>5, <1>9, <2>1, <3>1
    <2>2. CASE k # 0
      <3>1. D # 0 /\ k - 1 \in 0..(D - 1) /\ k - 1 \in 0..(DECR_DELAY - 1)
        BY <2>2 DEF DECR_DELAY
      <3>2. Pulses(delay_wrreq', D, (k - 1) + 1)
              = Pulses(delay_wrreq, D, k - 1) - Bit(delay_wrreq[D])
        BY <1>1, <1>2, <3>1, PulsesShift
      <3>3. Pulses(delay_decr', DECR_DELAY, (k - 1) + 1)
              = Pulses(delay_decr, DECR_DELAY, k - 1) - Bit(delay_decr[DECR_DELAY])
        BY <1>1, <1>2, <3>1, PulsesShift
      <3>4. Pulses(delay_decr, DECR_DELAY, k - 1)
              <= usedw_ff + Pulses(delay_wrreq, D, k - 1)
        BY <3>1 DEF IInv, LeaveAfterEnter
      <3>5. wr = delay_wrreq[D] /\ rd = delay_decr[DECR_DELAY] /\ (k - 1) + 1 = k
        BY <3>1 DEF wrreq_delayed, ChainOut, decr_count_delayed
      <3>6. /\ Pulses(delay_decr, DECR_DELAY, k - 1) \in Nat
            /\ Pulses(delay_wrreq, D, k - 1) \in Nat
        BY <3>1, PulsesType
      <3> HIDE DEF wr, rd
      <3> QED
        BY <1>1, <1>3, <1>8, <3>2, <3>3, <3>4, <3>5, <3>6 DEF Bit
    <2> QED BY <2>1, <2>2
  <1>15. empty' => usedw_ff' = 0
    BY <1>2
  <1> QED
    BY <1>10, <1>11, <1>12, <1>13, <1>14, <1>15 DEF IInv

(* IInv is an invariant of the semaphore. *)
THEOREM Invariance == Spec => []IInv
  <1>1. IInv /\ [Next]_vars => IInv'
    <2>1. IInv /\ Next => IInv'
      BY CycleInv DEF Next
    <2>2. IInv /\ UNCHANGED vars => IInv'
      BY DEF vars, IInv, TypeOK, FifoPtrsTypeOK, CountExact, Admitted, Promise,
         FullAt, LeaveAfterEnter
    <2> QED BY <2>1, <2>2
  <1> QED BY InitInv, <1>1, PTL DEF Spec

(* For every MAX_VALUE and SEM_DELAY the registers keep their types. *)
THEOREM TypeCorrect == Spec => []TypeOK
  <1>1. IInv => TypeOK
    BY DEF IInv
  <1> QED BY Invariance, <1>1, PTL

(* For every MAX_VALUE and SEM_DELAY at most MAX_VALUE threads are inside. *)
THEOREM ThreadLimitHolds == Spec => []ThreadLimit
  <1>1. IInv => ThreadLimit
    <2> SUFFICES ASSUME IInv PROVE ThreadLimit
      OBVIOUS
    <2>1. /\ Pulses(delay_wrreq, ADJUSTED_DELAY, 0) \in Nat
          /\ Pulses(delay_decr, DECR_DELAY, 0) \in Nat
      BY DelayFits, PulsesType
    <2> QED
      BY <2>1, WidthFits, MaxValueType
         DEF IInv, TypeOK, FifoPtrsTypeOK, CountExact, Admitted, ThreadLimit
  <1> QED BY Invariance, <1>1, PTL

(* For every MAX_VALUE and SEM_DELAY the counter never goes below zero. *)
THEOREM NoUnderflowHolds == Spec => []NoUnderflow
  <1>1. IInv => NoUnderflow
    BY Counted DEF IInv, NoUnderflow
  <1> QED BY Invariance, <1>1, PTL

(* The counter and the chains account for every thread inside. *)
THEOREM CountExactHolds == Spec => []CountExact
  <1>1. IInv => CountExact
    BY DEF IInv
  <1> QED BY Invariance, <1>1, PTL
=============================================================================
