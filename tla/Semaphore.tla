----------------------------- MODULE Semaphore -----------------------------
(***************************************************************************)
(* KanagawaSemaphore (semaphore.sv): limits the number of threads inside a *)
(* region of code to MAX_VALUE.  An entering thread pulses incr_count_in,  *)
(* a leaving one decr_count_in; entry is refused while full_out is high.   *)
(* Both the count and full_out travel through flip-flop chains, so the     *)
(* decision to admit a thread rests on an occupancy that is 2*SEM_DELAY    *)
(* cycles old.  The code in the region, which the compiler generates, is   *)
(* the environment: it respects full_out and only threads that are inside  *)
(* leave; a thread may leave in the cycle in which it enters.              *)
(***************************************************************************)
EXTENDS FlipFlopChain

CONSTANTS MAX_VALUE, SEM_DELAY, LOG_DEPTH

VARIABLES delay_wrreq, delay_almost_full, usedw_ff, almost_full_raw, empty,
          delay_decr,   \* decrements under way to the counter
          inside        \* threads inside the region

(* A write delay that leaves the counter no threshold is not used at all. *)
ADJUSTED_DELAY == IF MAX_VALUE - SEM_DELAY * 2 >= 1 THEN SEM_DELAY ELSE 0

INSTANCE FifoPtrs WITH WRITE_DELAY <- ADJUSTED_DELAY, MAX_SIZE <- MAX_VALUE

vars == <<delay_wrreq, delay_almost_full, usedw_ff, almost_full_raw, empty,
          delay_decr, inside>>

ASSUME SemaphoreAssumption ==
    /\ MAX_VALUE \in Nat \ {0}
    /\ SEM_DELAY \in Nat
    /\ LOG_DEPTH \in Nat
    \* LOG_DEPTH = $clog2(MAX_VALUE)
    /\ 2^(LOG_DEPTH + 1) \in Nat
    /\ MAX_VALUE < 2^(LOG_DEPTH + 1)

MutEqualDelays == IF ADJUSTED_DELAY > 0 THEN ADJUSTED_DELAY ELSE 1

(* Decrements are delayed by one cycle more than increments. *)
DECR_DELAY == ADJUSTED_DELAY + 1

full_out == almost_full
decr_count_delayed == delay_decr[DECR_DELAY]
-----------------------------------------------------------------------------
Init ==
    /\ FifoPtrsInit
    /\ delay_decr = [i \in 1..DECR_DELAY |-> FALSE]
    /\ inside = 0

MutDoubleRelease(incr) == TRUE

(* Only a thread that is inside the region can leave it: the compiler      *)
(* pulses decr_count_in at the end of the block whose begin pulsed         *)
(* incr_count_in.                                                          *)
CanRelease(incr) == inside + Bit(incr) > 0

(* A clock edge at which a thread enters the region (incr), leaves it      *)
(* (decr), both or neither.                                                *)
Cycle(incr, decr) ==
    /\ incr => ~full_out
    /\ decr => CanRelease(incr)
    /\ FifoPtrsCycle(incr, decr_count_delayed)
    /\ delay_decr' = ChainShift(delay_decr, DECR_DELAY, decr)
    /\ inside' = inside + Bit(incr) - Bit(decr)

Next == \E incr, decr \in BOOLEAN : Cycle(incr, decr)

(* A thread that was already inside leaves. *)
Leave == inside > 0 /\ \E incr \in BOOLEAN : Cycle(incr, TRUE)

Spec == Init /\ [][Next]_vars

(* The clock runs: edges come as long as an edge without an entry or exit  *)
(* would change a register.                                                *)
Tick == (ENABLED <<Cycle(FALSE, FALSE)>>_vars) /\ Next

(* The clock runs, and threads inside the region leave it. *)
FairSpec == Spec /\ WF_vars(Tick) /\ WF_vars(Leave)
-----------------------------------------------------------------------------
(* The registers keep their types, the counter its width, and nobody       *)
(* leaves an empty region.                                                 *)
TypeOK ==
    /\ FifoPtrsTypeOK
    /\ delay_decr \in Chains(DECR_DELAY, BOOLEAN)
    /\ inside \in Nat

(* Never more than MAX_VALUE threads inside the region, however stale the  *)
(* full_out that admitted them was (semaphore.sv: "limit the number of     *)
(* threads within a region of code").                                      *)
ThreadLimit == inside <= MAX_VALUE

(* The delayed decrement never reaches a counter that is still zero: the   *)
(* counter does not wrap below zero even for a thread that enters and      *)
(* leaves in one cycle (fifo_ptrs.sv's underflow assertion, and the        *)
(* comment on the "+ 1" of the decrement delay).                           *)
NoUnderflow == decr_count_delayed => usedw_ff > 0 /\ ~empty

(* Counter and chains account for every thread inside, so the counter has  *)
(* not wrapped at its width either.                                        *)
CountExact ==
    inside = usedw_ff + Pulses(delay_wrreq, ADJUSTED_DELAY, 0)
                      - Pulses(delay_decr, DECR_DELAY, 0)

(* If threads keep leaving, the semaphore never stays closed: full_out is  *)
(* low again and again, so waiting threads can be admitted.                *)
ReopensAgain == []<>(~full_out)
-----------------------------------------------------------------------------
(* Occupancy as the next admission decisions will come to see it. *)
Admitted == usedw_ff + Pulses(delay_wrreq, ADJUSTED_DELAY, 0)

(* almost_full with j cycles of its way to the writer done: j = 0 is the   *)
(* register, j = ADJUSTED_DELAY what the writer sees.                      *)
FullAt(j) == IF j = 0 THEN almost_full_raw ELSE delay_almost_full[j]

(* A low full bit that the writer will see in n cycles promises room for   *)
(* one admission in each of the n cycles until then and one more.          *)
Promise ==
    \A j \in 0..ADJUSTED_DELAY :
        ~FullAt(j) => Admitted <= MAX_VALUE - 1 - (ADJUSTED_DELAY - j)

(* However many cycles k one looks back, no more threads had left than had *)
(* entered.                                                                *)
LeaveAfterEnter ==
    \A k \in 0..ADJUSTED_DELAY :
        Pulses(delay_decr, DECR_DELAY, k)
            <= usedw_ff + Pulses(delay_wrreq, ADJUSTED_DELAY, k)

(* The inductive invariant behind ThreadLimit, NoUnderflow and CountExact. *)
IInv ==
    /\ TypeOK
    /\ CountExact
    /\ Admitted <= MAX_VALUE
    /\ Promise
    /\ LeaveAfterEnter
    /\ empty => usedw_ff = 0
=============================================================================
