--------------------------- MODULE PipelinedCall ---------------------------
(***************************************************************************)
(* A synchronous call of a pipelined function.  The caller saves its live  *)
(* variables and the thread count n of the call in ContextSaverOrdered     *)
(* (context_saver.sv) and, unless n = 0, sends one entry to                *)
(* KanagawaLoopGenerator (loop_generator.sv, thread_counter.sv), which     *)
(* starts threads 0..n-1 of the callee.  Their results come back in order, *)
(* calls one after the other without any mark between them; the context    *)
(* saver cuts that stream into the calls again by counting, and hands each *)
(* caller its live variables and the results of its own threads.           *)
(*                                                                         *)
(* The FIFOs between the parts are queues here.  The callee's latency is   *)
(* the environment's: results become visible at any time, in order.        *)
(***************************************************************************)
EXTENDS Integers, Sequences, SequencesExt

CONSTANTS COUNTER_WIDTH,          \* bits of a thread index
          RETURN_ELEMENT_COUNT,   \* elements of the caller's return array
          MAX_THREADS,            \* threads of the calling function, hence calls under way
          NoResult

VARIABLES CALLEE_VOID_RETURN_TYPE,   \* a parameter of the instance, chosen once
          live,                  \* live variables and counts saved by callers
          calls,                 \* entries on their way to the loop generator
          current_count, current_count_plus_one, thread_id_minus_one_reached,
          callee,                \* results of started threads, not yet read
          pending_count_ff, returnArrayBuffer_ff,
          unclaimed,             \* results read and not yet handed to a caller
          nextCall               \* name of the next call

vars == <<CALLEE_VOID_RETURN_TYPE, live, calls, current_count, current_count_plus_one,
          thread_id_minus_one_reached, callee, pending_count_ff,
          returnArrayBuffer_ff, unclaimed, nextCall>>

ASSUME PipelinedCallAssumption ==
    /\ COUNTER_WIDTH \in Nat \ {0} /\ RETURN_ELEMENT_COUNT \in Nat \ {0}
    /\ MAX_THREADS \in Nat \ {0}

Log2RoundUp(n) == CHOOSE k \in 0..n : 2^k >= n /\ (k = 0 \/ 2^(k - 1) < n)

Call == 0..MAX_THREADS
ThreadId == 0..(2^COUNTER_WIDTH - 1)

(* A count is one bit wider than a thread index, so that it can be         *)
(* 2^COUNTER_WIDTH.  The array a caller gets holds at most                 *)
(* RETURN_ELEMENT_COUNT results (asserted at the end of the module).       *)
LOOP_COUNT_WIDTH == COUNTER_WIDTH + 1
Counts ==
    {n \in 0..2^COUNTER_WIDTH : CALLEE_VOID_RETURN_TYPE \/ n <= RETURN_ELEMENT_COUNT}

RETURN_ARRAY_BUFFER_SIZE == RETURN_ELEMENT_COUNT + 1
Slots == 0..(RETURN_ARRAY_BUFFER_SIZE - 1)

MutPendingCountWidth ==
    IF CALLEE_VOID_RETURN_TYPE THEN LOOP_COUNT_WIDTH ELSE Log2RoundUp(RETURN_ELEMENT_COUNT)

(* Chosen by the compiler so that the count cannot overflow. *)
PENDING_COUNT_WIDTH ==
    IF CALLEE_VOID_RETURN_TYPE THEN LOOP_COUNT_WIDTH + Log2RoundUp(MAX_THREADS)
    ELSE Log2RoundUp(RETURN_ELEMENT_COUNT + 2)

MutThreshold == RETURN_ELEMENT_COUNT - 1

PENDING_COUNT_THRESHOLD ==
    IF CALLEE_VOID_RETURN_TYPE THEN 2^PENDING_COUNT_WIDTH - 1
    ELSE RETURN_ARRAY_BUFFER_SIZE

Wrap(n, width) == n % 2^width
-----------------------------------------------------------------------------
Init ==
    /\ CALLEE_VOID_RETURN_TYPE \in BOOLEAN
    /\ live = <<>> /\ calls = <<>> /\ callee = <<>> /\ unclaimed = <<>>
    /\ current_count = 0 /\ current_count_plus_one = 1
    /\ thread_id_minus_one_reached = FALSE
    /\ pending_count_ff = 0
    /\ returnArrayBuffer_ff = [k \in Slots |-> NoResult]
    /\ nextCall = 0

(* The loop generator.  Its callee starts a thread whenever it likes       *)
(* (rden_in) while there is an entry; the last thread dequeues it.         *)
count_reached == Head(calls).only_one_thread \/ thread_id_minus_one_reached

minus_one_reached_next == current_count_plus_one = Head(calls).max_thread_id

(* The loop generator puts the thread's index into the entry it passes on, *)
StartedThread == [call |-> Head(calls).call, thread |-> current_count]

(* and keeps the entry until its last thread has been started. *)
LoopEntries(rden_in) == IF rden_in /\ count_reached THEN Tail(calls) ELSE calls

CountThread(rden_in) ==
    IF ~rden_in THEN UNCHANGED <<current_count, current_count_plus_one,
                                 thread_id_minus_one_reached>>
    ELSE IF count_reached
    THEN /\ current_count' = 0 /\ current_count_plus_one' = 1
         /\ thread_id_minus_one_reached' = FALSE
    ELSE /\ current_count' = Wrap(current_count + 1, COUNTER_WIDTH)
         /\ current_count_plus_one' = Wrap(current_count_plus_one + 1, COUNTER_WIDTH)
         /\ thread_id_minus_one_reached' = minus_one_reached_next

(* The context saver reads a result if it has room for it, *)
callee_rden_out(callee_empty_in) ==
    /\ ~callee_empty_in
    /\ CALLEE_VOID_RETURN_TYPE \/ pending_count_ff < PENDING_COUNT_THRESHOLD

(* and completes the oldest call on the count it had before this edge.     *)
valid_out(output_rdy_in) ==
    output_rdy_in /\ live # <<>> /\ Head(live).count <= pending_count_ff

(* The array with this edge's result, which is what the caller gets, *)
Filled(rd) ==
    IF rd /\ pending_count_ff \in Slots
    THEN [returnArrayBuffer_ff EXCEPT ![pending_count_ff] = Head(callee)]
    ELSE returnArrayBuffer_ff

callee_data_out(rd) == [k \in 0..(RETURN_ELEMENT_COUNT - 1) |-> Filled(rd)[k]]

MutShifted(array, n) == array

(* and shifted down by n; beyond its end it is undefined. *)
Shifted(array, n) ==
    LET idx(k) == Wrap(k + n, Log2RoundUp(RETURN_ARRAY_BUFFER_SIZE))
    IN  [k \in Slots |-> IF k = RETURN_ELEMENT_COUNT THEN array[k]
                         ELSE IF idx(k) \in Slots THEN array[idx(k)] ELSE NoResult]

(* The entry a caller sends for n > 0 threads: the compiler subtracts one. *)
Entry(n) ==
    [call |-> nextCall, max_thread_id |-> Wrap(n - 1, COUNTER_WIDTH),
     only_one_thread |-> n = 1]

(* A clock edge: a caller makes a call with n threads (n = -1: none), the  *)
(* callee starts a thread (rden_in), a result is visible or not            *)
(* (callee_empty_in), and the return site is ready (output_rdy_in) or not. *)
Cycle(n, rden_in, callee_empty_in, output_rdy_in) ==
    LET rd    == callee_rden_out(callee_empty_in)
        done  == valid_out(output_rdy_in)
        count == IF done THEN Head(live).count ELSE 0
    IN  /\ UNCHANGED CALLEE_VOID_RETURN_TYPE
        /\ n >= 0 => Len(live) < MAX_THREADS
        /\ rden_in => calls # <<>>
        /\ ~callee_empty_in => callee # <<>>
        /\ live' = (IF done THEN Tail(live) ELSE live)
                   \o (IF n >= 0 THEN <<[call |-> nextCall, count |-> n]>> ELSE <<>>)
        /\ nextCall' = IF n >= 0 THEN (nextCall + 1) % (MAX_THREADS + 1) ELSE nextCall
        /\ calls' = LoopEntries(rden_in) \o (IF n > 0 THEN <<Entry(n)>> ELSE <<>>)
        /\ CountThread(rden_in)
        /\ callee' = (IF rd THEN Tail(callee) ELSE callee)
                     \o (IF rden_in THEN <<StartedThread>> ELSE <<>>)
        /\ pending_count_ff' =
              Wrap(pending_count_ff + (IF rd THEN 1 ELSE 0) - count, PENDING_COUNT_WIDTH)
        /\ returnArrayBuffer_ff' =
              IF CALLEE_VOID_RETURN_TYPE THEN returnArrayBuffer_ff
              ELSE IF done THEN Shifted(Filled(rd), count) ELSE Filled(rd)
        /\ unclaimed' =
              LET read == unclaimed \o (IF rd THEN <<Head(callee)>> ELSE <<>>)
              IN  SubSeq(read, count + 1, Len(read))

Next == \E n \in Counts \cup {-1}, rden_in, callee_empty_in, output_rdy_in \in BOOLEAN :
            Cycle(n, rden_in, callee_empty_in, output_rdy_in)

Spec == Init /\ [][Next]_vars

(* The callee goes on starting threads, a result the context saver would   *)
(* read becomes visible, and the return site is ready in the end when a    *)
(* call is complete.  No caller is made to call.                           *)
Some(A(_, _, _, _)) == \E n \in Counts \cup {-1}, r, e, o \in BOOLEAN : A(n, r, e, o)
Start(n, r, e, o)  == r /\ Cycle(n, r, e, o)
Return(n, r, e, o) == callee_rden_out(e) /\ Cycle(n, r, e, o)
Ready(n, r, e, o)  == valid_out(o) /\ Cycle(n, r, e, o)
CalleeStarts  == Some(Start)
CalleeReturns == Some(Return)
CallerReady   == Some(Ready)
FairSpec == Spec /\ WF_vars(CalleeStarts) /\ WF_vars(CalleeReturns) /\ WF_vars(CallerReady)
-----------------------------------------------------------------------------
Completes == valid_out(TRUE)
First == Head(live)

(* The registers keep their types; the thread counter and the pending      *)
(* count stay within the widths the compiler computed for them.            *)
Result == [call : Call, thread : ThreadId]
TypeOK ==
    /\ CALLEE_VOID_RETURN_TYPE \in BOOLEAN
    /\ live \in Seq([call : Call, count : Counts]) /\ Len(live) <= MAX_THREADS
    /\ calls \in Seq([call : Call, max_thread_id : ThreadId, only_one_thread : BOOLEAN])
    /\ current_count \in ThreadId /\ current_count_plus_one \in ThreadId
    /\ thread_id_minus_one_reached \in BOOLEAN
    /\ callee \in Seq(Result) /\ unclaimed \in Seq(Result)
    /\ pending_count_ff \in 0..(2^PENDING_COUNT_WIDTH - 1)
    /\ returnArrayBuffer_ff \in [Slots -> Result \cup {NoResult}]
    /\ nextCall \in Call

(* A caller gets the results of its own threads, each in its place, and    *)
(* not before all of them are there, although nothing in the stream of     *)
(* results marks where a call begins.                                      *)
ReturnsOwnResults ==
    Completes => \A k \in 0..(First.count - 1), empty \in BOOLEAN :
        LET own == [call |-> First.call, thread |-> k]
            rd  == callee # <<>> /\ callee_rden_out(empty)
        IN  IF CALLEE_VOID_RETURN_TYPE THEN unclaimed[k + 1] = own
            ELSE callee_data_out(rd)[k] = own

(* The assertions of the context saver: the count of results waiting to be *)
(* claimed never overflows, and is exact.                                  *)
PendingExact ==
    /\ pending_count_ff = Len(unclaimed)
    /\ \A empty \in BOOLEAN :
          callee # <<>> /\ callee_rden_out(empty) =>
              /\ pending_count_ff < 2^PENDING_COUNT_WIDTH - 1
              /\ pending_count_ff < PENDING_COUNT_THRESHOLD

(* Every call returns: the buffer threshold never blocks the results a     *)
(* call is waiting for.                                                    *)
EveryCallReturns ==
    \A c \in Call : (live # <<>> /\ First.call = c) ~> (live = <<>> \/ First.call # c)
-----------------------------------------------------------------------------
(* The results of a call with n threads, of all calls in the order in      *)
(* which they were made, and of those whose threads are still to start.    *)
Results(call, n) == [k \in 1..n |-> [call |-> call, thread |-> k - 1]]
Owed == FlattenSeq([i \in 1..Len(live) |-> Results(live[i].call, live[i].count)])
ToStart == FlattenSeq([i \in 1..Len(calls) |->
                          Results(calls[i].call, calls[i].max_thread_id + 1)])

(* What was read, what the callee has and what is still to start is what   *)
(* the callers wait for, in this order.                                    *)
StreamExact ==
    (unclaimed \o callee) \o SubSeq(ToStart, current_count + 1, Len(ToStart)) = Owed

(* The thread counter sees the last thread of the entry at its head when   *)
(* it comes, whether it is the only one or the one before the wrap.        *)
CounterExact ==
    /\ \A i \in DOMAIN calls : calls[i].only_one_thread <=> calls[i].max_thread_id = 0
    /\ current_count_plus_one = Wrap(current_count + 1, COUNTER_WIDTH)
    /\ IF calls = <<>> THEN current_count = 0 /\ ~thread_id_minus_one_reached
       ELSE /\ current_count <= Head(calls).max_thread_id
            /\ count_reached <=> current_count = Head(calls).max_thread_id

(* The array holds what has been read and not been claimed. *)
BufferExact ==
    ~CALLEE_VOID_RETURN_TYPE =>
        /\ Len(unclaimed) <= RETURN_ARRAY_BUFFER_SIZE
        /\ \A k \in 1..Len(unclaimed) : returnArrayBuffer_ff[k - 1] = unclaimed[k]

(* The inductive invariant behind ReturnsOwnResults and PendingExact. *)
IInv ==
    /\ TypeOK
    /\ StreamExact
    /\ CounterExact
    /\ BufferExact
    /\ pending_count_ff = Len(unclaimed)
=============================================================================
