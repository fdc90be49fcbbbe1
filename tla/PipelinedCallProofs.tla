------------------------ MODULE PipelinedCallProofs ------------------------
(***************************************************************************)
(* The stream of results of a pipelined callee is cut into the calls again *)
(* exactly, for every width, every size of the return array and every      *)
(* number of calling threads.                                              *)
(*                                                                         *)
(* The inductive invariant IInv says that what was read, what the callee   *)
(* holds and what the loop generator has still to start is, in this order, *)
(* what the waiting callers are owed.  A clock edge takes the first call's *)
(* results from the front of both sides and puts the new call's at their   *)
(* ends.                                                                   *)
(***************************************************************************)
EXTENDS PipelinedCall, RuntimeLemmas

USE PipelinedCallAssumption

(* The powers of two that the widths of the registers stand for. *)
LEMMA CounterWidth ==
    ASSUME PowersOfTwo
    PROVE  2^COUNTER_WIDTH \in Nat /\ 2^COUNTER_WIDTH >= 2
  <1>1. COUNTER_WIDTH \in Nat /\ COUNTER_WIDTH > 0
    OBVIOUS
  <1>2. 2^COUNTER_WIDTH \in Nat /\ 2^COUNTER_WIDTH > COUNTER_WIDTH
    BY <1>1, PowerExceeds
  <1> QED BY <1>1, <1>2

(* Log2RoundUp gives a width that is large enough. *)
LEMMA RoundUp ==
    ASSUME PowersOfTwo, NEW n \in Nat
    PROVE  /\ Log2RoundUp(n) \in Nat /\ 2^Log2RoundUp(n) \in Nat
           /\ 2^Log2RoundUp(n) >= n
  <1>1. PICK b \in 0..n : 2^b >= n /\ \A c \in 0..(b - 1) : 2^c < n
    BY LeastPower
  <1>2. b = 0 \/ 2^(b - 1) < n
    <2>1. CASE b = 0
      BY <2>1
    <2>2. CASE b # 0
      <3>1. b - 1 \in 0..(b - 1)
        BY <2>2
      <3> QED BY <1>1, <3>1
    <2> QED BY <2>1, <2>2
  <1>3. \E k \in 0..n : 2^k >= n /\ (k = 0 \/ 2^(k - 1) < n)
    BY <1>1, <1>2
  <1> DEFINE k == Log2RoundUp(n)
  <1>4. k \in 0..n /\ 2^k >= n
    BY <1>3 DEF Log2RoundUp
  <1> HIDE DEF k
  <1>5. 2^k \in Nat
    BY <1>4, PowerExceeds
  <1> QED BY <1>4, <1>5 DEF k

(* The width the compiler chooses for the count of results that wait to be *)
(* claimed: enough for the threads of all calls, or for the array buffer.  *)
LEMMA PendingWidth ==
    ASSUME PowersOfTwo
    PROVE  /\ 2^PENDING_COUNT_WIDTH \in Nat
           /\ CALLEE_VOID_RETURN_TYPE =>
                 2^PENDING_COUNT_WIDTH >= 2 * (2^COUNTER_WIDTH * MAX_THREADS)
           /\ ~CALLEE_VOID_RETURN_TYPE => 2^PENDING_COUNT_WIDTH >= RETURN_ELEMENT_COUNT + 2
  <1>1. CASE CALLEE_VOID_RETURN_TYPE
    <2> DEFINE L == Log2RoundUp(MAX_THREADS)
               C == 2^COUNTER_WIDTH
    <2>1. L \in Nat /\ 2^L \in Nat /\ 2^L >= MAX_THREADS
      BY RoundUp
    <2>2. C \in Nat
      BY CounterWidth
    <2>3. 2^(COUNTER_WIDTH + 1) = 2 * C
      BY DEF PowersOfTwo
    <2>4. COUNTER_WIDTH + 1 \in Nat
      OBVIOUS
    <2> HIDE DEF L, C
    <2>5. 2^((COUNTER_WIDTH + 1) + L) = 2^(COUNTER_WIDTH + 1) * 2^L
      BY <2>1, <2>4, PowerSum
    <2>6. PENDING_COUNT_WIDTH = (COUNTER_WIDTH + 1) + L
      BY <1>1 DEF PENDING_COUNT_WIDTH, LOOP_COUNT_WIDTH, L
    <2> DEFINE Q == 2^L
    <2>7. 2^PENDING_COUNT_WIDTH = (2 * C) * Q
      BY <2>3, <2>5, <2>6
    <2>8. Q \in Nat /\ Q >= MAX_THREADS
      BY <2>1
    <2> HIDE DEF Q
    <2>9. C * Q >= C * MAX_THREADS /\ C * Q \in Nat /\ C * MAX_THREADS \in Nat
      BY <2>2, <2>8
    <2>10. (2 * C) * Q = 2 * (C * Q)
      BY <2>2, <2>8
    <2>11. (2 * C) * Q >= 2 * (C * MAX_THREADS) /\ (2 * C) * Q \in Nat
      BY <2>9, <2>10
    <2> QED BY <1>1, <2>7, <2>11 DEF C
  <1>2. CASE ~CALLEE_VOID_RETURN_TYPE
    <2> DEFINE L == Log2RoundUp(RETURN_ELEMENT_COUNT + 2)
    <2>1. L \in Nat /\ 2^L \in Nat /\ 2^L >= RETURN_ELEMENT_COUNT + 2
      <3>1. RETURN_ELEMENT_COUNT + 2 \in Nat
        OBVIOUS
      <3> QED BY <3>1, RoundUp
    <2>2. PENDING_COUNT_WIDTH = L
      BY <1>2 DEF PENDING_COUNT_WIDTH
    <2> HIDE DEF L
    <2> QED BY <1>2, <2>1, <2>2
  <1> QED BY <1>1, <1>2
-----------------------------------------------------------------------------
(* What the entries of the two queues stand for. *)
Saved == [call : Call, count : 0..2^COUNTER_WIDTH]
Launch == [call : Call, max_thread_id : ThreadId, only_one_thread : BOOLEAN]
OwedTo == [e \in Saved |-> Results(e.call, e.count)]
StartedFor == [e \in Launch |-> Results(e.call, e.max_thread_id + 1)]

(* The results of a call are numbered from 0 on. *)
LEMMA ResultsType ==
    ASSUME PowersOfTwo, NEW c \in Call, NEW n \in 0..2^COUNTER_WIDTH
    PROVE  /\ Results(c, n) \in Seq(Result) /\ Len(Results(c, n)) = n
           /\ \A k \in 1..n : Results(c, n)[k] = [call |-> c, thread |-> k - 1]
  <1>1. n \in Nat /\ \A k \in 1..n : k - 1 \in ThreadId
    BY CounterWidth DEF ThreadId
  <1>2. \A k \in 1..n : [call |-> c, thread |-> k - 1] \in Result
    BY <1>1 DEF Result
  <1> QED BY <1>1, <1>2 DEF Results

(* A call without threads has no results. *)
LEMMA NoResults ==
    ASSUME NEW c
    PROVE  Results(c, 0) = <<>>
  BY DEF Results

(* An entry of either queue stands for results. *)
LEMMA OwedToType ==
    ASSUME PowersOfTwo
    PROVE  OwedTo \in [Saved -> Seq(Result)]
  <1> SUFFICES ASSUME NEW e \in Saved PROVE Results(e.call, e.count) \in Seq(Result)
    BY DEF OwedTo
  <1>1. e.call \in Call /\ e.count \in 0..2^COUNTER_WIDTH
    BY DEF Saved
  <1> QED BY <1>1, ResultsType

(* So does one of the loop generator. *)
LEMMA StartedForType ==
    ASSUME PowersOfTwo
    PROVE  StartedFor \in [Launch -> Seq(Result)]
  <1> SUFFICES ASSUME NEW e \in Launch
               PROVE  Results(e.call, e.max_thread_id + 1) \in Seq(Result)
    BY DEF StartedFor
  <1>1. e.call \in Call /\ e.max_thread_id + 1 \in 0..2^COUNTER_WIDTH
    BY CounterWidth DEF Launch, ThreadId
  <1> QED BY <1>1, ResultsType

(* The library joins a row as the lemmas do. *)
LEMMA FlattenIsFlat ==
    ASSUME NEW S, NEW row \in Seq(S)
    PROVE  FlattenSeq(row) = Flat(row)
  <1>1. CASE Len(row) = 0
    <2>1. row = <<>>
      BY <1>1, EmptySeq
    <2> QED BY <1>1, <2>1 DEF FlattenSeq, Flat
  <1>2. CASE Len(row) # 0
    BY <1>2 DEF FlattenSeq, Flat, Joint
  <1> QED BY <1>1, <1>2

(* The streams of the model are streams of these entries. *)
OwedBy(l) == FlattenSeq([i \in 1..Len(l) |-> Results(l[i].call, l[i].count)])
StartedBy(c) == FlattenSeq([i \in 1..Len(c) |-> Results(c[i].call, c[i].max_thread_id + 1)])

(* What callers are owed is the stream of their saved calls, *)
LEMMA OwedStream ==
    ASSUME PowersOfTwo, NEW l \in Seq(Saved)
    PROVE  OwedBy(l) = Stream(l, OwedTo) /\ Stream(l, OwedTo) \in Seq(Result)
  <1> DEFINE r == [i \in 1..Len(l) |-> Results(l[i].call, l[i].count)]
  <1>1. Len(l) \in Nat /\ \A i \in 1..Len(l) : l[i] \in Saved
    BY LenProperties
  <1>2. \A i \in 1..Len(l) : OwedTo[l[i]] = Results(l[i].call, l[i].count)
    BY <1>1 DEF OwedTo
  <1>3. r = RowOf(l, OwedTo)
    BY <1>2 DEF RowOf
  <1>4. IsRow(RowOf(l, OwedTo), l, OwedTo, Result) /\ Stream(l, OwedTo) \in Seq(Result)
    BY OwedToType, RowOfType
  <1>5. r \in Seq(Seq(Result))
    BY <1>3, <1>4 DEF IsRow
  <1> HIDE DEF r
  <1>6. FlattenSeq(r) = Flat(r)
    BY <1>5, FlattenIsFlat
  <1> QED BY <1>3, <1>4, <1>6 DEF OwedBy, Stream, r

(* and what is started the stream of the loop generator's entries. *)
LEMMA StartedStream ==
    ASSUME PowersOfTwo, NEW c \in Seq(Launch)
    PROVE  StartedBy(c) = Stream(c, StartedFor) /\ Stream(c, StartedFor) \in Seq(Result)
  <1> DEFINE r == [i \in 1..Len(c) |-> Results(c[i].call, c[i].max_thread_id + 1)]
  <1>1. Len(c) \in Nat /\ \A i \in 1..Len(c) : c[i] \in Launch
    BY LenProperties
  <1>2. \A i \in 1..Len(c) : StartedFor[c[i]] = Results(c[i].call, c[i].max_thread_id + 1)
    BY <1>1 DEF StartedFor
  <1>3. r = RowOf(c, StartedFor)
    BY <1>2 DEF RowOf
  <1>4. IsRow(RowOf(c, StartedFor), c, StartedFor, Result) /\ Stream(c, StartedFor) \in Seq(Result)
    BY StartedForType, RowOfType
  <1>5. r \in Seq(Seq(Result))
    BY <1>3, <1>4 DEF IsRow
  <1> HIDE DEF r
  <1>6. FlattenSeq(r) = Flat(r)
    BY <1>5, FlattenIsFlat
  <1> QED BY <1>3, <1>4, <1>6 DEF StartedBy, Stream, r

(* The callers are owed no more than the threads of their calls. *)
LEMMA OwedLength ==
    ASSUME PowersOfTwo, NEW l \in Seq(Saved), Len(l) <= MAX_THREADS
    PROVE  Len(OwedBy(l)) <= 2^COUNTER_WIDTH * MAX_THREADS
  <1> DEFINE r == RowOf(l, OwedTo)
             C == 2^COUNTER_WIDTH
             n == Len(l)
  <1>1. C \in Nat /\ n \in Nat /\ n <= MAX_THREADS
    BY CounterWidth, LenProperties
  <1>2. IsRow(r, l, OwedTo, Result)
    BY OwedToType, RowOfType
  <1>3. r \in Seq(Seq(Result)) /\ Len(r) = n /\ \A i \in 1..n : r[i] = OwedTo[l[i]]
    BY <1>2 DEF IsRow
  <1>4. ASSUME NEW i \in 1..n PROVE Len(r[i]) <= C
    <2>1. l[i] \in Saved
      BY LenProperties
    <2>2. l[i].call \in Call /\ l[i].count \in 0..C
      BY <2>1 DEF Saved
    <2>3. r[i] = Results(l[i].call, l[i].count)
      BY <1>3, <2>1 DEF OwedTo
    <2>4. Len(Results(l[i].call, l[i].count)) = l[i].count
      BY <2>2, ResultsType
    <2> QED BY <1>1, <2>2, <2>3, <2>4
  <1> HIDE DEF r, C, n
  <1>5. Len(Flat(r)) <= C * n
    BY <1>1, <1>3, <1>4, FlatLength
  <1>6. C * n <= C * MAX_THREADS /\ C * n \in Nat /\ C * MAX_THREADS \in Nat
    BY <1>1
  <1>7. OwedBy(l) = Flat(r) /\ Flat(r) \in Seq(Result)
    BY OwedStream DEF Stream, r
  <1>8. Len(Flat(r)) \in Nat
    BY <1>7, LenProperties
  <1> QED BY <1>5, <1>6, <1>7, <1>8 DEF C
-----------------------------------------------------------------------------
(* A clock edge as puts and takes; LastThread: the start of a call's last     *)
(* thread, which takes the call's entry from the loop generator's queue.   *)
rd(e) == callee_rden_out(e)
done(o) == valid_out(o)
LastThread(r) == r /\ count_reached
SavedCall(n) == [call |-> nextCall, count |-> n]
Freed(o) == IF done(o) THEN Head(live).count ELSE 0
Fetched(e) == unclaimed \o (IF rd(e) THEN <<Head(callee)>> ELSE <<>>)
NewResults(n) == IF n > 0 THEN Results(nextCall, n) ELSE <<>>

Edge(n, r, e, o) ==
    /\ IInv /\ n \in Counts \cup {-1}
    /\ r \in BOOLEAN /\ e \in BOOLEAN /\ o \in BOOLEAN
    /\ Cycle(n, r, e, o)

(* The registers' types, with the sets the lemmas above use. *)
LEMMA Registers ==
    ASSUME PowersOfTwo, TypeOK
    PROVE  /\ live \in Seq(Saved) /\ Len(live) <= MAX_THREADS
           /\ calls \in Seq(Launch)
           /\ callee \in Seq(Result) /\ unclaimed \in Seq(Result)
           /\ current_count \in Nat /\ nextCall \in Call
           /\ Owed = OwedBy(live) /\ ToStart = StartedBy(calls)
           /\ live # <<>> => Head(live).count \in Counts /\ Head(live) \in Saved
           /\ calls # <<>> => Head(calls) \in Launch
           /\ callee # <<>> => Head(callee) \in Result
  <1>1. 2^COUNTER_WIDTH \in Nat /\ 2^COUNTER_WIDTH >= 2
    BY CounterWidth
  <1>2. Counts \subseteq 0..2^COUNTER_WIDTH
    BY DEF Counts
  <1> DEFINE E == [call : Call, count : Counts]
  <1>3. E \subseteq Saved
    BY <1>2 DEF Saved
  <1>4. live \in Seq(E)
    BY DEF TypeOK
  <1>5. live \in Seq(Saved)
    <2> HIDE DEF E
    <2> QED BY <1>3, <1>4
  <1>6. ASSUME live # <<>> PROVE Head(live).count \in Counts /\ Head(live) \in Saved
    <2>1. Head(live) \in E
      <3> HIDE DEF E
      <3> QED BY <1>4, <1>6, HeadTailProperties
    <2> QED BY <1>3, <2>1
  <1>7. calls \in Seq(Launch)
    BY DEF TypeOK, Launch
  <1>8. calls # <<>> => Head(calls) \in Launch
    BY <1>7, HeadTailProperties
  <1>9. callee \in Seq(Result) /\ unclaimed \in Seq(Result) /\ Len(live) <= MAX_THREADS
    BY DEF TypeOK
  <1>10. callee # <<>> => Head(callee) \in Result
    BY <1>9, HeadTailProperties
  <1>11. current_count \in Nat /\ nextCall \in Call
    BY <1>1 DEF TypeOK, ThreadId
  <1> QED BY <1>5, <1>6, <1>7, <1>8, <1>9, <1>10, <1>11
          DEF Owed, ToStart, OwedBy, StartedBy

(* A call that completes frees as many results as it has threads, and they *)
(* have all been read.                                                     *)
LEMMA FreedType ==
    ASSUME PowersOfTwo, TypeOK, pending_count_ff = Len(unclaimed), NEW o \in BOOLEAN
    PROVE  /\ done(o) => live # <<>> /\ Head(live).count = Freed(o)
           /\ Freed(o) \in Nat /\ Freed(o) <= Len(unclaimed)
           /\ Freed(o) \in Counts
  <1>1. 2^COUNTER_WIDTH \in Nat /\ Len(unclaimed) \in Nat
    BY CounterWidth, Registers, LenProperties
  <1>2. Counts \subseteq 0..2^COUNTER_WIDTH /\ 0 \in Counts
    BY <1>1 DEF Counts
  <1>3. CASE done(o)
    <2>1. live # <<>> /\ Head(live).count <= Len(unclaimed)
      BY <1>3 DEF done, valid_out
    <2>2. Head(live).count \in Counts
      BY <2>1, Registers
    <2>3. Freed(o) = Head(live).count
      BY <1>3 DEF Freed
    <2>4. Freed(o) \in Counts /\ Freed(o) <= Len(unclaimed)
      BY <2>1, <2>2, <2>3
    <2>6. Freed(o) \in 0..2^COUNTER_WIDTH
      BY <1>2, <2>4, Zenon
    <2>5. Freed(o) \in Nat
      BY <1>1, <2>6
    <2> QED BY <2>1, <2>3, <2>4, <2>5
  <1>4. CASE ~done(o)
    BY <1>1, <1>2, <1>4 DEF Freed
  <1> QED BY <1>3, <1>4

(* What the callers are owed loses the results of the call that completes  *)
(* at its front and gains those of the new call at its end.                *)
Completed(o) == IF done(o) THEN OwedTo[Head(live)] ELSE <<>>

(* The results that the call which completes at this edge claims. *)
LEMMA CompletedType ==
    ASSUME PowersOfTwo, TypeOK, pending_count_ff = Len(unclaimed), NEW o \in BOOLEAN
    PROVE  /\ Completed(o) \in Seq(Result) /\ Len(Completed(o)) = Freed(o)
           /\ done(o) => Completed(o) = Results(Head(live).call, Head(live).count)
  <1>1. CASE done(o)
    <2>1. live # <<>> /\ Head(live) \in Saved
      BY <1>1, FreedType, Registers
    <2> DEFINE h == Head(live)
    <2>2. h.call \in Call /\ h.count \in 0..2^COUNTER_WIDTH
      BY <2>1 DEF Saved
    <2>3. Results(h.call, h.count) \in Seq(Result) /\ Len(Results(h.call, h.count)) = h.count
      BY <2>2, ResultsType
    <2>4. Completed(o) = Results(h.call, h.count)
      BY <1>1, <2>1 DEF Completed, OwedTo
    <2> QED BY <1>1, <2>3, <2>4 DEF Freed
  <1>2. CASE ~done(o)
    BY <1>2 DEF Completed, Freed
  <1> QED BY <1>1, <1>2

LEMMA OwedEdge ==
    ASSUME PowersOfTwo, NEW n, NEW r, NEW e, NEW o, Edge(n, r, e, o)
    PROVE  /\ live' \in Seq(Saved)
           /\ \E mid \in Seq(Result) : /\ OwedBy(live) = Completed(o) \o mid
                                       /\ OwedBy(live') = mid \o NewResults(n)
  <1> DEFINE take == done(o)
             put == n >= 0
             x == SavedCall(n)
  <1>1. /\ TypeOK /\ pending_count_ff = Len(unclaimed) /\ n \in Counts \cup {-1}
        /\ o \in BOOLEAN
    BY DEF Edge, IInv
  <1>2. 2^COUNTER_WIDTH \in Nat /\ n \in Int /\ n >= -1 /\ (n >= 0 => n \in 0..2^COUNTER_WIDTH)
    BY <1>1, CounterWidth DEF Counts
  <1>3. take \in BOOLEAN /\ (take => live # <<>>)
    BY <1>1 DEF done, valid_out
  <1>4. put \in BOOLEAN /\ (put => x \in Saved)
    <2>1. nextCall \in Call
      BY <1>1, Registers
    <2> QED BY <1>2, <2>1 DEF SavedCall, Saved
  <1>5. live' = After(live, take, put, x)
    BY DEF Edge, Cycle, After, done, SavedCall
  <1>6. live \in Seq(Saved)
    BY <1>1, Registers
  <1>7. OwedTo \in [Saved -> Seq(Result)]
    BY OwedToType
  <1> HIDE DEF take, put, x
  <1>8. /\ live' \in Seq(Saved)
        /\ StreamMoves(Stream(live, OwedTo), Stream(live', OwedTo),
                       take, OwedTo[Head(live)], put, OwedTo[x], Result)
    BY <1>3, <1>4, <1>5, <1>6, <1>7, StreamEdge
  <1>9. PICK mid \in Seq(Result) :
            /\ Stream(live, OwedTo) = (IF take THEN OwedTo[Head(live)] ELSE <<>>) \o mid
            /\ Stream(live', OwedTo) = mid \o (IF put THEN OwedTo[x] ELSE <<>>)
    BY <1>8 DEF StreamMoves
  <1>10. (IF put THEN OwedTo[x] ELSE <<>>) = NewResults(n)
    <2>1. CASE n > 0
      <3>1. put /\ x \in Saved
        BY <1>2, <1>4, <2>1 DEF put
      <3>2. OwedTo[x] = Results(x.call, x.count)
        BY <3>1 DEF OwedTo
      <3> QED BY <2>1, <3>1, <3>2 DEF x, SavedCall, NewResults
    <2>2. CASE n = 0
      <3>1. put /\ x \in Saved
        BY <1>2, <1>4, <2>2 DEF put
      <3>2. OwedTo[x] = Results(nextCall, 0)
        BY <2>2, <3>1 DEF OwedTo, x, SavedCall
      <3>3. Results(nextCall, 0) = <<>>
        BY NoResults
      <3> QED BY <2>2, <3>1, <3>2, <3>3 DEF NewResults
    <2>3. CASE n < 0
      BY <1>2, <2>3 DEF put, NewResults
    <2> QED BY <1>2, <2>1, <2>2, <2>3
  <1>11. (IF take THEN OwedTo[Head(live)] ELSE <<>>) = Completed(o)
    BY DEF take, Completed
  <1>12. OwedBy(live) = Stream(live, OwedTo) /\ OwedBy(live') = Stream(live', OwedTo)
    BY <1>6, <1>8, OwedStream
  <1> QED BY <1>8, <1>9, <1>10, <1>11, <1>12

(* The entry of a new call with n > 0 threads. *)
LEMMA EntryType ==
    ASSUME PowersOfTwo, nextCall \in Call, NEW n \in 1..2^COUNTER_WIDTH
    PROVE  /\ Entry(n) \in Launch
           /\ Entry(n).max_thread_id = n - 1 /\ (Entry(n).only_one_thread <=> n = 1)
           /\ StartedFor[Entry(n)] = Results(nextCall, n)
  <1> DEFINE d == 2^COUNTER_WIDTH
             m == n - 1
  <1>1. d \in Nat /\ d > 0 /\ m \in 0..(2 * d - 1) /\ m < d /\ m \in 0..(d - 1) /\ m + 1 = n
    BY CounterWidth
  <1>2. m % d = m
    <2> HIDE DEF m, d
    <2> QED BY <1>1, Remainder
  <1>3. Wrap(n - 1, COUNTER_WIDTH) = m
    BY <1>2 DEF Wrap
  <1>4. Entry(n) = [call |-> nextCall, max_thread_id |-> m, only_one_thread |-> n = 1]
    BY <1>3 DEF Entry
  <1>5. Entry(n) \in Launch
    BY <1>1, <1>4 DEF Launch, ThreadId
  <1>6. StartedFor[Entry(n)] = Results(nextCall, m + 1)
    BY <1>4, <1>5 DEF StartedFor
  <1>7. Entry(n).max_thread_id = n - 1
    BY <1>4
  <1>8. Entry(n).only_one_thread <=> n = 1
    <2> DEFINE b == n = 1
    <2>1. Entry(n) = [call |-> nextCall, max_thread_id |-> m, only_one_thread |-> b]
      BY <1>4
    <2> HIDE DEF b
    <2>2. Entry(n).only_one_thread = b
      BY <2>1
    <2> QED BY <2>2, Zenon DEF b
  <1>9. StartedFor[Entry(n)] = Results(nextCall, n)
    <2> HIDE DEF m, d
    <2> QED BY <1>1, <1>6, Zenon
  <1> QED BY <1>5, <1>7, <1>8, <1>9

(* The thread counter. *)
LEMMA CountEdge ==
    ASSUME PowersOfTwo, NEW n, NEW r, NEW e, NEW o, Edge(n, r, e, o)
    PROVE  /\ ~r => current_count' = current_count
           /\ LastThread(r) => current_count' = 0 /\ current_count = Head(calls).max_thread_id
           /\ r /\ ~LastThread(r) =>
                 /\ current_count' = current_count + 1
                 /\ current_count < Head(calls).max_thread_id
                 /\ current_count_plus_one = current_count + 1
           /\ r => calls # <<>> /\ current_count <= Head(calls).max_thread_id
  <1>1. /\ TypeOK /\ CounterExact /\ r \in BOOLEAN /\ CountThread(r) /\ (r => calls # <<>>)
    BY DEF Edge, IInv, Cycle
  <1>2. ~r => current_count' = current_count
    BY <1>1 DEF CountThread
  <1>3. r => /\ current_count <= Head(calls).max_thread_id
             /\ count_reached <=> current_count = Head(calls).max_thread_id
    BY <1>1 DEF CounterExact
  <1>4. LastThread(r) => current_count' = 0 /\ current_count = Head(calls).max_thread_id
    BY <1>1, <1>3 DEF CountThread, LastThread
  <1>5. ASSUME r /\ ~LastThread(r)
        PROVE  /\ current_count' = current_count + 1
               /\ current_count < Head(calls).max_thread_id
               /\ current_count_plus_one = current_count + 1
    <2> DEFINE d == 2^COUNTER_WIDTH
               c == current_count
               m == Head(calls).max_thread_id
    <2>1. d \in Nat /\ d >= 2
      BY CounterWidth
    <2>2. c \in 0..(d - 1) /\ m \in 0..(d - 1)
      <3>1. Head(calls) \in Launch
        BY <1>1, <1>5, Registers
      <3> QED BY <1>1, <3>1 DEF TypeOK, Launch, ThreadId
    <2>3. ~count_reached /\ c # m /\ c <= m
      BY <1>3, <1>5 DEF LastThread
    <2>4. current_count' = (c + 1) % d
      BY <1>1, <1>5, <2>3 DEF CountThread, Wrap
    <2>5. current_count_plus_one = (c + 1) % d
      BY <1>1 DEF CounterExact, Wrap
    <2> HIDE DEF d, c, m
    <2>6. c < m /\ c + 1 \in 0..(2 * d - 1) /\ c + 1 < d /\ d > 0
      BY <2>1, <2>2, <2>3
    <2>7. (c + 1) % d = c + 1
      BY <2>1, <2>6, Remainder
    <2> QED BY <2>4, <2>5, <2>6, <2>7 DEF c, m
  <1> QED BY <1>1, <1>2, <1>3, <1>4, <1>5

(* The next thread to start is the one the counter names. *)
LEMMA NextThread ==
    ASSUME PowersOfTwo, TypeOK, CounterExact
    PROVE  /\ current_count \in 0..Len(StartedBy(calls))
           /\ calls # <<>> => /\ current_count \in 0..(Len(StartedBy(calls)) - 1)
                              /\ StartedBy(calls)[current_count + 1] = StartedThread
                              /\ StartedThread \in Result
                              /\ StartedFor[Head(calls)] \in Seq(Result)
                              /\ Len(StartedFor[Head(calls)]) = Head(calls).max_thread_id + 1
  <1> DEFINE T == StartedBy(calls)
             c == current_count
             h == Head(calls)
             f == StartedFor[h]
  <1>1. calls \in Seq(Launch) /\ c \in Nat
    BY Registers
  <1>2. T = Stream(calls, StartedFor) /\ T \in Seq(Result) /\ Len(T) \in Nat
    BY <1>1, StartedStream, LenProperties
  <1>3. CASE calls = <<>>
    <2>1. c = 0
      BY <1>3 DEF CounterExact
    <2> HIDE DEF T, c
    <2> QED BY <1>2, <1>3, <2>1 DEF T, c
  <1>4. CASE calls # <<>>
    <2>1. h \in Launch /\ Tail(calls) \in Seq(Launch)
      BY <1>1, <1>4, HeadTailProperties
    <2>2. h.call \in Call /\ h.max_thread_id + 1 \in 0..2^COUNTER_WIDTH /\ h.max_thread_id \in Nat
      BY <2>1, CounterWidth DEF Launch, ThreadId
    <2>3. c <= h.max_thread_id /\ c \in ThreadId
      BY <1>4 DEF CounterExact, TypeOK
    <2>4. f = Results(h.call, h.max_thread_id + 1)
      BY <2>1 DEF StartedFor
    <2>5. /\ f \in Seq(Result) /\ Len(f) = h.max_thread_id + 1
          /\ \A k \in 1..(h.max_thread_id + 1) : f[k] = [call |-> h.call, thread |-> k - 1]
      BY <2>2, <2>4, ResultsType
    <2>6. c + 1 \in 1..(h.max_thread_id + 1) /\ (c + 1) - 1 = c
      BY <1>1, <2>2, <2>3
    <2>7. f[c + 1] = StartedThread
      BY <2>5, <2>6 DEF StartedThread
    <2> DEFINE t == Stream(Tail(calls), StartedFor)
    <2>8. t \in Seq(Result) /\ T = f \o t
      BY <1>1, <1>2, <1>4, <2>1, StartedForType, RowOfType, StreamTake
    <2>9. Len(t) \in Nat
      BY <2>8, LenProperties
    <2>10. StartedThread \in Result
      BY <2>2, <2>3 DEF StartedThread, Result
    <2> DEFINE m == h.max_thread_id
    <2>11. m \in Nat /\ Len(f) = m + 1 /\ c \in Nat /\ c <= m /\ f \in Seq(Result)
      BY <1>1, <2>2, <2>3, <2>5
    <2>12. f[c + 1] = StartedThread
      BY <2>7
    <2> HIDE DEF f, t, T, c, m, h
    <2>13. /\ Len(f \o t) = Len(f) + Len(t)
           /\ \A i \in 1..(Len(f) + Len(t)) : (f \o t)[i] = IF i <= Len(f) THEN f[i] ELSE t[i - Len(f)]
      BY <2>8, <2>11, ConcatProperties
    <2>14. c + 1 \in 1..(Len(f) + Len(t)) /\ c + 1 <= Len(f)
      BY <2>9, <2>11
    <2>15. T[c + 1] = StartedThread
      BY <2>8, <2>12, <2>13, <2>14
    <2>16. c \in 0..(Len(T) - 1) /\ c \in 0..Len(T)
      BY <2>8, <2>9, <2>11, <2>13
    <2> QED BY <1>4, <2>10, <2>11, <2>15, <2>16 DEF T, c, f, h, m
  <1> QED BY <1>3, <1>4

(* The loop generator's threads still to start lose the one that is        *)
(* started at their front and gain the new call's at their end.            *)
Started(r) == IF r THEN <<StartedThread>> ELSE <<>>

LEMMA StartEdge ==
    ASSUME PowersOfTwo, NEW n, NEW r, NEW e, NEW o, Edge(n, r, e, o)
    PROVE  /\ calls' \in Seq(Launch) /\ Started(r) \in Seq(Result)
           /\ NewResults(n) \in Seq(Result)
           /\ \E mid \in Seq(Result) :
                 /\ Drop(StartedBy(calls), current_count) = Started(r) \o mid
                 /\ Drop(StartedBy(calls'), current_count') = mid \o NewResults(n)
  <1> DEFINE take == LastThread(r)
             put == n > 0
             x == Entry(n)
             T == StartedBy(calls)
             T2 == StartedBy(calls')
             c == current_count
             h == StartedFor[Head(calls)]
             new == NewResults(n)
  <1>1. /\ TypeOK /\ CounterExact /\ n \in Counts \cup {-1}
        /\ r \in BOOLEAN /\ (r => calls # <<>>)
    BY DEF Edge, IInv, Cycle
  <1>2. n > 0 => n \in 1..2^COUNTER_WIDTH
    BY <1>1, CounterWidth DEF Counts
  <1>3. take \in BOOLEAN /\ (take => calls # <<>>) /\ (take => r)
    BY <1>1 DEF LastThread, count_reached
  <1>4. calls \in Seq(Launch) /\ nextCall \in Call
    BY <1>1, Registers
  <1>5. put \in BOOLEAN /\ (put => x \in Launch /\ StartedFor[x] = new)
    BY <1>2, <1>4, EntryType DEF NewResults
  <1>6. calls' = After(calls, take, put, x)
    BY DEF Edge, Cycle, After, LoopEntries, LastThread
  <1>7. StartedFor \in [Launch -> Seq(Result)]
    BY StartedForType
  <1>8. new \in Seq(Result)
    <2>1. CASE n > 0
      BY <1>5, <1>7, <2>1
    <2>2. CASE ~(n > 0)
      BY <2>2 DEF NewResults
    <2> QED BY <2>1, <2>2
  <1>9. (IF put THEN StartedFor[x] ELSE <<>>) = new
    BY <1>5 DEF NewResults
  <1> HIDE DEF take, put, x, new
  <1>10. /\ calls' \in Seq(Launch)
         /\ StreamMoves(Stream(calls, StartedFor), Stream(calls', StartedFor),
                        take, StartedFor[Head(calls)], put, StartedFor[x], Result)
    BY <1>3, <1>4, <1>5, <1>6, <1>7, StreamEdge
  <1>11. T = Stream(calls, StartedFor) /\ T2 = Stream(calls', StartedFor)
         /\ T \in Seq(Result) /\ T2 \in Seq(Result)
    BY <1>4, <1>10, StartedStream
  <1>12. PICK mid \in Seq(Result) : /\ T = (IF take THEN h ELSE <<>>) \o mid
                                    /\ T2 = mid \o new
    BY <1>9, <1>10, <1>11 DEF StreamMoves
  <1>13. /\ c \in 0..Len(T)
         /\ calls # <<>> => /\ c \in 0..(Len(T) - 1) /\ T[c + 1] = StartedThread
                            /\ StartedThread \in Result
                            /\ h \in Seq(Result) /\ Len(h) = Head(calls).max_thread_id + 1
    BY <1>1, NextThread
  <1>14. Started(r) \in Seq(Result)
    <2>1. CASE r
      <3>1. StartedThread \in Result
        BY <1>1, <1>13, <2>1
      <3> QED BY <2>1, <3>1 DEF Started
    <2>2. CASE ~r
      BY <2>2 DEF Started
    <2> QED BY <1>1, <2>1, <2>2
  <1>15. ~take => T = mid
    BY <1>12, ConcatEmptySeq
  <1> HIDE DEF T, T2, h, c
  <1>16. Len(T) \in Nat
    BY <1>11, LenProperties
  <1> SUFFICES \E m \in Seq(Result) : /\ Drop(T, c) = Started(r) \o m
                                      /\ Drop(T2, current_count') = m \o new
    BY <1>8, <1>10, <1>14 DEF T, T2, c, new
  <1>17. CASE ~r
    <2>1. current_count' = c /\ ~take
      BY <1>3, <1>17, CountEdge DEF c
    <2>2. T2 = T \o new
      BY <1>12, <1>15, <2>1
    <2>3. Drop(T \o new, c) = Drop(T, c) \o new
      BY <1>8, <1>11, <1>13, DropConcat
    <2>4. Drop(T, c) \in Seq(Result)
      BY <1>11, <1>13, DropType DEF Dropped
    <2>5. Drop(T, c) = Started(r) \o Drop(T, c)
      BY <1>17, <2>4, ConcatEmptySeq DEF Started
    <2> QED BY <2>1, <2>2, <2>3, <2>4, <2>5
  <1>18. CASE r /\ ~take
    <2>1. current_count' = c + 1
      BY <1>18, CountEdge DEF c, take
    <2>2. T2 = T \o new
      BY <1>12, <1>15, <1>18
    <2>3. c \in 0..(Len(T) - 1) /\ T[c + 1] = StartedThread
      BY <1>1, <1>13, <1>18
    <2>4. c + 1 \in 0..Len(T)
      BY <1>16, <2>3
    <2>5. Drop(T \o new, c + 1) = Drop(T, c + 1) \o new
      BY <1>8, <1>11, <2>4, DropConcat
    <2>6. Drop(T, c) = <<T[c + 1]>> \o Drop(T, c + 1)
      BY <1>11, <2>3, DropNext
    <2>7. Drop(T, c + 1) \in Seq(Result)
      BY <1>11, <2>4, DropType DEF Dropped
    <2>8. Started(r) = <<T[c + 1]>>
      BY <1>18, <2>3 DEF Started
    <2> QED BY <2>1, <2>2, <2>5, <2>6, <2>7, <2>8
  <1>19. CASE r /\ take
    <2>1. current_count' = 0 /\ c = Head(calls).max_thread_id
      BY <1>19, CountEdge DEF c, take
    <2>2. T = h \o mid /\ h \in Seq(Result) /\ Len(h) = c + 1
      BY <1>3, <1>12, <1>13, <1>19, <2>1
    <2>3. c \in 0..(Len(T) - 1) /\ T[c + 1] = StartedThread
      BY <1>1, <1>13, <1>19
    <2>4. Drop(T, c) = <<T[c + 1]>> \o Drop(T, c + 1)
      BY <1>11, <2>3, DropNext
    <2>5. Drop(h \o mid, Len(h)) = mid
      BY <2>2, DropAll
    <2>6. Drop(T, c + 1) = mid
      BY <2>2, <2>5
    <2>7. Drop(T2, 0) = T2
      BY <1>11, DropNone
    <2>8. Started(r) = <<T[c + 1]>>
      BY <1>19, <2>3 DEF Started
    <2> QED BY <1>12, <2>1, <2>4, <2>6, <2>7, <2>8
  <1> QED BY <1>1, <1>17, <1>18, <1>19
-----------------------------------------------------------------------------
(* The stream at a clock edge: u was claimed from, kh is read, mk is left  *)
(* with the callee, st is started, md remains to start; p is completed, m  *)
(* is still owed, and y is new.                                            *)
Kept(u, mk, st, md, m, y) == (u \o (mk \o st)) \o (md \o y) = m \o y

LEMMA CutStream ==
    ASSUME NEW S, NEW u \in Seq(S), NEW kh \in Seq(S), NEW mk \in Seq(S), NEW st \in Seq(S),
           NEW md \in Seq(S), NEW p \in Seq(S), NEW m \in Seq(S), NEW y \in Seq(S),
           (u \o (kh \o mk)) \o (st \o md) = p \o m, Len(p) <= Len(u \o kh)
    PROVE  Kept(Drop(u \o kh, Len(p)), mk, st, md, m, y)
  <1> DEFINE F == u \o kh
             K == mk \o st
             D == st \o md
             X == K \o md
             U == Drop(F, Len(p))
             UK == U \o K
  <1>1. F \in Seq(S) /\ K \in Seq(S) /\ D \in Seq(S)
    OBVIOUS
  <1>2. X \in Seq(S)
    BY <1>1, ConcatProperties
  <1>3. Len(p) \in 0..Len(F)
    BY <1>1, LenProperties
  <1>4. U \in Seq(S)
    BY <1>1, <1>3, DropType DEF Dropped
  <1>5. UK \in Seq(S)
    BY <1>1, <1>4, ConcatProperties
  <1>6. Brackets(u, kh, mk) /\ Brackets(mk, st, md)
    BY Associates
  <1>7. F \o mk = u \o (kh \o mk) /\ X = mk \o D
    BY <1>6 DEF Brackets
  <1> HIDE DEF F, K, D, X, U, UK
  <1>8. Brackets(F, mk, D) /\ Brackets(U, K, md) /\ Brackets(UK, md, y)
    BY <1>1, <1>4, <1>5, Associates
  <1>9. F \o X = p \o m
    <2>1. (F \o mk) \o D = p \o m
      BY <1>7 DEF D
    <2>2. (F \o mk) \o D = F \o (mk \o D)
      BY <1>8 DEF Brackets
    <2> QED BY <1>7, <2>1, <2>2
  <1>10. U \o X = m
    <2>1. Len(p) <= Len(F)
      BY <1>1, <1>3, LenProperties
    <2>2. SameStream(F, X, p, m)
      BY <1>9 DEF SameStream
    <2>3. CutsOff(F, X, p, m)
      BY <1>1, <1>2, <2>1, <2>2, CutOff
    <2> QED BY <2>3 DEF U, CutsOff
  <1>11. UK \o md = U \o (K \o md)
    BY <1>8 DEF Brackets, UK
  <1>12. (UK \o md) \o y = UK \o (md \o y)
    BY <1>8 DEF Brackets
  <1>13. UK \o (md \o y) = m \o y
    BY <1>10, <1>11, <1>12 DEF X
  <1> QED BY <1>13 DEF Kept, U, UK, K, F

(* Results that are read move from the callee to the context saver. *)
LEMMA ReadEdge ==
    ASSUME PowersOfTwo, NEW n, NEW r, NEW e, NEW o, Edge(n, r, e, o)
    PROVE  /\ rd(e) \in BOOLEAN /\ (rd(e) => callee # <<>> /\ Head(callee) \in Result)
           /\ Fetched(e) \in Seq(Result)
           /\ Len(Fetched(e)) = Len(unclaimed) + (IF rd(e) THEN 1 ELSE 0)
           /\ \A i \in 1..Len(unclaimed) : Fetched(e)[i] = unclaimed[i]
           /\ rd(e) => Fetched(e)[Len(unclaimed) + 1] = Head(callee)
           /\ Freed(o) \in 0..Len(Fetched(e))
           /\ unclaimed' = Drop(Fetched(e), Freed(o))
  <1> DEFINE k == IF rd(e) THEN <<Head(callee)>> ELSE <<>>
             u == unclaimed
             F == Fetched(e)
  <1>1. /\ TypeOK /\ pending_count_ff = Len(unclaimed) /\ e \in BOOLEAN /\ o \in BOOLEAN
        /\ (~e => callee # <<>>)
    BY DEF Edge, IInv, Cycle
  <1>2. rd(e) \in BOOLEAN /\ (rd(e) => callee # <<>> /\ Head(callee) \in Result)
    BY <1>1, Registers DEF rd, callee_rden_out
  <1>3. k \in Seq(Result) /\ Len(k) = (IF rd(e) THEN 1 ELSE 0)
    BY <1>2
  <1>4. rd(e) => k[1] = Head(callee)
    OBVIOUS
  <1>5. u \in Seq(Result) /\ Len(u) \in Nat
    BY <1>1, Registers, LenProperties
  <1>6. F = u \o k
    BY DEF Fetched
  <1> HIDE DEF k, u, F
  <1>7. /\ F \in Seq(Result) /\ Len(F) = Len(u) + Len(k)
        /\ \A i \in 1..(Len(u) + Len(k)) : F[i] = IF i <= Len(u) THEN u[i] ELSE k[i - Len(u)]
    BY <1>3, <1>5, <1>6, ConcatProperties
  <1>8. Freed(o) \in Nat /\ Freed(o) <= Len(u)
    BY <1>1, FreedType DEF u
  <1>9. Len(k) \in Nat
    BY <1>3
  <1>10. \A i \in 1..Len(u) : F[i] = u[i]
    BY <1>5, <1>7, <1>9
  <1>11. ASSUME rd(e) PROVE F[Len(u) + 1] = Head(callee)
    <2>1. Len(k) = 1 /\ Len(u) + 1 \in 1..(Len(u) + Len(k)) /\ ~(Len(u) + 1 <= Len(u))
          /\ (Len(u) + 1) - Len(u) = 1
      BY <1>3, <1>5, <1>11
    <2> QED BY <1>4, <1>7, <1>11, <2>1
  <1>12. Freed(o) \in 0..Len(F)
    BY <1>5, <1>7, <1>8, <1>9
  <1>13. unclaimed' = Drop(F, Freed(o))
    BY DEF Edge, Cycle, Drop, F, Fetched, Freed, rd, done
  <1> QED BY <1>2, <1>3, <1>7, <1>10, <1>11, <1>12, <1>13 DEF F, u

(* Hence the stream stays exact. *)
LEMMA StreamStep ==
    ASSUME PowersOfTwo, NEW n, NEW r, NEW e, NEW o, Edge(n, r, e, o)
    PROVE  /\ callee' \in Seq(Result)
           /\ (unclaimed' \o callee') \o Drop(StartedBy(calls'), current_count') = OwedBy(live')
  <1> DEFINE kh == IF rd(e) THEN <<Head(callee)>> ELSE <<>>
             mk == IF rd(e) THEN Tail(callee) ELSE callee
             st == Started(r)
             D == Drop(StartedBy(calls), current_count)
             y == NewResults(n)
             p == Completed(o)
             u == unclaimed
  <1>1. /\ TypeOK /\ pending_count_ff = Len(unclaimed) /\ o \in BOOLEAN /\ StreamExact
    BY DEF Edge, IInv
  <1>2. u \in Seq(Result) /\ callee \in Seq(Result)
    BY <1>1, Registers
  <1>3. rd(e) \in BOOLEAN /\ (rd(e) => callee # <<>> /\ Head(callee) \in Result)
    BY ReadEdge
  <1>4. kh \in Seq(Result) /\ mk \in Seq(Result) /\ callee = kh \o mk
    <2>1. CASE rd(e)
      <3>1. Tail(callee) \in Seq(Result) /\ callee = <<Head(callee)>> \o Tail(callee)
        BY <1>2, <1>3, <2>1, HeadTailProperties, HeadTail
      <3> QED BY <1>3, <2>1, <3>1
    <2>2. CASE ~rd(e)
      BY <1>2, <2>2, ConcatEmptySeq
    <2> QED BY <1>3, <2>1, <2>2
  <1>5. callee' = mk \o st
    BY DEF Edge, Cycle, rd, Started
  <1>6. /\ st \in Seq(Result) /\ y \in Seq(Result)
        /\ \E md \in Seq(Result) : /\ D = st \o md
                                   /\ Drop(StartedBy(calls'), current_count') = md \o y
    BY StartEdge
  <1>7. PICK md \in Seq(Result) : /\ D = st \o md
                                  /\ Drop(StartedBy(calls'), current_count') = md \o y
    BY <1>6
  <1>8. PICK m \in Seq(Result) : OwedBy(live) = p \o m /\ OwedBy(live') = m \o y
    BY OwedEdge
  <1>9. p \in Seq(Result) /\ Len(p) = Freed(o)
    BY <1>1, CompletedType
  <1>10. (u \o callee) \o D = OwedBy(live)
    BY <1>1, Registers DEF StreamExact, Drop
  <1>11. /\ Fetched(e) = u \o kh
         /\ Freed(o) \in 0..Len(Fetched(e)) /\ unclaimed' = Drop(Fetched(e), Freed(o))
         /\ Fetched(e) \in Seq(Result)
    BY ReadEdge DEF Fetched
  <1> HIDE DEF kh, mk, st, D, y, p, u
  <1>12. (u \o (kh \o mk)) \o (st \o md) = p \o m
    BY <1>4, <1>7, <1>8, <1>10
  <1>13. Len(p) <= Len(u \o kh)
    <2>1. Len(u \o kh) \in Nat
      BY <1>11, LenProperties
    <2> QED BY <1>9, <1>11, <2>1
  <1>14. Kept(Drop(u \o kh, Len(p)), mk, st, md, m, y)
    BY <1>2, <1>4, <1>6, <1>9, <1>12, <1>13, CutStream
  <1>15. unclaimed' = Drop(u \o kh, Len(p))
    BY <1>9, <1>11
  <1>16. (unclaimed' \o (mk \o st)) \o (md \o y) = m \o y
    BY <1>14, <1>15 DEF Kept
  <1>17. mk \o st \in Seq(Result)
    BY <1>4, <1>6, ConcatProperties
  <1> QED BY <1>5, <1>7, <1>8, <1>16, <1>17
-----------------------------------------------------------------------------
(* What was read and what the callee holds is part of what is owed. *)
LEMMA StreamBound ==
    ASSUME PowersOfTwo, NEW u \in Seq(Result), NEW k \in Seq(Result), NEW d \in Seq(Result),
           NEW l \in Seq(Saved), Len(l) <= MAX_THREADS, (u \o k) \o d = OwedBy(l)
    PROVE  /\ Len(u) \in Nat /\ Len(k) \in Nat
           /\ Len(u) + Len(k) <= 2^COUNTER_WIDTH * MAX_THREADS
  <1> DEFINE uk == u \o k
             t == OwedBy(l)
  <1>1. Len(u) \in Nat /\ Len(k) \in Nat /\ Len(d) \in Nat
    BY LenProperties
  <1>2. uk \in Seq(Result) /\ Len(uk) = Len(u) + Len(k)
    BY ConcatProperties
  <1> HIDE DEF uk
  <1>3. Len(uk \o d) = Len(uk) + Len(d)
    BY <1>2, ConcatProperties
  <1>4. Len(t) <= 2^COUNTER_WIDTH * MAX_THREADS
    BY OwedLength
  <1>5. Len(t) = Len(u) + Len(k) + Len(d)
    BY <1>1, <1>2, <1>3 DEF uk
  <1>6. 2^COUNTER_WIDTH * MAX_THREADS \in Nat
    BY CounterWidth
  <1> HIDE DEF t
  <1> QED BY <1>1, <1>4, <1>5, <1>6

(* A started call is one of at most MAX_THREADS. *)
LEMMA LiveLength ==
    ASSUME PowersOfTwo, NEW n, NEW r, NEW e, NEW o, Edge(n, r, e, o)
    PROVE  Len(live') <= MAX_THREADS
  <1>1. /\ TypeOK /\ pending_count_ff = Len(unclaimed) /\ n \in Counts \cup {-1} /\ o \in BOOLEAN
        /\ n >= 0 => Len(live) < MAX_THREADS
    BY DEF Edge, IInv, Cycle
  <1> DEFINE a == IF done(o) THEN Tail(live) ELSE live
             b == IF n >= 0 THEN <<SavedCall(n)>> ELSE <<>>
             E == [call : Call, count : Int]
  <1>2. live' = a \o b
    BY DEF Edge, Cycle, done, SavedCall
  <1>3. n \in Int /\ Counts \subseteq Int
    BY <1>1, CounterWidth DEF Counts
  <1>4. live \in Seq(Saved) /\ Len(live) \in Nat /\ Len(live) <= MAX_THREADS /\ nextCall \in Call
    BY <1>1, Registers, LenProperties
  <1>5. Saved \subseteq E
    BY CounterWidth DEF Saved
  <1>6. live \in Seq(E)
    <2> HIDE DEF E
    <2> QED BY <1>4, <1>5
  <1>7. SavedCall(n) \in E
    BY <1>3, <1>4 DEF SavedCall
  <1>8. done(o) => live # <<>>
    BY <1>1, FreedType
  <1> HIDE DEF E
  <1>9. a \in Seq(E) /\ Len(a) <= Len(live) /\ Len(a) \in Nat
    <2>1. CASE done(o)
      <3>1. Tail(live) \in Seq(E) /\ Len(Tail(live)) = Len(live) - 1
        BY <1>6, <1>8, <2>1, HeadTailProperties
      <3>2. Len(Tail(live)) \in Nat
        BY <3>1, LenProperties
      <3> QED BY <1>4, <2>1, <3>1, <3>2
    <2>2. CASE ~done(o)
      BY <1>4, <1>6, <2>2
    <2> QED BY <2>1, <2>2
  <1>10. CASE n >= 0
    <2>1. b \in Seq(E) /\ Len(b) = 1
      BY <1>7, <1>10
    <2> HIDE DEF a, b
    <2>2. Len(a \o b) = Len(a) + Len(b)
      BY <1>9, <2>1, ConcatProperties
    <2> QED BY <1>1, <1>2, <1>4, <1>9, <1>10, <2>1, <2>2
  <1>11. CASE ~(n >= 0)
    <2>1. b = <<>>
      BY <1>11
    <2> HIDE DEF a, b
    <2>2. a \o <<>> = a
      BY <1>9, ConcatEmptySeq
    <2> QED BY <1>2, <1>4, <1>9, <2>1, <2>2
  <1> QED BY <1>10, <1>11

(* A result is read only when there is room for it; the count of results   *)
(* that wait never wraps.                                                  *)
LEMMA Room ==
    ASSUME PowersOfTwo, NEW n, NEW r, NEW e, NEW o, Edge(n, r, e, o)
    PROVE  /\ ~CALLEE_VOID_RETURN_TYPE => Len(Fetched(e)) <= RETURN_ARRAY_BUFFER_SIZE
           /\ Len(unclaimed') = Len(Fetched(e)) - Freed(o)
           /\ Len(unclaimed') \in Nat /\ Len(unclaimed') < 2^PENDING_COUNT_WIDTH
           /\ unclaimed' \in Seq(Result)
  <1> DEFINE B == RETURN_ARRAY_BUFFER_SIZE
             F == Fetched(e)
             u == unclaimed
  <1>1. /\ TypeOK /\ pending_count_ff = Len(unclaimed) /\ BufferExact
    BY DEF Edge, IInv
  <1>2. /\ rd(e) \in BOOLEAN /\ F \in Seq(Result)
        /\ Len(F) = Len(u) + (IF rd(e) THEN 1 ELSE 0)
        /\ Freed(o) \in 0..Len(F) /\ unclaimed' = Drop(F, Freed(o))
    BY ReadEdge
  <1>3. Len(u) \in Nat /\ Len(F) \in Nat
    BY <1>1, <1>2, Registers, LenProperties
  <1>4. Dropped(Drop(F, Freed(o)), F, Freed(o), Result)
    BY <1>2, DropType
  <1>5. unclaimed' \in Seq(Result) /\ Len(unclaimed') = Len(F) - Freed(o) /\ Len(unclaimed') \in Nat
    BY <1>2, <1>3, <1>4 DEF Dropped
  <1>6. B = RETURN_ELEMENT_COUNT + 1 /\ B \in Nat
    BY DEF RETURN_ARRAY_BUFFER_SIZE
  <1>7. ASSUME ~CALLEE_VOID_RETURN_TYPE PROVE Len(F) <= B
    <2>1. Len(u) <= B
      BY <1>1, <1>7 DEF BufferExact
    <2>2. CASE rd(e)
      <3>1. Len(u) < B
        BY <1>1, <1>7, <2>2 DEF rd, callee_rden_out, PENDING_COUNT_THRESHOLD
      <3> HIDE DEF B, F, u
      <3> QED BY <1>2, <1>3, <1>6, <2>2, <3>1
    <2>3. CASE ~rd(e)
      <3> HIDE DEF B, F, u
      <3> QED BY <1>2, <1>3, <2>1, <2>3
    <2> QED BY <2>2, <2>3
  <1>8. Len(unclaimed') < 2^PENDING_COUNT_WIDTH
    <2> DEFINE Q == 2^PENDING_COUNT_WIDTH
               C == 2^COUNTER_WIDTH * MAX_THREADS
    <2>1. /\ Q \in Nat /\ (CALLEE_VOID_RETURN_TYPE => Q >= 2 * C)
          /\ (~CALLEE_VOID_RETURN_TYPE => Q >= RETURN_ELEMENT_COUNT + 2)
      BY PendingWidth
    <2>2. CASE CALLEE_VOID_RETURN_TYPE
      <3>1. callee' \in Seq(Result)
            /\ (unclaimed' \o callee') \o Drop(StartedBy(calls'), current_count') = OwedBy(live')
        BY StreamStep
      <3>2. live' \in Seq(Saved) /\ Len(live') <= MAX_THREADS
        BY OwedEdge, LiveLength
      <3>3. Drop(StartedBy(calls'), current_count') \in Seq(Result)
        <4>1. PICK mid \in Seq(Result) :
                  Drop(StartedBy(calls'), current_count') = mid \o NewResults(n)
          BY StartEdge
        <4>2. NewResults(n) \in Seq(Result)
          BY StartEdge
        <4> QED BY <4>1, <4>2, ConcatProperties
      <3>4. Len(unclaimed') + Len(callee') <= C /\ Len(callee') \in Nat
        BY <1>5, <3>1, <3>2, <3>3, StreamBound
      <3>5. C \in Nat /\ C >= 1
        <4> DEFINE P == 2^COUNTER_WIDTH
        <4>1. P \in Nat /\ P >= 2
          BY CounterWidth
        <4> HIDE DEF P
        <4>2. P * MAX_THREADS \in Nat /\ P * MAX_THREADS >= 1
          BY <4>1
        <4> QED BY <4>2 DEF P
      <3> HIDE DEF Q, C
      <3>6. Len(unclaimed') < Q
        BY <1>5, <2>1, <2>2, <3>4, <3>5
      <3> QED BY <3>6 DEF Q
    <2>3. CASE ~CALLEE_VOID_RETURN_TYPE
      <3>1. Q >= RETURN_ELEMENT_COUNT + 2 /\ Len(F) <= B
        BY <1>7, <2>1, <2>3
      <3> HIDE DEF Q, B, F
      <3>2. Len(unclaimed') < Q
        BY <1>2, <1>3, <1>5, <1>6, <2>1, <3>1
      <3> QED BY <3>2 DEF Q
    <2> QED BY <2>2, <2>3
  <1> QED BY <1>5, <1>7, <1>8

(* Hence the count stays the number of results that wait. *)
LEMMA PendingStep ==
    ASSUME PowersOfTwo, NEW n, NEW r, NEW e, NEW o, Edge(n, r, e, o)
    PROVE  pending_count_ff' = Len(unclaimed')
  <1> DEFINE d == 2^PENDING_COUNT_WIDTH
             m == Len(unclaimed')
             k == IF rd(e) THEN 1 ELSE 0
  <1>1. pending_count_ff = Len(unclaimed)
    BY DEF Edge, IInv
  <1>2. pending_count_ff' = (pending_count_ff + k - Freed(o)) % d
    BY DEF Edge, Cycle, Wrap, rd, Freed, done
  <1>3. Len(Fetched(e)) = Len(unclaimed) + k
    BY ReadEdge
  <1>4. m = Len(Fetched(e)) - Freed(o) /\ m \in Nat /\ m < d
    BY Room
  <1>5. d \in Nat
    BY PendingWidth
  <1>10. TypeOK /\ o \in BOOLEAN /\ k \in Nat
    BY DEF Edge, IInv
  <1>11. Len(unclaimed) \in Nat /\ Freed(o) \in Nat
    BY <1>1, <1>10, Registers, FreedType, LenProperties
  <1> HIDE DEF d, m, k
  <1>6. m = pending_count_ff + k - Freed(o)
    BY <1>1, <1>3, <1>4, <1>10, <1>11
  <1>7. d > 0 /\ m \in 0..(2 * d - 1)
    BY <1>4, <1>5
  <1>8. m % d = m
    BY <1>4, <1>5, <1>7, Remainder
  <1>9. pending_count_ff' = m % d
    BY <1>2, <1>6
  <1> QED BY <1>8, <1>9 DEF m

(* The array: what is read goes behind what waits, and a call that         *)
(* completes shifts the others down, never past the array's end.           *)
LEMMA FilledExact ==
    ASSUME PowersOfTwo, NEW n, NEW r, NEW e, NEW o, Edge(n, r, e, o), ~CALLEE_VOID_RETURN_TYPE
    PROVE  /\ Filled(rd(e)) \in [Slots -> Result \cup {NoResult}]
           /\ \A k \in 1..Len(Fetched(e)) : Filled(rd(e))[k - 1] = Fetched(e)[k]
  <1> DEFINE B == RETURN_ARRAY_BUFFER_SIZE
             F == Fetched(e)
             u == unclaimed
             a == returnArrayBuffer_ff
             l == Len(u)
  <1>1. /\ TypeOK /\ pending_count_ff = l /\ BufferExact
    BY DEF Edge, IInv
  <1>2. /\ rd(e) \in BOOLEAN /\ (rd(e) => Head(callee) \in Result)
        /\ Len(F) = l + (IF rd(e) THEN 1 ELSE 0)
        /\ \A i \in 1..l : F[i] = u[i]
        /\ rd(e) => F[l + 1] = Head(callee)
    BY ReadEdge
  <1>3. l \in Nat
    BY <1>1, Registers, LenProperties
  <1>4. a \in [Slots -> Result \cup {NoResult}] /\ \A k \in 1..l : a[k - 1] = u[k]
    BY <1>1 DEF TypeOK, BufferExact
  <1>5. B \in Nat /\ Slots = 0..(B - 1) /\ Len(F) <= B
    BY Room DEF RETURN_ARRAY_BUFFER_SIZE, Slots
  <1>6. CASE rd(e)
    <2>1. Len(F) = l + 1 /\ l \in Slots
      <3> HIDE DEF l, B, F
      <3> QED BY <1>2, <1>3, <1>5, <1>6
    <2>2. Filled(rd(e)) = [a EXCEPT ![l] = Head(callee)]
      BY <1>1, <1>6, <2>1 DEF Filled
    <2> DEFINE x == Head(callee)
    <2>3. x \in Result \cup {NoResult}
      BY <1>2, <1>6
    <2> HIDE DEF l, B, F, a, u, x
    <2>4. [a EXCEPT ![l] = x] \in [Slots -> Result \cup {NoResult}]
      BY <1>4, <2>3
    <2>5. ASSUME NEW k \in 1..Len(F) PROVE [a EXCEPT ![l] = x][k - 1] = F[k]
      <3>1. k - 1 \in Slots /\ k \in Nat
        BY <1>3, <1>5, <2>1
      <3>2. CASE k = l + 1
        <4>1. k - 1 = l /\ F[k] = x
          BY <1>2, <1>3, <1>6, <3>2 DEF x
        <4> QED BY <1>4, <2>1, <4>1
      <3>3. CASE k # l + 1
        <4>1. k - 1 # l /\ k \in 1..l
          BY <1>3, <2>1, <3>1, <3>3
        <4>2. [a EXCEPT ![l] = x][k - 1] = a[k - 1]
          BY <1>4, <3>1, <4>1
        <4> QED BY <1>2, <1>4, <4>1, <4>2
      <3> QED BY <3>2, <3>3
    <2> QED BY <2>2, <2>4, <2>5 DEF x, F
  <1>7. CASE ~rd(e)
    <2>1. Len(F) = l
      <3> HIDE DEF l, F
      <3> QED BY <1>2, <1>3, <1>7
    <2>2. Filled(rd(e)) = a
      BY <1>7 DEF Filled
    <2> HIDE DEF l, F, a, u
    <2>3. \A k \in 1..Len(F) : a[k - 1] = F[k]
      BY <1>2, <1>4, <2>1
    <2> QED BY <1>4, <2>2, <2>3 DEF F
  <1> QED BY <1>2, <1>6, <1>7

(* Hence the array stays what waits, in order. *)
LEMMA BufferStep ==
    ASSUME PowersOfTwo, NEW n, NEW r, NEW e, NEW o, Edge(n, r, e, o)
    PROVE  /\ returnArrayBuffer_ff' \in [Slots -> Result \cup {NoResult}]
           /\ ~CALLEE_VOID_RETURN_TYPE =>
                 /\ Len(unclaimed') <= RETURN_ARRAY_BUFFER_SIZE
                 /\ \A k \in 1..Len(unclaimed') : returnArrayBuffer_ff'[k - 1] = unclaimed'[k]
  <1> DEFINE B == RETURN_ARRAY_BUFFER_SIZE
             F == Fetched(e)
             a == Filled(rd(e))
             f == Freed(o)
             u2 == unclaimed'
             b == returnArrayBuffer_ff'
  <1>1. /\ TypeOK /\ pending_count_ff = Len(unclaimed) /\ o \in BOOLEAN
    BY DEF Edge, IInv
  <1>2. CASE CALLEE_VOID_RETURN_TYPE
    <2>1. returnArrayBuffer_ff' = returnArrayBuffer_ff
      BY <1>2 DEF Edge, Cycle
    <2> QED BY <1>1, <1>2, <2>1 DEF TypeOK
  <1>3. CASE ~CALLEE_VOID_RETURN_TYPE
    <2>1. a \in [Slots -> Result \cup {NoResult}] /\ \A k \in 1..Len(F) : a[k - 1] = F[k]
      BY <1>3, FilledExact
    <2>2. Len(F) <= B /\ Len(u2) = Len(F) - f
      BY <1>3, Room
    <2>3. F \in Seq(Result) /\ f \in 0..Len(F) /\ u2 = Drop(F, f)
      BY ReadEdge
    <2>4. Len(F) \in Nat /\ B \in Nat /\ B = RETURN_ELEMENT_COUNT + 1 /\ Slots = 0..(B - 1)
          /\ f \in Nat
      BY <2>3, LenProperties DEF RETURN_ARRAY_BUFFER_SIZE, Slots
    <2>5. Dropped(u2, F, f, Result)
      BY <2>3, DropType
    <2>6. \A i \in 1..(Len(F) - f) : u2[i] = F[i + f]
      BY <2>5 DEF Dropped
    <2>7. Len(u2) <= B
      <3> HIDE DEF B, F, u2, f
      <3> QED BY <2>2, <2>3, <2>4
    <2>8. CASE ~done(o)
      <3>1. b = a
        BY <1>3, <2>8 DEF Edge, Cycle, rd, done
      <3>2. f = 0
        BY <2>8 DEF Freed
      <3> HIDE DEF B, F, u2, f, a, b
      <3>3. ASSUME NEW k \in 1..Len(u2) PROVE b[k - 1] = u2[k]
        <4>1. k \in 1..Len(F) /\ k \in 1..(Len(F) - f) /\ k + f = k
          BY <2>2, <2>4, <3>2
        <4> QED BY <2>1, <2>6, <3>1, <4>1
      <3> QED BY <1>3, <2>1, <2>7, <3>1, <3>3 DEF b, u2, B
    <2>9. CASE done(o)
      <3>1. b = Shifted(a, f)
        BY <1>3, <2>9 DEF Edge, Cycle, rd, done, Freed
      <3> DEFINE L == Log2RoundUp(B)
                 d == 2^L
                 idx(k) == (k + f) % d
      <3>2. d \in Nat /\ d >= B
        BY <2>4, RoundUp
      <3>3. b = [k \in Slots |-> IF k = RETURN_ELEMENT_COUNT THEN a[k]
                                 ELSE IF idx(k) \in Slots THEN a[idx(k)] ELSE NoResult]
        BY <3>1 DEF Shifted, Wrap
      <3> HIDE DEF B, F, u2, f, a, b, d, idx
      <3>4. b \in [Slots -> Result \cup {NoResult}]
        BY <2>1, <2>4, <3>3
      <3>5. ASSUME NEW k \in 1..Len(u2) PROVE b[k - 1] = u2[k]
        <4> DEFINE j == k - 1
        <4>1. /\ j \in Nat /\ j \in Slots /\ k \in Nat /\ k \in 1..(Len(F) - f)
              /\ j + f < B /\ k + f \in 1..Len(F) /\ (k + f) - 1 = j + f
          BY <2>2, <2>3, <2>4
        <4>2. u2[k] = F[k + f] /\ a[j + f] = F[k + f]
          <5>1. u2[k] = F[k + f]
            BY <2>6, <4>1
          <5>2. a[(k + f) - 1] = F[k + f]
            BY <2>1, <4>1
          <5> HIDE DEF j
          <5> QED BY <4>1, <5>1, <5>2
        <4> HIDE DEF j
        <4>3. CASE j = RETURN_ELEMENT_COUNT
          <5>1. f = 0 /\ j + f = j
            BY <2>4, <4>1, <4>3
          <5>2. b[j] = a[j]
            BY <3>3, <4>1, <4>3
          <5> QED BY <4>2, <5>1, <5>2 DEF j
        <4>4. CASE j # RETURN_ELEMENT_COUNT
          <5>1. d > 0 /\ j + f \in 0..(2 * d - 1) /\ j + f < d /\ j + f \in Slots
            BY <2>4, <3>2, <4>1
          <5>2. (j + f) % d = j + f
            BY <3>2, <5>1, Remainder
          <5>3. idx(j) = j + f
            BY <5>2 DEF idx
          <5>4. b[j] = a[idx(j)]
            BY <3>3, <4>1, <4>4, <5>1, <5>3
          <5> QED BY <4>2, <5>3, <5>4 DEF j
        <4> QED BY <4>3, <4>4
      <3> QED BY <1>3, <2>7, <3>4, <3>5 DEF b, u2, B
    <2> QED BY <2>8, <2>9
  <1> QED BY <1>2, <1>3

(* The thread counter and the entry it counts for. *)
LEMMA CallsEdge ==
    ASSUME PowersOfTwo, NEW n, NEW r, NEW e, NEW o, Edge(n, r, e, o)
    PROVE  /\ \A i \in DOMAIN calls' :
                 calls'[i].only_one_thread <=> calls'[i].max_thread_id = 0
           /\ calls # <<>> /\ ~LastThread(r) => calls' # <<>> /\ Head(calls') = Head(calls)
           /\ calls' # <<>> => calls'[1] = Head(calls') /\ 1 \in DOMAIN calls'
  <1> DEFINE a == IF LastThread(r) THEN Tail(calls) ELSE calls
             b == IF n > 0 THEN <<Entry(n)>> ELSE <<>>
             c2 == calls'
             Good(x) == x.only_one_thread <=> x.max_thread_id = 0
  <1>1. TypeOK /\ CounterExact /\ r \in BOOLEAN /\ (r => calls # <<>>) /\ n \in Counts \cup {-1}
    BY DEF Edge, IInv, Cycle
  <1>2. c2 = a \o b
    BY DEF Edge, Cycle, LoopEntries, LastThread
  <1>3. calls \in Seq(Launch) /\ nextCall \in Call /\ Len(calls) \in Nat /\ DOMAIN calls = 1..Len(calls)
    BY <1>1, Registers, LenProperties
  <1>4. \A i \in 1..Len(calls) : Good(calls[i])
    BY <1>1, <1>3 DEF CounterExact
  <1>5. n > 0 => Entry(n) \in Launch /\ Good(Entry(n))
    <2> SUFFICES ASSUME n > 0 PROVE Entry(n) \in Launch /\ Good(Entry(n))
      OBVIOUS
    <2>1. n \in 1..2^COUNTER_WIDTH
      BY <1>1, CounterWidth DEF Counts
    <2>2. Entry(n) \in Launch /\ Entry(n).max_thread_id = n - 1 /\ (Entry(n).only_one_thread <=> n = 1)
      BY <1>3, <2>1, EntryType
    <2>3. n - 1 = 0 <=> n = 1
      BY <2>1, CounterWidth
    <2> QED BY <2>2, <2>3
  <1> HIDE DEF Good
  <1>6. a \in Seq(Launch) /\ Len(a) \in Nat /\ \A i \in 1..Len(a) : Good(a[i])
    <2>1. CASE LastThread(r)
      <3>1. calls # <<>>
        BY <1>1, <2>1 DEF LastThread
      <3>2. /\ Tail(calls) \in Seq(Launch) /\ Len(Tail(calls)) = Len(calls) - 1
            /\ \A i \in 1..Len(Tail(calls)) : Tail(calls)[i] = calls[i + 1]
        BY <1>3, <3>1, HeadTailProperties
      <3>3. Len(Tail(calls)) \in Nat
        BY <3>2, LenProperties
      <3>4. \A i \in 1..Len(Tail(calls)) : i + 1 \in 1..Len(calls)
        BY <1>3, <3>2, <3>3
      <3>5. \A i \in 1..Len(Tail(calls)) : Good(Tail(calls)[i])
        BY <1>4, <3>2, <3>4
      <3> QED BY <2>1, <3>2, <3>3, <3>5
    <2>2. CASE ~LastThread(r)
      BY <1>3, <1>4, <2>2
    <2> QED BY <2>1, <2>2
  <1>7. b \in Seq(Launch) /\ Len(b) \in Nat /\ \A i \in 1..Len(b) : Good(b[i])
    <2>1. CASE n > 0
      <3>1. b = <<Entry(n)>> /\ Len(b) = 1 /\ b[1] = Entry(n)
        BY <2>1
      <3> QED BY <1>5, <2>1, <3>1
    <2>2. CASE ~(n > 0)
      <3>1. b = <<>> /\ Len(b) = 0
        BY <2>2
      <3> QED BY <3>1
    <2> QED BY <2>1, <2>2
  <1>8. ~LastThread(r) => a = calls
    OBVIOUS
  <1> HIDE DEF a, b, c2
  <1>9. /\ c2 \in Seq(Launch) /\ Len(c2) = Len(a) + Len(b)
        /\ \A i \in 1..(Len(a) + Len(b)) : c2[i] = IF i <= Len(a) THEN a[i] ELSE b[i - Len(a)]
    BY <1>2, <1>6, <1>7, ConcatProperties
  <1>10. ASSUME NEW i \in 1..Len(c2) PROVE Good(c2[i])
    <2>1. CASE i <= Len(a)
      <3>1. i \in 1..Len(a) /\ i \in 1..(Len(a) + Len(b))
        BY <1>6, <1>7, <1>9, <2>1
      <3> QED BY <1>6, <1>9, <2>1, <3>1
    <2>2. CASE ~(i <= Len(a))
      <3>1. i - Len(a) \in 1..Len(b) /\ i \in 1..(Len(a) + Len(b))
        BY <1>6, <1>7, <1>9, <2>2
      <3> QED BY <1>7, <1>9, <2>2, <3>1
    <2> QED BY <2>1, <2>2
  <1>11. DOMAIN c2 = 1..Len(c2) /\ Len(c2) \in Nat
    BY <1>9, LenProperties
  <1>12. calls # <<>> /\ ~LastThread(r) => c2 # <<>> /\ Head(c2) = Head(calls)
    BY <1>2, <1>3, <1>7, <1>8, HeadTail
  <1>13. c2 # <<>> => c2[1] = Head(c2) /\ 1 \in DOMAIN c2
    <2> SUFFICES ASSUME c2 # <<>> PROVE c2[1] = Head(c2) /\ 1 \in DOMAIN c2
      OBVIOUS
    <2>1. Len(c2) > 0
      BY <1>9, <1>11, EmptySeq
    <2> QED BY <1>9, <1>11, <2>1
  <1> QED BY <1>10, <1>11, <1>12, <1>13 DEF c2, Good

(* The thread counter stays exact. *)
LEMMA CounterStep ==
    ASSUME PowersOfTwo, NEW n, NEW r, NEW e, NEW o, Edge(n, r, e, o)
    PROVE  /\ CounterExact'
           /\ current_count' \in ThreadId /\ current_count_plus_one' \in ThreadId
           /\ thread_id_minus_one_reached' \in BOOLEAN
  <1> DEFINE d == 2^COUNTER_WIDTH
             h == Head(calls)
             h2 == Head(calls')
             cc == current_count
  <1>1. TypeOK /\ CounterExact /\ r \in BOOLEAN /\ (r => calls # <<>>) /\ CountThread(r)
    BY DEF Edge, IInv, Cycle
  <1>2. d \in Nat /\ d >= 2
    BY CounterWidth
  <1>3. ThreadId = 0..(d - 1) /\ cc \in ThreadId /\ cc \in Nat
    BY <1>1, <1>2 DEF ThreadId, TypeOK
  <1>4. /\ \A i \in DOMAIN calls' : calls'[i].only_one_thread <=> calls'[i].max_thread_id = 0
        /\ calls # <<>> /\ ~LastThread(r) => calls' # <<>> /\ h2 = h
        /\ calls' # <<>> => calls'[1] = h2 /\ 1 \in DOMAIN calls'
    BY CallsEdge
  <1>5. calls' # <<>> => h2.only_one_thread = (h2.max_thread_id = 0) /\ h2.max_thread_id \in Nat
    <2>1. calls' # <<>> => h2 \in Launch
      BY StartEdge, HeadTailProperties
    <2>2. calls' # <<>> => (h2.only_one_thread <=> h2.max_thread_id = 0)
      BY <1>4
    <2>3. calls' # <<>> => h2.only_one_thread \in BOOLEAN /\ h2.max_thread_id \in Nat
      BY <1>2, <2>1 DEF Launch, ThreadId
    <2> QED BY <2>2, <2>3
  <1>6. count_reached' = (h2.only_one_thread \/ thread_id_minus_one_reached')
    BY DEF count_reached
  <1> SUFFICES /\ current_count' \in ThreadId /\ current_count_plus_one' \in ThreadId
               /\ thread_id_minus_one_reached' \in BOOLEAN
               /\ current_count_plus_one' = (current_count' + 1) % d
               /\ calls' = <<>> => current_count' = 0 /\ ~thread_id_minus_one_reached'
               /\ calls' # <<>> => /\ current_count' <= h2.max_thread_id
                                   /\ count_reached' <=> current_count' = h2.max_thread_id
    BY <1>4 DEF CounterExact, Wrap
  (* The counter starts a new entry, with or without an old one done. *)
  <1>7. ASSUME current_count' = 0, thread_id_minus_one_reached' = FALSE,
               current_count_plus_one' = 1
        PROVE  /\ current_count' \in ThreadId /\ current_count_plus_one' \in ThreadId
               /\ thread_id_minus_one_reached' \in BOOLEAN
               /\ current_count_plus_one' = (current_count' + 1) % d
               /\ calls' = <<>> => current_count' = 0 /\ ~thread_id_minus_one_reached'
               /\ calls' # <<>> => /\ current_count' <= h2.max_thread_id
                                   /\ count_reached' <=> current_count' = h2.max_thread_id
    <2>1. 0 + 1 = 1 /\ 1 % d = 1
      <3> HIDE DEF d
      <3>1. 1 \in 0..(2 * d - 1) /\ d > 0 /\ 1 < d
        BY <1>2
      <3> QED BY <1>2, <3>1, Remainder
    <2>2. 0 \in ThreadId /\ 1 \in ThreadId
      BY <1>2, <1>3
    <2>3. calls' # <<>> => current_count' <= h2.max_thread_id
      BY <1>5, <1>7
    <2>4. calls' # <<>> => (count_reached' <=> current_count' = h2.max_thread_id)
      <3>1. calls' # <<>> => (count_reached' <=> h2.max_thread_id = 0)
        BY <1>5, <1>6, <1>7
      <3> QED BY <1>7, <3>1
    <2> QED BY <1>7, <2>1, <2>2, <2>3, <2>4
  <1>8. CASE LastThread(r)
    <2>1. /\ current_count' = 0 /\ current_count_plus_one' = 1
          /\ thread_id_minus_one_reached' = FALSE
      BY <1>1, <1>8 DEF CountThread, LastThread
    <2> QED BY <1>7, <2>1
  <1>9. CASE ~r /\ calls = <<>>
    <2>1. /\ current_count' = cc /\ current_count_plus_one' = current_count_plus_one
          /\ thread_id_minus_one_reached' = thread_id_minus_one_reached
      BY <1>1, <1>9 DEF CountThread
    <2>2. cc = 0 /\ thread_id_minus_one_reached = FALSE
      BY <1>1, <1>9 DEF CounterExact, TypeOK
    <2>3. current_count_plus_one = (0 + 1) % d
      BY <1>1, <2>2 DEF CounterExact, Wrap
    <2>4. 0 + 1 = 1 /\ 1 % d = 1
      <3> HIDE DEF d
      <3>1. 1 \in 0..(2 * d - 1) /\ d > 0 /\ 1 < d
        BY <1>2
      <3> QED BY <1>2, <3>1, Remainder
    <2> QED BY <1>7, <2>1, <2>2, <2>3, <2>4
  <1>10. CASE ~r /\ calls # <<>>
    <2>1. /\ current_count' = cc /\ current_count_plus_one' = current_count_plus_one
          /\ thread_id_minus_one_reached' = thread_id_minus_one_reached
      BY <1>1, <1>10 DEF CountThread
    <2>2. ~LastThread(r)
      BY <1>10 DEF LastThread
    <2>3. calls' # <<>> /\ h2 = h
      BY <1>4, <1>10, <2>2
    <2>4. count_reached' = count_reached
      BY <1>6, <2>1, <2>3 DEF count_reached
    <2>5. cc <= h.max_thread_id /\ (count_reached <=> cc = h.max_thread_id)
      BY <1>1, <1>10 DEF CounterExact
    <2>6. current_count_plus_one = (cc + 1) % d /\ current_count_plus_one \in ThreadId
          /\ thread_id_minus_one_reached \in BOOLEAN
      BY <1>1 DEF CounterExact, Wrap, TypeOK
    <2> QED BY <1>3, <2>1, <2>3, <2>4, <2>5, <2>6
  <1>11. CASE r /\ ~LastThread(r)
    <2>1. /\ current_count' = cc + 1 /\ cc < h.max_thread_id
          /\ current_count_plus_one = cc + 1
      BY <1>11, CountEdge
    <2>2. calls # <<>> /\ calls' # <<>> /\ h2 = h
      BY <1>1, <1>4, <1>11
    <2>3. h.max_thread_id \in 0..(d - 1)
      <3>1. h \in Launch
        BY <1>1, <2>2, Registers
      <3> QED BY <1>3, <3>1 DEF Launch
    <2>4. /\ thread_id_minus_one_reached' = (cc + 1 = h.max_thread_id)
          /\ current_count_plus_one' = ((cc + 1) + 1) % d
      BY <1>1, <1>11, <2>1 DEF CountThread, minus_one_reached_next, LastThread, Wrap
    <2>5. ~h2.only_one_thread
      <3>1. h2.max_thread_id # 0
        BY <1>3, <2>1, <2>2, <2>3
      <3> QED BY <1>5, <2>2, <3>1
    <2>6. count_reached' = (cc + 1 = h.max_thread_id)
      BY <1>6, <2>4, <2>5
    <2> DEFINE m == h.max_thread_id
    <2>7. cc \in Nat /\ m \in 0..(d - 1) /\ cc < m
      BY <1>3, <2>1, <2>3
    <2>8. cc + 1 \in 0..(d - 1) /\ cc + 1 <= m
      <3> HIDE DEF m, cc, d
      <3> QED BY <1>2, <2>7
    <2>9. ((cc + 1) + 1) % d \in 0..(d - 1)
      <3>1. (cc + 1) + 1 \in Int /\ d \in Nat /\ d > 0
        BY <1>2, <2>7
      <3> HIDE DEF m, cc, d
      <3> QED BY <3>1
    <2> QED BY <1>3, <2>1, <2>2, <2>4, <2>6, <2>8, <2>9
  <1> QED BY <1>1, <1>8, <1>9, <1>10, <1>11

(* The registers keep their types and widths. *)
LEMMA TypeStep ==
    ASSUME PowersOfTwo, NEW n, NEW r, NEW e, NEW o, Edge(n, r, e, o)
    PROVE  TypeOK'
  <1>1. /\ TypeOK /\ pending_count_ff = Len(unclaimed) /\ n \in Counts \cup {-1}
        /\ o \in BOOLEAN /\ CALLEE_VOID_RETURN_TYPE' = CALLEE_VOID_RETURN_TYPE
    BY DEF Edge, IInv, Cycle
  <1>2. Counts' = Counts /\ PENDING_COUNT_WIDTH' = PENDING_COUNT_WIDTH
    BY <1>1 DEF Counts, PENDING_COUNT_WIDTH
  <1>3. live' \in Seq([call : Call, count : Counts])
    <2> DEFINE E == [call : Call, count : Counts]
               a == IF done(o) THEN Tail(live) ELSE live
               b == IF n >= 0 THEN <<SavedCall(n)>> ELSE <<>>
    <2>1. live \in Seq(E) /\ nextCall \in Call
      BY <1>1 DEF TypeOK
    <2>2. live' = a \o b
      BY DEF Edge, Cycle, done, SavedCall
    <2>3. n >= 0 => SavedCall(n) \in E
      BY <1>1, <2>1 DEF SavedCall
    <2>4. done(o) => live # <<>>
      BY <1>1, FreedType
    <2> HIDE DEF E
    <2>5. a \in Seq(E)
      <3>1. CASE done(o)
        BY <2>1, <2>4, <3>1, HeadTailProperties
      <3>2. CASE ~done(o)
        BY <2>1, <3>2
      <3> QED BY <3>1, <3>2
    <2>6. b \in Seq(E)
      <3>1. CASE n >= 0
        BY <2>3, <3>1
      <3>2. CASE ~(n >= 0)
        BY <3>2
      <3> QED BY <3>1, <3>2
    <2> HIDE DEF a, b
    <2>7. a \o b \in Seq(E)
      BY <2>5, <2>6, ConcatProperties
    <2> QED BY <2>2, <2>7 DEF E
  <1>4. nextCall' \in Call
    <2>1. nextCall' = IF n >= 0 THEN (nextCall + 1) % (MAX_THREADS + 1) ELSE nextCall
      BY DEF Edge, Cycle
    <2>2. nextCall \in 0..MAX_THREADS
      BY <1>1 DEF TypeOK, Call
    <2>3. (nextCall + 1) % (MAX_THREADS + 1) \in 0..MAX_THREADS
      <3> DEFINE d == MAX_THREADS + 1
                 c == nextCall + 1
      <3>1. d \in Nat /\ d > 0 /\ d - 1 = MAX_THREADS /\ c \in Int
        BY <2>2
      <3> HIDE DEF d, c
      <3>2. c % d \in 0..(d - 1)
        BY <3>1
      <3>3. c % d \in 0..MAX_THREADS
        BY <3>1, <3>2
      <3> QED BY <3>3 DEF c, d
    <2> QED BY <2>1, <2>2, <2>3 DEF Call
  <1>5. pending_count_ff' \in 0..(2^PENDING_COUNT_WIDTH - 1)
    <2> DEFINE d == 2^PENDING_COUNT_WIDTH
               m == Len(unclaimed')
    <2>1. d \in Nat
      BY PendingWidth
    <2>2. pending_count_ff' = m /\ m \in Nat /\ m < d
      BY PendingStep, Room
    <2> HIDE DEF d, m
    <2>3. m \in 0..(d - 1)
      BY <2>1, <2>2
    <2> QED BY <2>2, <2>3 DEF d
  <1>6. Len(live') <= MAX_THREADS
    BY LiveLength
  <1>7. calls' \in Seq([call : Call, max_thread_id : ThreadId, only_one_thread : BOOLEAN])
    BY StartEdge DEF Launch
  <1>8. /\ current_count' \in ThreadId /\ current_count_plus_one' \in ThreadId
        /\ thread_id_minus_one_reached' \in BOOLEAN
    BY CounterStep
  <1>9. callee' \in Seq(Result) /\ unclaimed' \in Seq(Result)
    BY StreamStep, Room
  <1>10. returnArrayBuffer_ff' \in [Slots -> Result \cup {NoResult}]
    BY BufferStep
  <1>11. CALLEE_VOID_RETURN_TYPE' \in BOOLEAN
    BY <1>1 DEF TypeOK
  <1> QED BY <1>2, <1>3, <1>4, <1>5, <1>6, <1>7, <1>8, <1>9, <1>10, <1>11 DEF TypeOK

(* A clock edge preserves the inductive invariant. *)
LEMMA EdgeStep ==
    ASSUME PowersOfTwo, NEW n, NEW r, NEW e, NEW o, Edge(n, r, e, o)
    PROVE  IInv'
  <1>1. TypeOK' /\ CounterExact'
    BY TypeStep, CounterStep
  <1>2. StreamExact'
    <2>1. Owed' = OwedBy(live') /\ ToStart' = StartedBy(calls')
      BY DEF Owed, ToStart, OwedBy, StartedBy
    <2>2. (unclaimed' \o callee') \o Drop(StartedBy(calls'), current_count') = OwedBy(live')
      BY StreamStep
    <2> QED BY <2>1, <2>2 DEF StreamExact, Drop
  <1>3. BufferExact'
    <2>1. CALLEE_VOID_RETURN_TYPE' = CALLEE_VOID_RETURN_TYPE
      BY DEF Edge, Cycle
    <2>2. ~CALLEE_VOID_RETURN_TYPE =>
              /\ Len(unclaimed') <= RETURN_ARRAY_BUFFER_SIZE
              /\ \A k \in 1..Len(unclaimed') : returnArrayBuffer_ff'[k - 1] = unclaimed'[k]
      BY BufferStep
    <2> QED BY <2>1, <2>2 DEF BufferExact
  <1>4. pending_count_ff' = Len(unclaimed')
    BY PendingStep
  <1> QED BY <1>1, <1>2, <1>3, <1>4 DEF IInv

(* The inductive invariant holds after reset. *)
LEMMA InitExact ==
    ASSUME PowersOfTwo, Init
    PROVE  IInv
  <1> DEFINE d == 2^COUNTER_WIDTH
  <1>1. d \in Nat /\ d >= 2
    BY CounterWidth
  <1>2. 0 + 1 = 1 /\ 1 % d = 1
    <2> HIDE DEF d
    <2>1. 1 \in 0..(2 * d - 1) /\ d > 0 /\ 1 < d
      BY <1>1
    <2> QED BY <1>1, <2>1, Remainder
  <1>3. 0 \in ThreadId /\ 1 \in ThreadId
    BY <1>1 DEF ThreadId
  <1>4. 0 \in 0..(2^PENDING_COUNT_WIDTH - 1)
    <2> DEFINE Q == 2^PENDING_COUNT_WIDTH
    <2>1. Q \in Nat /\ Q >= 1
      <3>1. CASE CALLEE_VOID_RETURN_TYPE
        <4>1. Q \in Nat /\ Q >= 2 * (d * MAX_THREADS)
          BY <3>1, PendingWidth
        <4> HIDE DEF Q, d
        <4>2. d * MAX_THREADS \in Nat /\ d * MAX_THREADS >= 1
          BY <1>1
        <4> QED BY <4>1, <4>2
      <3>2. CASE ~CALLEE_VOID_RETURN_TYPE
        <4>1. Q \in Nat /\ Q >= RETURN_ELEMENT_COUNT + 2
          BY <3>2, PendingWidth
        <4> HIDE DEF Q
        <4> QED BY <4>1
      <3> QED BY <3>1, <3>2
    <2> HIDE DEF Q
    <2>2. 0 \in 0..(Q - 1)
      BY <2>1
    <2> QED BY <2>2 DEF Q
  <1>5. TypeOK
    <2>1. Len(<<>>) <= MAX_THREADS /\ 0 \in Call
      BY DEF Call
    <2>2. returnArrayBuffer_ff \in [Slots -> Result \cup {NoResult}]
      BY DEF Init
    <2>3. /\ live = <<>> /\ calls = <<>> /\ callee = <<>> /\ unclaimed = <<>>
          /\ current_count = 0 /\ current_count_plus_one = 1
          /\ thread_id_minus_one_reached = FALSE /\ pending_count_ff = 0 /\ nextCall = 0
          /\ CALLEE_VOID_RETURN_TYPE \in BOOLEAN
      BY DEF Init
    <2>4. /\ live \in Seq([call : Call, count : Counts])
          /\ calls \in Seq([call : Call, max_thread_id : ThreadId, only_one_thread : BOOLEAN])
          /\ callee \in Seq(Result) /\ unclaimed \in Seq(Result)
      BY <2>3
    <2>5. thread_id_minus_one_reached \in BOOLEAN
      BY <2>3
    <2> QED BY <1>3, <1>4, <2>1, <2>2, <2>3, <2>4, <2>5 DEF TypeOK
  <1>6. StreamExact
    <2>1. Owed = <<>> /\ ToStart = <<>>
      BY DEF Init, Owed, ToStart, FlattenSeq
    <2>2. SubSeq(<<>>, 0 + 1, Len(<<>>)) = <<>>
      BY SubSeqEmpty
    <2>3. (<<>> \o <<>>) \o <<>> = <<>>
      OBVIOUS
    <2> QED BY <2>1, <2>2, <2>3 DEF Init, StreamExact
  <1>7. CounterExact
    BY <1>2 DEF Init, CounterExact, Wrap
  <1>8. BufferExact /\ pending_count_ff = Len(unclaimed)
    BY DEF Init, BufferExact, RETURN_ARRAY_BUFFER_SIZE
  <1> QED BY <1>5, <1>6, <1>7, <1>8 DEF IInv

(* The inductive invariant holds in every state. *)
THEOREM PipelinedCallInvariant == PowersOfTwo => (Spec => []IInv)
  <1> SUFFICES ASSUME PowersOfTwo PROVE Spec => []IInv
    OBVIOUS
  <1>1. Init => IInv
    BY InitExact
  <1>2. IInv /\ [Next]_vars => IInv'
    <2> SUFFICES ASSUME IInv, [Next]_vars PROVE IInv'
      OBVIOUS
    <2>1. CASE Next
      <3>1. PICK n \in Counts \cup {-1}, r, e, o \in BOOLEAN : Cycle(n, r, e, o)
        BY <2>1 DEF Next
      <3>2. Edge(n, r, e, o)
        BY <3>1 DEF Edge
      <3> QED BY <3>2, EdgeStep
    <2>2. CASE UNCHANGED vars
      BY <2>2 DEF vars, IInv, TypeOK, StreamExact, CounterExact, BufferExact, Counts,
                  PENDING_COUNT_WIDTH, Owed, ToStart, count_reached
    <2> QED BY <2>1, <2>2
  <1> QED BY <1>1, <1>2, PTL DEF Spec

(* The pending count of the context saver is the number of results that    *)
(* wait to be claimed, and neither of its assertions can fail: whatever    *)
(* the counts of the calls, the width and the threshold that the compiler  *)
(* computes leave room for every result that is read.                      *)
THEOREM PendingExactHolds == PowersOfTwo => (Spec => []PendingExact)
  <1> SUFFICES ASSUME PowersOfTwo PROVE Spec => []PendingExact
    OBVIOUS
  <1>1. IInv => PendingExact
    <2> SUFFICES ASSUME IInv PROVE PendingExact
      OBVIOUS
    <2> DEFINE Q == 2^PENDING_COUNT_WIDTH
               C == 2^COUNTER_WIDTH * MAX_THREADS
               u == unclaimed
               D == Drop(StartedBy(calls), current_count)
    <2>1. TypeOK /\ StreamExact /\ CounterExact /\ pending_count_ff = Len(u)
      BY DEF IInv
    <2>2. /\ Q \in Nat /\ (CALLEE_VOID_RETURN_TYPE => Q >= 2 * C)
          /\ (~CALLEE_VOID_RETURN_TYPE => Q >= RETURN_ELEMENT_COUNT + 2)
      BY PendingWidth
    <2>3. /\ live \in Seq(Saved) /\ Len(live) <= MAX_THREADS /\ calls \in Seq(Launch)
          /\ callee \in Seq(Result) /\ u \in Seq(Result)
      BY <2>1, Registers
    <2>4. Len(u) \in Nat /\ Len(callee) \in Nat
      BY <2>3, LenProperties
    <2>5. D \in Seq(Result)
      <3>1. StartedBy(calls) \in Seq(Result)
        BY <2>3, StartedStream
      <3>2. current_count \in 0..Len(StartedBy(calls))
        BY <2>1, NextThread
      <3> QED BY <3>1, <3>2, DropType DEF Dropped
    <2>6. (u \o callee) \o D = OwedBy(live)
      BY <2>1, Registers DEF StreamExact, Drop
    <2>7. Len(u) + Len(callee) <= C
      BY <2>3, <2>5, <2>6, StreamBound
    <2>8. C \in Nat
      BY CounterWidth
    <2>9. ASSUME NEW empty \in BOOLEAN, callee # <<>>, callee_rden_out(empty)
          PROVE  pending_count_ff < Q - 1 /\ pending_count_ff < PENDING_COUNT_THRESHOLD
      <3>1. Len(callee) > 0
        BY <2>3, <2>4, <2>9, EmptySeq
      <3>2. CASE CALLEE_VOID_RETURN_TYPE
        <4>1. PENDING_COUNT_THRESHOLD = Q - 1
          BY <3>2 DEF PENDING_COUNT_THRESHOLD
        <4> HIDE DEF Q, C, u
        <4>2. Len(u) < Q - 1
          BY <2>2, <2>4, <2>7, <2>8, <3>1, <3>2
        <4> QED BY <2>1, <4>1, <4>2
      <3>3. CASE ~CALLEE_VOID_RETURN_TYPE
        <4>1. Len(u) < PENDING_COUNT_THRESHOLD
          BY <2>1, <2>9, <3>3 DEF callee_rden_out
        <4>2. PENDING_COUNT_THRESHOLD = RETURN_ELEMENT_COUNT + 1
          BY <3>3 DEF PENDING_COUNT_THRESHOLD, RETURN_ARRAY_BUFFER_SIZE
        <4> HIDE DEF Q, C, u
        <4>3. Len(u) < Q - 1
          BY <2>2, <2>4, <3>3, <4>1, <4>2
        <4> QED BY <2>1, <4>1, <4>3
      <3> QED BY <3>2, <3>3
    <2> QED BY <2>1, <2>9 DEF PendingExact
  <1> QED BY <1>1, PipelinedCallInvariant, PTL

(* Every caller gets the results of the threads of its own call, each in   *)
(* its place, and not before all of them are there: counting alone finds   *)
(* where a call ends in the unmarked stream, for any mix of calls of any   *)
(* lengths, with zero and with 2^COUNTER_WIDTH threads too.                *)
THEOREM ReturnsOwnResultsHolds == PowersOfTwo => (Spec => []ReturnsOwnResults)
  <1> SUFFICES ASSUME PowersOfTwo PROVE Spec => []ReturnsOwnResults
    OBVIOUS
  <1>1. IInv => ReturnsOwnResults
    <2> SUFFICES ASSUME IInv, Completes,
                        NEW k \in 0..(First.count - 1), NEW empty \in BOOLEAN
                 PROVE  LET own == [call |-> First.call, thread |-> k]
                            read == callee # <<>> /\ callee_rden_out(empty)
                        IN  IF CALLEE_VOID_RETURN_TYPE THEN unclaimed[k + 1] = own
                            ELSE callee_data_out(read)[k] = own
      BY DEF ReturnsOwnResults
    <2> DEFINE u == unclaimed
               D == Drop(StartedBy(calls), current_count)
               p == Completed(TRUE)
               own == [call |-> First.call, thread |-> k]
               read == callee # <<>> /\ callee_rden_out(empty)
    <2>1. TypeOK /\ StreamExact /\ CounterExact /\ BufferExact /\ pending_count_ff = Len(u)
      BY DEF IInv
    <2>2. done(TRUE) /\ live # <<>> /\ First.count <= Len(u) /\ First = Head(live)
      BY <2>1 DEF Completes, done, valid_out, First
    <2>3. /\ live \in Seq(Saved) /\ calls \in Seq(Launch)
          /\ callee \in Seq(Result) /\ u \in Seq(Result)
          /\ Head(live) \in Saved /\ Head(live).count \in Counts
      BY <2>1, <2>2, Registers
    <2>4. First.call \in Call /\ First.count \in 0..2^COUNTER_WIDTH /\ First.count \in Nat
      BY <2>2, <2>3, CounterWidth DEF Saved
    <2>5. p = Results(First.call, First.count)
      BY <2>1, <2>2, CompletedType
    <2>6. /\ p \in Seq(Result) /\ Len(p) = First.count
          /\ \A i \in 1..First.count : p[i] = [call |-> First.call, thread |-> i - 1]
      <3> DEFINE q == Results(First.call, First.count)
      <3>1. /\ q \in Seq(Result) /\ Len(q) = First.count
            /\ \A i \in 1..First.count : q[i] = [call |-> First.call, thread |-> i - 1]
        BY <2>4, ResultsType, Zenon
      <3>2. p = q
        BY <2>5
      <3> QED BY <3>1, <3>2, Zenon
    <2>7. PICK m \in Seq(Result) : OwedBy(live) = p \o m
      <3> DEFINE m == Stream(Tail(live), OwedTo)
      <3>1. /\ Tail(live) \in Seq(Saved)
            /\ Stream(live, OwedTo) = OwedTo[Head(live)] \o m
        <4>1. OwedTo \in [Saved -> Seq(Result)]
          BY OwedToType
        <4>2. live # <<>> /\ live \in Seq(Saved)
          BY <2>2, <2>3
        <4> QED BY <4>1, <4>2, StreamTake
      <3>2. m \in Seq(Result)
        BY <3>1, OwedStream
      <3>3. OwedTo[Head(live)] = p
        BY <2>2 DEF Completed
      <3>4. OwedBy(live) = Stream(live, OwedTo)
        BY <2>3, OwedStream
      <3> HIDE DEF m, p
      <3> QED BY <3>1, <3>2, <3>3, <3>4
    <2>8. D \in Seq(Result)
      <3>1. StartedBy(calls) \in Seq(Result)
        BY <2>3, StartedStream
      <3>2. current_count \in 0..Len(StartedBy(calls))
        BY <2>1, NextThread
      <3> QED BY <3>1, <3>2, DropType DEF Dropped
    <2>9. (u \o callee) \o D = OwedBy(live)
      BY <2>1, Registers DEF StreamExact, Drop
    <2> HIDE DEF u, D, p
    <2>10. Brackets(u, callee, D)
      BY <2>3, <2>8, Associates
    <2>11. SameStream(u, callee \o D, p, m)
      BY <2>7, <2>9, <2>10 DEF SameStream, Brackets
    <2>12. callee \o D \in Seq(Result)
      BY <2>3, <2>8, ConcatProperties
    <2>13. Len(p) <= Len(u)
      BY <2>2, <2>6
    <2>14. CutsOff(u, callee \o D, p, m)
      BY <2>3, <2>6, <2>11, <2>12, <2>13, CutOff
    <2>15. k + 1 \in 1..First.count /\ (k + 1) - 1 = k
      BY <2>4
    <2>16. u[k + 1] = own
      <3>1. u[k + 1] = p[k + 1]
        BY <2>6, <2>14, <2>15 DEF CutsOff
      <3>2. p[k + 1] = [call |-> First.call, thread |-> k]
        BY <2>6, <2>15
      <3> QED BY <3>1, <3>2
    <2>17. CASE CALLEE_VOID_RETURN_TYPE
      BY <2>16, <2>17 DEF u
    <2>18. CASE ~CALLEE_VOID_RETURN_TYPE
      <3> DEFINE a == returnArrayBuffer_ff
                 l == pending_count_ff
      <3>1. First.count <= RETURN_ELEMENT_COUNT
        BY <2>2, <2>3, <2>18 DEF Counts
      <3>2. l = Len(u) /\ l \in Nat /\ k \in Nat /\ k < l /\ k \in 0..(RETURN_ELEMENT_COUNT - 1)
        <4>1. Len(u) \in Nat
          BY <2>3, LenProperties
        <4> QED BY <2>1, <2>2, <2>4, <3>1, <4>1
      <3>3. k \in Slots
        BY <3>2 DEF Slots, RETURN_ARRAY_BUFFER_SIZE
      <3>4. a[k] = u[k + 1]
        <4>1. k + 1 \in 1..Len(u) /\ (k + 1) - 1 = k
          BY <3>2
        <4>2. a[(k + 1) - 1] = u[k + 1]
          BY <2>1, <2>18, <4>1 DEF BufferExact, u
        <4> QED BY <4>1, <4>2
      <3>5. Filled(read)[k] = a[k]
        <4>1. a \in [Slots -> Result \cup {NoResult}] /\ k # l
          BY <2>1, <3>2 DEF TypeOK
        <4>2. CASE read /\ l \in Slots
          <5>1. Filled(read) = [a EXCEPT ![l] = Head(callee)]
            BY <4>2 DEF Filled
          <5> HIDE DEF a, l, read
          <5> QED BY <3>3, <4>1, <5>1
        <4>3. CASE ~(read /\ l \in Slots)
          <5>1. Filled(read) = a
            BY <4>3 DEF Filled
          <5> QED BY <5>1
        <4> QED BY <4>2, <4>3
      <3>6. callee_data_out(read)[k] = Filled(read)[k]
        BY <3>2 DEF callee_data_out
      <3> QED BY <2>16, <2>18, <3>4, <3>5, <3>6
    <2> QED BY <2>17, <2>18
  <1> QED BY <1>1, PipelinedCallInvariant, PTL
=============================================================================
