-------------------------- MODULE ThreadPoolProofs --------------------------
(***************************************************************************)
(* WaitForIdle of the thread pool returns only when nothing is queued or   *)
(* running and no task has failed, for every set of workers and however    *)
(* many elements and operations there are.                                 *)
(***************************************************************************)
EXTENDS ThreadPool, FiniteSetTheorems, TLAPS

(* The slices of a parallel loop. *)
LEMMA ThreadCountType == ThreadCount \in Nat \ {0}
  BY ThreadPoolAssumption, FS_CardinalityType, FS_EmptySet DEF ThreadCount

(* Rounding up: T slices of E elements cover the loop. *)
LEMMA ElementsCover ==
    ASSUME NEW n \in Nat
    PROVE  /\ ElementsPerThread(n) \in Nat
           /\ n > 0 => ElementsPerThread(n) > 0
           /\ n <= ElementsPerThread(n) * ThreadCount
  <1> DEFINE T == ThreadCount
             E == (n + T - 1) \div T
             R == (n + T - 1) % T
  <1>1. T \in Nat \ {0}
    BY ThreadCountType
  <1> HIDE DEF T
  <1>2. E \in Nat /\ R \in 0..(T - 1) /\ n + T - 1 = T * E + R
    BY <1>1
  <1> HIDE DEF E, R
  <1>3. n <= T * E
    <2>1. T * E \in Nat
      BY <1>1, <1>2
    <2> QED BY <1>1, <1>2, <2>1
  <1>4. T * E = E * T
    BY <1>1, <1>2
  <1>5. n > 0 => E > 0
    BY <1>1, <1>2, <1>3
  <1> QED BY <1>2, <1>3, <1>4, <1>5 DEF ElementsPerThread, E, T

(* The slice of a loop that is not over belongs to a worker's list. *)
LEMMA SliceType ==
    ASSUME loop \in [next : Nat, count : 0..MaxCount], loop.next < loop.count
    PROVE  Slice(loop) \in Task
  <1> DEFINE E == ElementsPerThread(loop.count)
             T == ThreadCount
             d == loop.next \div E
  <1> USE ThreadPoolAssumption
  <1>1. /\ loop.next \in Nat /\ loop.count \in Nat /\ loop.count <= MaxCount
        /\ E \in Nat \ {0} /\ T \in Nat \ {0} /\ loop.count <= E * T
    BY ElementsCover, ThreadCountType
  <1> HIDE DEF E, T
  <1>2. d \in Nat /\ E * d <= loop.next
    BY <1>1
  <1> HIDE DEF d
  <1>3. d < T
    <2> SUFFICES ASSUME d >= T PROVE FALSE
      BY <1>1, <1>2
    <2>1. E * d >= E * T
      BY <1>1, <1>2
    <2> QED BY <1>1, <1>2, <2>1
  <1>4. SliceEnd(loop) \in Nat /\ SliceEnd(loop) <= loop.count
    <2> DEFINE S == {loop.next + E, loop.count}
    <2>1. \E x \in S : \A y \in S : x <= y
      BY <1>1
    <2>2. Min(S) \in S /\ \A y \in S : Min(S) <= y
      <3> HIDE DEF S
      <3> QED BY <2>1 DEF Min
    <2>3. Min(S) \in Nat /\ Min(S) <= loop.count
      BY <1>1, <2>2
    <2> QED BY <2>3 DEF SliceEnd, E
  <1> QED
    BY <1>1, <1>2, <1>3, <1>4 DEF Slice, Task, Lists, d, E, T
-----------------------------------------------------------------------------
(* The running workers can be counted. *)
LEMMA RunningType == IsFiniteSet(Running) /\ Cardinality(Running) \in Nat
  <1>1. Running \subseteq Worker
    BY DEF Running
  <1> QED BY <1>1, ThreadPoolAssumption, FS_Subset, FS_CardinalityType

(* Nobody runs exactly if the number of running workers is zero. *)
LEMMA NobodyRuns == Cardinality(Running) = 0 <=> \A w \in Worker : pc[w] # "run"
  <1>1. Running = {} <=> \A w \in Worker : pc[w] # "run"
    BY DEF Running
  <1> QED BY <1>1, RunningType, FS_EmptySet

(* A worker that takes a task, ends one, or does neither. *)
LEMMA RunningStep ==
    ASSUME NEW w \in Worker, NEW place, NEW S, pc \in [Worker -> S],
           pc' = [pc EXCEPT ![w] = place]
    PROVE  /\ pc[w] # "run" /\ place = "run"
                => Cardinality(Running)' = Cardinality(Running) + 1
           /\ pc[w] = "run" /\ place # "run"
                => Cardinality(Running)' = Cardinality(Running) - 1
           /\ pc[w] # "run" /\ place # "run"
                => Cardinality(Running)' = Cardinality(Running)
  <1>1. /\ pc[w] # "run" /\ place = "run" => Running' = Running \cup {w} /\ w \notin Running
        /\ pc[w] = "run" /\ place # "run" => Running' = Running \ {w} /\ w \in Running
        /\ pc[w] # "run" /\ place # "run" => Running' = Running
    BY DEF Running
  <1> QED BY <1>1, RunningType, FS_AddElement, FS_RemoveElement

(* The pool is created without tasks. *)
LEMMA InitInv == Init => IInv
  <1> SUFFICES ASSUME Init PROVE IInv
    OBVIOUS
  <1> USE ThreadPoolAssumption
  <1>1. 0 \in Lists
    BY ThreadCountType DEF Lists
  <1>2. TypeOK
    <2>1. /\ task \in [Worker -> Task]
          /\ pc \in [Worker -> {"fetch", "waiting", "run", "notify", "exited"}]
      BY <1>1 DEF Init, NoTask, Task
    <2>2. taskQueue \in Seq(Task) /\ subLists \in [Lists -> Seq(0..MaxCount)]
      BY DEF Init, NoResults
    <2>3. /\ loop \in [next : Nat, count : 0..MaxCount] /\ calls \in 0..MaxCalls
          /\ tasksEnqueued \in Nat /\ tasksCompleted \in Nat
      BY DEF Init
    <2>4. client = "idle" /\ then = "idle" /\ ~shouldExit /\ ~errorString /\ ~failed
      BY DEF Init
    <2>5. {shouldExit, errorString, failed} \subseteq BOOLEAN
      BY DEF Init
    <2> QED BY <2>1, <2>2, <2>3, <2>4, <2>5 DEF TypeOK
  <1>3. Cardinality(Running) = 0
    BY NobodyRuns DEF Init
  <1>4. TasksCounted
    BY <1>3 DEF TasksCounted, Init
  <1> QED
    BY <1>2, <1>4 DEF IInv, QuietOnReturn, ErrorReported, Returned, Init

(* The invariant holds again after every step of a worker. *)
LEMMA WorkerInv ==
    ASSUME IInv, NEW w \in Worker, WorkerStep(w) \/ WakeUp(w)
    PROVE  IInv'
  <1> USE ThreadPoolAssumption
  <1>1. /\ pc \in [Worker -> {"fetch", "waiting", "run", "notify", "exited"}]
        /\ task \in [Worker -> Task] /\ taskQueue \in Seq(Task)
        /\ tasksEnqueued \in Nat /\ tasksCompleted \in Nat
        /\ subLists \in [Lists -> Seq(0..MaxCount)]
        /\ errorString \in BOOLEAN /\ failed \in BOOLEAN
    BY DEF IInv, TypeOK
  <1>2. Cardinality(Running) \in Nat
    BY RunningType
  <1>3. CASE Fetch(w) /\ taskQueue # <<>>
    <2>1. /\ task' = [task EXCEPT ![w] = Head(taskQueue)]
          /\ taskQueue' = Tail(taskQueue)
          /\ pc[w] = "fetch" /\ pc' = [pc EXCEPT ![w] = "run"]
          /\ UNCHANGED <<clientVars, shouldExit, tasksEnqueued, tasksCompleted,
                         errorString, subLists, failed>>
      BY <1>3 DEF Fetch
    <2>2. /\ Head(taskQueue) \in Task /\ Tail(taskQueue) \in Seq(Task)
          /\ Len(Tail(taskQueue)) = Len(taskQueue) - 1 /\ Len(taskQueue) \in Nat
      BY <1>1, <1>3
    <2>3. TypeOK'
      BY <1>1, <2>1, <2>2 DEF IInv, TypeOK, clientVars
    <2>4. TasksCounted'
      <3>1. Cardinality(Running)' = Cardinality(Running) + 1
        BY <1>1, <2>1, RunningStep
      <3> QED
        BY <1>1, <1>2, <2>1, <2>2, <3>1 DEF IInv, TasksCounted
    <2>5. ~Returned'
      BY <1>3, <2>1 DEF IInv, QuietOnReturn, Returned, clientVars
    <2> QED
      BY <2>1, <2>3, <2>4, <2>5 DEF IInv, QuietOnReturn, ErrorReported
  <1>4. CASE (Fetch(w) /\ taskQueue = <<>>) \/ WakeUp(w) \/ NotifyClient(w)
    <2>1. PICK place \in {"fetch", "waiting", "exited"} :
               pc[w] # "run" /\ pc' = [pc EXCEPT ![w] = place]
      BY <1>4 DEF Fetch, WakeUp, NotifyClient
    <2>2. /\ UNCHANGED <<task, taskQueue, then, loop, calls, shouldExit, tasksEnqueued,
                         tasksCompleted, errorString, subLists, failed>>
          /\ client' = client \/ (client' = "wait" /\ client = "blocked")
      BY <1>4 DEF Fetch, WakeUp, NotifyClient, ClientWoken, clientVars, poolVars
    <2>3. TypeOK'
      BY <1>1, <2>1, <2>2 DEF IInv, TypeOK
    <2>4. TasksCounted'
      <3>1. Cardinality(Running)' = Cardinality(Running)
        BY <1>1, <2>1, RunningStep
      <3> QED
        BY <2>2, <3>1 DEF IInv, TasksCounted
    <2>5. QuietOnReturn' /\ ErrorReported'
      BY <1>1, <2>1, <2>2 DEF IInv, QuietOnReturn, ErrorReported, Returned
    <2> QED
      BY <2>2, <2>3, <2>4, <2>5 DEF IInv
  <1>5. CASE RunElement(w)
    <2>1. /\ task' = [task EXCEPT ![w].next = @ + 1]
          /\ task[w].next < task[w].end
          /\ subLists' = IF task[w].list
                         THEN [subLists EXCEPT ![task[w].tid] = Append(@, task[w].next)]
                         ELSE subLists
          /\ UNCHANGED <<pc, clientVars, poolVars, failed>>
      BY <1>5 DEF RunElement
    <2>2. task[w] \in Task /\ task[w].next \in 0..MaxCount
      BY <1>1, <2>1 DEF Task
    <2>3. task' \in [Worker -> Task]
      <3>1. [task[w] EXCEPT !.next = @ + 1] \in Task
        BY <2>2 DEF Task
      <3>2. task' = [task EXCEPT ![w] = [task[w] EXCEPT !.next = @ + 1]]
        BY <2>1
      <3> QED
        BY <1>1, <3>1, <3>2
    <2>4. subLists' \in [Lists -> Seq(0..MaxCount)]
      BY <1>1, <2>1, <2>2 DEF Task
    <2>5. TypeOK'
      BY <2>1, <2>3, <2>4 DEF IInv, TypeOK, clientVars, poolVars
    <2>6. Running' = Running
      BY <2>1 DEF Running
    <2> QED
      BY <2>1, <2>5, <2>6 DEF IInv, TasksCounted, QuietOnReturn, ErrorReported, Returned,
         clientVars, poolVars
  <1>6. CASE Complete(w)
    <2>1. PICK error \in BOOLEAN :
             /\ pc[w] = "run"
             /\ errorString' = (errorString \/ error)
             /\ tasksCompleted' = tasksCompleted + 1
             /\ failed' = (failed \/ error)
             /\ pc' = [pc EXCEPT ![w] = "notify"]
             /\ UNCHANGED <<task, clientVars, taskQueue, shouldExit, tasksEnqueued, subLists>>
      BY <1>6 DEF Complete, ErrorAfter
    <2>2. TypeOK'
      BY <1>1, <2>1 DEF IInv, TypeOK, clientVars
    <2>3. TasksCounted'
      <3>1. pc[w] = "run" /\ "notify" # "run" /\ pc' = [pc EXCEPT ![w] = "notify"]
        BY <2>1
      <3>2. Cardinality(Running)' = Cardinality(Running) - 1
        BY <1>1, <3>1, RunningStep
      <3> QED
        BY <1>1, <1>2, <2>1, <3>2 DEF IInv, TasksCounted
    <2>4. ~Returned'
      BY <2>1 DEF IInv, QuietOnReturn, Returned, clientVars
    <2> QED
      BY <2>1, <2>2, <2>3, <2>4 DEF IInv, QuietOnReturn, ErrorReported
  <1> QED
    BY <1>3, <1>4, <1>5, <1>6 DEF WorkerStep

(* The invariant holds again after every step of the client. *)
LEMMA ClientInv ==
    ASSUME IInv, ClientStep \/ ClientWakeUp
    PROVE  IInv'
  <1> USE ThreadPoolAssumption
  <1>1. /\ pc \in [Worker -> {"fetch", "waiting", "run", "notify", "exited"}]
        /\ taskQueue \in Seq(Task) /\ Len(taskQueue) \in Nat
        /\ tasksEnqueued \in Nat /\ tasksCompleted \in Nat
        /\ loop \in [next : Nat, count : 0..MaxCount] /\ calls \in 0..MaxCalls
        /\ errorString \in BOOLEAN /\ failed \in BOOLEAN
        /\ then \in {"idle", "splice", "exit"}
        /\ Cardinality(Running) \in Nat
    BY RunningType DEF IInv, TypeOK
  <1>2. CASE BeginCall \/ BeginDestroy
    <2>1. /\ client' \in {"map", "async", "wait"} /\ then' \in {"idle", "splice", "exit"}
          /\ loop' \in [next : Nat, count : 0..MaxCount] /\ calls' \in 0..MaxCalls
          /\ UNCHANGED <<pc, task, poolVars, subLists, failed>>
      BY <1>1, <1>2 DEF BeginCall, BeginDestroy
    <2>2. TypeOK'
      BY <2>1 DEF IInv, TypeOK, poolVars
    <2> QED
      BY <2>1, <2>2 DEF IInv, TasksCounted, Running, QuietOnReturn, ErrorReported,
         Returned, poolVars
  <1>3. ASSUME NEW t \in Task, Enqueue(t), ~Returned',
               UNCHANGED <<pc, task, shouldExit, tasksCompleted, errorString, subLists, failed>>,
               TypeOK'
        PROVE  IInv'
    <2>1. Len(taskQueue') = Len(taskQueue) + 1 /\ tasksEnqueued' = tasksEnqueued + 1
      BY <1>1, <1>3 DEF Enqueue
    <2>2. Running' = Running
      BY <1>3 DEF Running
    <2>3. TasksCounted'
      BY <1>1, <1>3, <2>1, <2>2 DEF IInv, TasksCounted
    <2> QED
      BY <1>3, <2>3 DEF IInv, QuietOnReturn, ErrorReported
  <1>4. CASE AsyncTask
    <2>1. PlainTask \in Task
      BY ThreadCountType DEF PlainTask, Task, Lists
    <2>2. /\ taskQueue' \in Seq(Task) /\ tasksEnqueued' \in Nat
          /\ client' = "notify" /\ then' = "idle"
          /\ UNCHANGED <<pc, task, loop, calls, shouldExit, tasksCompleted, errorString,
                         subLists, failed>>
      BY <1>1, <1>4, <2>1 DEF AsyncTask, Enqueue
    <2>3. TypeOK'
      BY <2>2 DEF IInv, TypeOK
    <2> QED
      BY <1>3, <1>4, <2>1, <2>2, <2>3 DEF AsyncTask, Returned
  <1>5. CASE AsyncSlice /\ loop.next < loop.count
    <2>1. Slice(loop) \in Task /\ ElementsPerThread(loop.count) \in Nat
      BY <1>1, <1>5, SliceType, ElementsCover
    <2>2. /\ Enqueue(Slice(loop))
          /\ loop' = [loop EXCEPT !.next = @ + ElementsPerThread(loop.count)]
          /\ client' = "notify"
          /\ UNCHANGED <<pc, task, then, calls, shouldExit, tasksCompleted, errorString,
                         subLists, failed>>
      BY <1>5 DEF AsyncSlice
    <2>3. /\ taskQueue' \in Seq(Task) /\ tasksEnqueued' \in Nat
          /\ loop' \in [next : Nat, count : 0..MaxCount]
      BY <1>1, <2>1, <2>2 DEF Enqueue
    <2>4. TypeOK'
      BY <2>2, <2>3 DEF IInv, TypeOK
    <2> QED
      BY <1>3, <2>1, <2>2, <2>4 DEF Returned
  <1>6. CASE (AsyncSlice /\ ~(loop.next < loop.count)) \/ Splice \/ RequestExit \/ Join
               \/ ClientWakeUp
    <2>1. /\ client' \in {"wait", "idle", "notifyAll", "destroyed"}
          /\ UNCHANGED <<pc, task, then, loop, calls, taskQueue, tasksEnqueued,
                         tasksCompleted, errorString, failed>>
          /\ shouldExit' = shouldExit \/ shouldExit' = TRUE
          /\ subLists' = subLists \/ subLists' = NoResults
      BY <1>6 DEF AsyncSlice, Splice, RequestExit, Join, ClientWakeUp, poolVars
    <2>2. NoResults \in [Lists -> Seq(0..MaxCount)]
      BY DEF NoResults
    <2>3. TypeOK'
      BY <2>1, <2>2 DEF IInv, TypeOK
    <2> QED
      BY <2>1, <2>3 DEF IInv, TasksCounted, Running, QuietOnReturn, ErrorReported, Returned
  <1>7. CASE NotifyWorker \/ NotifyAll
    <2>1. /\ client' \in {"map", "idle", "join"}
          /\ UNCHANGED <<task, then, loop, calls, poolVars, subLists, failed>>
      BY <1>7 DEF NotifyWorker, NotifyAll
    <2>2. /\ pc' \in [Worker -> {"fetch", "waiting", "run", "notify", "exited"}]
          /\ \A w \in Worker : pc'[w] = "run" <=> pc[w] = "run"
      BY <1>1, <1>7 DEF NotifyWorker, NotifyAll, Woken
    <2>3. TypeOK'
      BY <2>1, <2>2 DEF IInv, TypeOK, poolVars
    <2>4. Running' = Running
      BY <2>2 DEF Running
    <2> QED
      BY <2>1, <2>3, <2>4 DEF IInv, TasksCounted, QuietOnReturn, ErrorReported, Returned,
         poolVars
  <1>8. CASE WaitForIdle
    <2>1. /\ client' = IF ~IsIdle THEN "blocked"
                       ELSE IF ~errorString THEN then
                       ELSE IF then = "exit" THEN "terminated" ELSE "idle"
          /\ errorString' = (errorString /\ ~IsIdle)
          /\ failed' = IF IsIdle /\ errorString THEN FALSE ELSE failed
          /\ subLists' = IF IsIdle /\ errorString THEN NoResults ELSE subLists
          /\ UNCHANGED <<pc, task, then, loop, calls, taskQueue, shouldExit,
                         tasksEnqueued, tasksCompleted>>
      BY <1>8 DEF WaitForIdle
    <2>2. NoResults \in [Lists -> Seq(0..MaxCount)]
      BY DEF NoResults
    <2>3. TypeOK'
      BY <1>1, <2>1, <2>2 DEF IInv, TypeOK, IsIdle
    <2>4. IsIdle => taskQueue = <<>> /\ \A w \in Worker : pc[w] # "run"
      <3> SUFFICES ASSUME IsIdle
                   PROVE  taskQueue = <<>> /\ \A w \in Worker : pc[w] # "run"
        OBVIOUS
      <3>1. Len(taskQueue) = 0 /\ Cardinality(Running) = 0
        BY <1>1 DEF IInv, TasksCounted, IsIdle
      <3> QED
        BY <1>1, <3>1, NobodyRuns
    <2>5. Returned' => IsIdle /\ ~errorString
      BY <1>1, <2>1 DEF Returned
    <2>6. failed' = errorString'
      BY <1>1, <2>1 DEF IInv
    <2>7. QuietOnReturn' /\ ErrorReported'
      BY <2>1, <2>4, <2>5, <2>6 DEF QuietOnReturn, ErrorReported
    <2>8. TasksCounted'
      BY <2>1 DEF IInv, TasksCounted, Running
    <2> QED
      BY <2>3, <2>6, <2>7, <2>8 DEF IInv
  <1> QED
    BY <1>2, <1>4, <1>5, <1>6, <1>7, <1>8 DEF ClientStep

(* IInv is an invariant of the thread pool. *)
THEOREM Invariance == Spec => []IInv
  <1>1. IInv /\ Next => IInv'
    <2>1. IInv /\ Over => IInv'
      BY DEF Over, vars, IInv, TypeOK, TasksCounted, Running, QuietOnReturn, ErrorReported,
         Returned
    <2> QED
      BY <2>1, WorkerInv, ClientInv DEF Next, Spurious
  <1>2. IInv /\ UNCHANGED vars => IInv'
    BY DEF vars, IInv, TypeOK, TasksCounted, Running, QuietOnReturn, ErrorReported, Returned
  <1> QED BY InitInv, <1>1, <1>2, PTL DEF Spec

(* The pool's fields keep their types. *)
THEOREM TypeCorrect == Spec => []TypeOK
  <1>1. IInv => TypeOK
    BY DEF IInv
  <1> QED BY Invariance, <1>1, PTL

(* When WaitForIdle returns nothing is queued and no worker runs a task,   *)
(* for any number of workers and tasks.                                    *)
THEOREM QuietOnReturnHolds == Spec => []QuietOnReturn
  <1>1. IInv => QuietOnReturn
    BY DEF IInv
  <1> QED BY Invariance, <1>1, PTL

(* WaitForIdle does not return normally when a task has failed. *)
THEOREM ErrorReportedHolds == Spec => []ErrorReported
  <1>1. IInv => ErrorReported
    BY DEF IInv
  <1> QED BY Invariance, <1>1, PTL
-----------------------------------------------------------------------------
(* The elements a slice has produced, and one more. *)
LEMMA ElementsAppend ==
    ASSUME NEW a \in Nat, NEW b \in Nat, a <= b
    PROVE  Elements(a, a) = <<>> /\ Append(Elements(a, b), b) = Elements(a, b + 1)
  <1>1. Elements(a, a) = <<>>
    BY DEF Elements
  <1>2. Elements(a, b) \in Seq(Nat) /\ Len(Elements(a, b)) = b - a
    BY DEF Elements
  <1>3. Append(Elements(a, b), b) \in Seq(Nat) /\ Elements(a, b + 1) \in Seq(Nat)
    BY <1>2 DEF Elements
  <1>4. /\ Len(Append(Elements(a, b), b)) = b - a + 1
        /\ Len(Elements(a, b + 1)) = b - a + 1
    BY <1>2 DEF Elements
  <1>5. \A i \in 1..(b - a + 1) : Append(Elements(a, b), b)[i] = Elements(a, b + 1)[i]
    BY <1>2 DEF Elements
  <1> QED BY <1>1, <1>3, <1>4, <1>5

(* What the step of a worker that runs no slice, or of the client, leaves. *)
LEMMA SlicedFrame ==
    ASSUME UNCHANGED <<loop, taskQueue, task, subLists>>, failed => failed',
           \A w \in Worker : pc'[w] = "run" <=> pc[w] = "run"
    PROVE  /\ \A m \in Nat : Sliced(m) => Sliced(m)'
           /\ NoSlices => NoSlices'
  <1>1. \A w \in Worker : RunsSlice(w)' <=> RunsSlice(w)
    BY DEF RunsSlice
  <1>2. \A t : From(t)' = From(t) /\ To(t)' = To(t)
    BY DEF From, To, SliceEnd
  <1>3. NoSlices => NoSlices'
    BY <1>1 DEF NoSlices
  <1> SUFFICES ASSUME NEW m \in Nat, Sliced(m) PROVE Sliced(m)'
    BY <1>3
  <1>4. ASSUME NEW k \in DOMAIN taskQueue', taskQueue'[k].list
        PROVE  QueuedSlice(k, taskQueue[k].tid, m)'
    BY <1>1, <1>2, <1>4 DEF Sliced, QueuedSlice
  <1>5. ASSUME NEW w \in Worker, RunsSlice(w)'
        PROVE  RunningSlice(w, task[w].tid, m)'
    BY <1>1, <1>2, <1>5 DEF Sliced, RunningSlice
  <1>6. ASSUME NEW t \in Lists
        PROVE  OtherSlice(t, m)'
    BY <1>1, <1>2 DEF Sliced, OtherSlice
  <1> QED BY <1>2, <1>4, <1>5, <1>6 DEF Sliced

(* The lists are empty and nothing is under way when the pool is created. *)
LEMMA SliceInit == Init => SliceInv
  BY DEF Init, SliceInv, Mapping, NoSlices, RunsSlice

(* From a slice to the next, and the list a slice belongs to. *)
LEMMA SliceNumbers ==
    ASSUME loop \in [next : Nat, count : 0..MaxCount]
    PROVE  /\ From(0) = 0
           /\ \A t \in Nat : From(t) \in Nat
           /\ \A t \in Nat : From(t + 1) = From(t) + ElementsPerThread(loop.count)
           /\ \A s, t \in Nat : s <= t => From(s) <= From(t)
           /\ \A t \in Nat : To(t) \in Nat /\ To(t) <= loop.count
           /\ \A t \in Nat : To(t) = IF From(t + 1) <= loop.count THEN From(t + 1) ELSE loop.count
           /\ \A t \in Nat : From(t) < loop.count => From(t) <= To(t)
           /\ From(ThreadCount) >= loop.count
           /\ \A m \in Nat : loop.next = From(m) /\ loop.next < loop.count
                  => m < ThreadCount /\ Slice(loop).tid = m /\ Slice(loop).end = To(m)
  <1> DEFINE E == ElementsPerThread(loop.count)
             n == loop.count
  <1> USE ThreadPoolAssumption
  <1>1. /\ loop.next \in Nat /\ n \in Nat /\ n <= MaxCount
        /\ E \in Nat /\ (n > 0 => E > 0) /\ ThreadCount \in Nat \ {0} /\ n <= E * ThreadCount
    BY ElementsCover, ThreadCountType
  <1>2. \A t \in Nat : From(t) = t * E
    BY DEF From
  <1>3. \A t \in Nat : SliceEnd([loop EXCEPT !.next = From(t)]) = Min({From(t) + E, n})
    <2> TAKE t \in Nat
    <2> DEFINE l == [loop EXCEPT !.next = From(t)]
    <2>1. l.next = From(t) /\ l.count = n
      OBVIOUS
    <2> HIDE DEF l
    <2>2. SliceEnd(l) = Min({From(t) + E, n})
      BY <2>1 DEF SliceEnd
    <2> QED BY <2>2 DEF l
  <1>0. SliceEnd(loop) = Min({loop.next + E, n})
    BY DEF SliceEnd
  <1> HIDE DEF E, n
  <1>4. From(0) = 0 /\ \A t \in Nat : From(t) \in Nat
    BY <1>1, <1>2
  <1>5. \A t \in Nat : From(t + 1) = From(t) + E
    BY <1>1, <1>2
  <1>6. \A s, t \in Nat : s <= t => From(s) <= From(t)
    BY <1>1, <1>2
  <1>7. \A a, b \in Nat : Min({a, b}) = IF a <= b THEN a ELSE b
    <2> SUFFICES ASSUME NEW a \in Nat, NEW b \in Nat
                 PROVE  Min({a, b}) = IF a <= b THEN a ELSE b
      OBVIOUS
    <2> DEFINE S == {a, b}
    <2>1. \E x \in S : \A y \in S : x <= y
      OBVIOUS
    <2>2. Min(S) \in S /\ \A y \in S : Min(S) <= y
      <3> HIDE DEF S
      <3> QED BY <2>1 DEF Min
    <2> QED BY <2>2
  <1>8. \A t \in Nat : To(t) = IF From(t + 1) <= n THEN From(t + 1) ELSE n
    <2> TAKE t \in Nat
    <2>1. To(t) = Min({From(t) + E, n})
      BY <1>3 DEF To
    <2>2. From(t) + E \in Nat /\ From(t + 1) = From(t) + E
      BY <1>1, <1>4, <1>5
    <2> HIDE DEF To
    <2> QED BY <1>1, <1>7, <2>1, <2>2
  <1>9. \A t \in Nat : To(t) \in Nat /\ To(t) <= n
    BY <1>1, <1>4, <1>5, <1>8
  <1>10. \A t \in Nat : From(t) < n => From(t) <= To(t)
    BY <1>1, <1>4, <1>5, <1>8
  <1>11. From(ThreadCount) >= n
    <2>1. E * ThreadCount = ThreadCount * E
      BY <1>1
    <2> QED BY <1>1, <1>2, <2>1
  <1>12. ASSUME NEW m \in Nat, loop.next = From(m), loop.next < n
         PROVE  m < ThreadCount /\ Slice(loop).tid = m /\ Slice(loop).end = To(m)
    <2>1. E \in Nat \ {0} /\ loop.next = m * E
      BY <1>1, <1>2, <1>12
    <2>2. (m * E) \div E = m
      BY <2>1
    <2>3. Slice(loop).tid = m
      BY <2>1, <2>2 DEF Slice, E
    <2>4. Slice(loop).end = To(m)
      BY <1>3, <1>0, <1>12 DEF Slice, To
    <2>5. m < ThreadCount
      BY <1>1, <1>4, <1>6, <1>11, <1>12
    <2> QED BY <2>3, <2>4, <2>5
  <1> QED BY <1>4, <1>5, <1>6, <1>8, <1>9, <1>10, <1>11, <1>12 DEF E, n

(* A worker takes a task: a queued slice becomes one that runs. *)
LEMMA SliceFetch ==
    ASSUME IInv, SliceInv, NEW w \in Worker, Fetch(w), taskQueue # <<>>
    PROVE  SliceInv'
  <1> DEFINE h == taskQueue[1]
  <1>1. /\ pc \in [Worker -> {"fetch", "waiting", "run", "notify", "exited"}]
        /\ task \in [Worker -> Task] /\ taskQueue \in Seq(Task)
        /\ loop \in [next : Nat, count : 0..MaxCount]
    BY DEF IInv, TypeOK
  <1>2. /\ task' = [task EXCEPT ![w] = h]
        /\ taskQueue' = Tail(taskQueue)
        /\ pc[w] = "fetch" /\ pc' = [pc EXCEPT ![w] = "run"]
        /\ UNCHANGED <<client, then, loop, subLists, failed>>
    BY <1>1 DEF Fetch, clientVars
  <1>3. /\ 1 \in DOMAIN taskQueue /\ h \in Task /\ DOMAIN taskQueue = 1..Len(taskQueue)
        /\ DOMAIN taskQueue' = 1..(Len(taskQueue) - 1) /\ Len(taskQueue) \in Nat
        /\ \A k \in DOMAIN taskQueue' : k + 1 \in DOMAIN taskQueue /\ taskQueue'[k] = taskQueue[k + 1]
        /\ \A k \in DOMAIN taskQueue : k # 1 => k - 1 \in DOMAIN taskQueue' /\ taskQueue'[k - 1] = taskQueue[k]
    BY <1>1, <1>2
  <1>4. /\ ~RunsSlice(w) /\ (RunsSlice(w)' <=> h.list) /\ task'[w] = h
        /\ \A v \in Worker : v # w => (RunsSlice(v)' <=> RunsSlice(v)) /\ task'[v] = task[v]
    BY <1>1, <1>2 DEF RunsSlice
  <1>5. \A t : From(t)' = From(t) /\ To(t)' = To(t)
    BY <1>2 DEF From, To, SliceEnd
  <1>6. Mapping' <=> Mapping
    BY <1>2 DEF Mapping
  <1>7. CASE ~Mapping
    <2>1. NoSlices'
      BY <1>2, <1>3, <1>4, <1>7 DEF SliceInv, NoSlices
    <2> QED BY <1>2, <1>6, <1>7, <2>1 DEF SliceInv
  <1>8. CASE Mapping
    <2>1. PICK m \in 0..ThreadCount : Sliced(m)
      BY <1>8 DEF SliceInv
    <2>2. ASSUME NEW k \in DOMAIN taskQueue', taskQueue'[k].list
          PROVE  QueuedSlice(k, taskQueue[k].tid, m)'
      <3> DEFINE t == taskQueue[k + 1].tid
      <3>1. k + 1 \in DOMAIN taskQueue /\ taskQueue'[k] = taskQueue[k + 1] /\ k \in Nat /\ k # 0
        BY <1>3
      <3>2. QueuedSlice(k + 1, t, m)
        BY <2>1, <2>2, <3>1 DEF Sliced
      <3>3. \A j \in DOMAIN taskQueue' : taskQueue'[j].list /\ taskQueue'[j].tid = t => j = k
        BY <1>3, <3>1, <3>2 DEF QueuedSlice
      <3>4. h.list => h.tid # t
        BY <1>3, <3>1, <3>2 DEF QueuedSlice
      <3>5. \A v \in Worker : RunsSlice(v)' => task'[v].tid # t
        BY <1>4, <3>2, <3>4 DEF QueuedSlice
      <3>6. taskQueue'[k].tid = t
        BY <3>1
      <3> HIDE DEF t
      <3> QED BY <1>2, <1>5, <3>1, <3>2, <3>3, <3>5, <3>6 DEF QueuedSlice
    <2>3. ASSUME NEW u \in Worker, RunsSlice(u)'
          PROVE  RunningSlice(u, task[u].tid, m)'
      <3>1. h.list => QueuedSlice(1, h.tid, m)
        BY <1>3, <2>1 DEF Sliced
      <3>2. CASE u = w
        <4> DEFINE t == h.tid
        <4>1. h.list /\ QueuedSlice(1, t, m)
          BY <1>4, <2>3, <3>1, <3>2
        <4>2. t \in Nat /\ From(t) < loop.count
          <5>1. t \in 0..(ThreadCount - 1) /\ ThreadCount \in Nat
            BY <1>3, ThreadCountType DEF Task, Lists
          <5>2. t < m
            BY <4>1 DEF QueuedSlice
          <5>3. t \in 0..(m - 1)
            BY <5>1, <5>2
          <5> QED BY <2>1, <5>1, <5>3 DEF Sliced
        <4>3. /\ From(t) \in From(t)..To(t)
              /\ Elements(From(t), From(t)) = <<>>
          <5> HIDE DEF t
          <5>1. From(t) \in Nat /\ To(t) \in Nat /\ From(t) <= To(t)
            BY <1>1, <4>2, SliceNumbers
          <5> QED BY <5>1, ElementsAppend
        <4>4. task'[u] = h /\ task'[u].tid = t
          BY <1>4, <3>2
        <4>5. \A v \in Worker : RunsSlice(v)' /\ task'[v].tid = t => v = u
          BY <1>4, <3>2, <4>1 DEF QueuedSlice
        <4>6. /\ t < m /\ h.next = From(t) /\ h.end = To(t) /\ subLists[t] = <<>>
          BY <4>1 DEF QueuedSlice
        <4> HIDE DEF t
        <4> QED BY <1>2, <1>5, <4>3, <4>4, <4>5, <4>6 DEF RunningSlice
      <3>3. CASE u # w
        <4> DEFINE t == task[u].tid
        <4>1. RunsSlice(u) /\ task'[u] = task[u]
          BY <1>4, <2>3, <3>3
        <4>2. RunningSlice(u, t, m)
          BY <2>1, <4>1 DEF Sliced
        <4>3. \A v \in Worker : RunsSlice(v)' /\ task'[v].tid = t => v = u
          BY <1>4, <3>1, <4>1, <4>2 DEF RunningSlice, QueuedSlice
        <4>4. task'[u].tid = t
          BY <4>1
        <4> HIDE DEF t
        <4> QED BY <1>2, <1>5, <4>1, <4>2, <4>3, <4>4 DEF RunningSlice
      <3> QED BY <3>2, <3>3
    <2>4. ASSUME NEW t \in Lists
          PROVE  OtherSlice(t, m)'
      <3>1. OtherSlice(t, m)
        BY <2>1 DEF Sliced
      <3>2. ASSUME NEW k \in DOMAIN taskQueue, taskQueue[k].list, taskQueue[k].tid = t
            PROVE  \/ \E j \in DOMAIN taskQueue' : taskQueue'[j].list /\ taskQueue'[j].tid = t
                   \/ \E v \in Worker : RunsSlice(v)' /\ task'[v].tid = t
        BY <1>3, <1>4, <3>2
      <3>3. ASSUME NEW v \in Worker, RunsSlice(v), task[v].tid = t
            PROVE  \E u \in Worker : RunsSlice(u)' /\ task'[u].tid = t
        BY <1>4, <3>3
      <3> QED BY <1>2, <1>5, <3>1, <3>2, <3>3 DEF OtherSlice
    <2>5. Sliced(m)'
      BY <1>2, <1>5, <2>1, <2>2, <2>3, <2>4 DEF Sliced
    <2> QED BY <1>2, <1>6, <1>8, <2>1, <2>5 DEF SliceInv
  <1> QED BY <1>7, <1>8

(* A worker handles an element of its slice: only its own list grows. *)
LEMMA SliceRun ==
    ASSUME IInv, SliceInv, NEW w \in Worker, RunElement(w)
    PROVE  SliceInv'
  <1> DEFINE s == task[w].tid
             n == task[w].next
  <1>1. /\ task \in [Worker -> Task] /\ subLists \in [Lists -> Seq(0..MaxCount)]
        /\ loop \in [next : Nat, count : 0..MaxCount]
    BY DEF IInv, TypeOK
  <1>2. /\ pc[w] = "run" /\ n < task[w].end
        /\ task' = [task EXCEPT ![w].next = n + 1]
        /\ subLists' = IF task[w].list THEN [subLists EXCEPT ![s] = Append(@, n)] ELSE subLists
        /\ UNCHANGED <<pc, client, then, loop, taskQueue, failed>>
    BY DEF RunElement, clientVars, poolVars
  <1>3. task[w] \in Task /\ s \in Lists /\ n \in Nat /\ s \in Nat
    BY <1>1, ThreadCountType DEF Task, Lists
  <1>4. /\ task'[w] = [task[w] EXCEPT !.next = n + 1]
        /\ \A v \in Worker : v # w => task'[v] = task[v]
    BY <1>1, <1>2
  <1>5. \A v \in Worker : /\ task'[v].list = task[v].list /\ task'[v].tid = task[v].tid
                         /\ task'[v].end = task[v].end
                         /\ task'[v].next = IF v = w THEN n + 1 ELSE task[v].next
    BY <1>1, <1>3, <1>4 DEF Task
  <1>6. \A v \in Worker : RunsSlice(v)' <=> RunsSlice(v)
    BY <1>2, <1>5 DEF RunsSlice
  <1>7. \A t : From(t)' = From(t) /\ To(t)' = To(t)
    BY <1>2 DEF From, To, SliceEnd
  <1>8. Mapping' <=> Mapping
    BY <1>2 DEF Mapping
  <1>9. \A t \in Lists : t # s => subLists'[t] = subLists[t]
    BY <1>1, <1>2
  <1>10. task[w].list => subLists'[s] = Append(subLists[s], n) /\ RunsSlice(w)
    BY <1>1, <1>2, <1>3 DEF RunsSlice
  <1>11. ~task[w].list => subLists' = subLists
    BY <1>2
  <1> HIDE DEF s, n
  <1>12. CASE ~Mapping
    <2>1. ~task[w].list
      BY <1>2, <1>12 DEF SliceInv, NoSlices, RunsSlice
    <2>2. NoSlices'
      BY <1>2, <1>6, <1>11, <1>12, <2>1 DEF SliceInv, NoSlices
    <2> QED BY <1>2, <1>8, <1>12, <2>2 DEF SliceInv
  <1>13. CASE Mapping
    <2>1. PICK m \in 0..ThreadCount : Sliced(m)
      BY <1>13 DEF SliceInv
    <2>2. ASSUME NEW k \in DOMAIN taskQueue', taskQueue'[k].list
          PROVE  QueuedSlice(k, taskQueue[k].tid, m)'
      <3> DEFINE t == taskQueue[k].tid
      <3>1. taskQueue' = taskQueue /\ QueuedSlice(k, t, m) /\ t \in Lists
        <4>1. taskQueue' = taskQueue /\ QueuedSlice(k, t, m)
          BY <1>2, <2>1, <2>2 DEF Sliced
        <4>2. taskQueue[k] \in Task
          BY <1>2, <2>2 DEF IInv, TypeOK
        <4> QED BY <4>1, <4>2 DEF Task
      <3>2. subLists'[t] = subLists[t]
        BY <1>9, <1>10, <1>11, <3>1 DEF QueuedSlice, s
      <3>3. taskQueue'[k].tid = t
        BY <3>1
      <3> HIDE DEF t
      <3> QED BY <1>5, <1>6, <1>7, <3>1, <3>2, <3>3 DEF QueuedSlice
    <2>3. ASSUME NEW u \in Worker, RunsSlice(u)'
          PROVE  RunningSlice(u, task[u].tid, m)'
      <3> DEFINE t == task[u].tid
      <3>1. RunsSlice(u) /\ RunningSlice(u, t, m) /\ task'[u].tid = t /\ t \in Lists
        BY <1>1, <1>5, <1>6, <2>1, <2>3 DEF Sliced, Task
      <3>2. \A v \in Worker : RunsSlice(v)' /\ task'[v].tid = t => v = u
        BY <1>5, <1>6, <3>1 DEF RunningSlice
      <3>3. CASE u = w
        <4>1. task[w].list /\ t = s
          BY <3>1, <3>3 DEF RunsSlice, s
        <4>2. /\ n \in From(s)..To(s) /\ n < To(s) /\ s < m
              /\ subLists[s] = Elements(From(s), n)
          BY <1>2, <3>1, <3>3, <4>1 DEF RunningSlice, n
        <4>3. From(s) \in Nat /\ To(s) \in Nat
          BY <1>1, <1>3, SliceNumbers
        <4>4. subLists'[s] = Elements(From(s), n + 1)
          <5>1. From(s) <= n
            BY <4>2, <4>3
          <5>2. Append(Elements(From(s), n), n) = Elements(From(s), n + 1)
            BY <1>3, <4>3, <5>1, ElementsAppend
          <5> QED BY <1>10, <4>1, <4>2, <5>2
        <4>5. n + 1 \in From(s)..To(s)
          BY <1>3, <4>2, <4>3
        <4> HIDE DEF t
        <4> QED
          BY <1>5, <1>7, <3>1, <3>2, <3>3, <4>1, <4>2, <4>4, <4>5 DEF RunningSlice
      <3>4. CASE u # w
        <4>1. subLists'[t] = subLists[t]
          BY <1>9, <1>10, <1>11, <3>1, <3>4 DEF RunningSlice, s
        <4>2. task'[u] = task[u]
          BY <1>4, <3>4
        <4> HIDE DEF t
        <4> QED
          BY <1>7, <3>1, <3>2, <4>1, <4>2 DEF RunningSlice
      <3> QED BY <3>3, <3>4
    <2>4. ASSUME NEW t \in Lists
          PROVE  OtherSlice(t, m)'
      <3>1. OtherSlice(t, m)
        BY <2>1 DEF Sliced
      <3>2. CASE t = s /\ task[w].list
        <4>1. RunsSlice(w) /\ task[w].tid = t /\ t < m
          BY <1>10, <2>1, <3>2 DEF Sliced, RunningSlice, s
        <4>2. RunsSlice(w)' /\ task'[w].tid = t
          BY <1>5, <1>6, <4>1
        <4>3. ~(t >= m)
          BY <4>1, <3>2, <1>3, ThreadCountType
        <4> QED BY <4>2, <4>3 DEF OtherSlice
      <3>3. CASE ~(t = s /\ task[w].list)
        <4>1. subLists'[t] = subLists[t]
          BY <1>9, <1>11, <3>3
        <4> QED BY <1>2, <1>5, <1>6, <1>7, <3>1, <4>1 DEF OtherSlice
      <3> QED BY <3>2, <3>3
    <2>5. Sliced(m)'
      BY <1>2, <1>7, <2>1, <2>2, <2>3, <2>4 DEF Sliced
    <2> QED BY <1>2, <1>8, <1>13, <2>1, <2>5 DEF SliceInv
  <1> QED BY <1>12, <1>13

(* A task ends: a slice that ended without an error is complete. *)
LEMMA SliceComplete ==
    ASSUME IInv, SliceInv, NEW w \in Worker, Complete(w)
    PROVE  SliceInv'
  <1>1. /\ pc \in [Worker -> {"fetch", "waiting", "run", "notify", "exited"}]
        /\ task \in [Worker -> Task] /\ loop \in [next : Nat, count : 0..MaxCount]
        /\ failed \in BOOLEAN
    BY DEF IInv, TypeOK
  <1>2. PICK error \in BOOLEAN :
           /\ pc[w] = "run" /\ (error <=> task[w].next < task[w].end)
           /\ failed' = (failed \/ error)
           /\ pc' = [pc EXCEPT ![w] = "notify"]
           /\ UNCHANGED <<task, client, then, loop, taskQueue, subLists>>
    BY DEF Complete, clientVars
  <1>3. /\ ~RunsSlice(w)'
        /\ \A v \in Worker : v # w => (RunsSlice(v)' <=> RunsSlice(v))
    BY <1>1, <1>2 DEF RunsSlice
  <1>4. \A t : From(t)' = From(t) /\ To(t)' = To(t)
    BY <1>2 DEF From, To, SliceEnd
  <1>5. Mapping' <=> Mapping
    BY <1>2 DEF Mapping
  <1>6. CASE ~Mapping
    <2>1. NoSlices'
      BY <1>2, <1>3, <1>6 DEF SliceInv, NoSlices
    <2> QED BY <1>2, <1>5, <1>6, <2>1 DEF SliceInv
  <1>7. CASE Mapping
    <2>1. PICK m \in 0..ThreadCount : Sliced(m)
      BY <1>7 DEF SliceInv
    <2>2. ASSUME NEW k \in DOMAIN taskQueue', taskQueue'[k].list
          PROVE  QueuedSlice(k, taskQueue[k].tid, m)'
      BY <1>2, <1>3, <1>4, <2>1, <2>2 DEF Sliced, QueuedSlice
    <2>3. ASSUME NEW u \in Worker, RunsSlice(u)'
          PROVE  RunningSlice(u, task[u].tid, m)'
      BY <1>2, <1>3, <1>4, <2>1, <2>3 DEF Sliced, RunningSlice
    <2>4. ASSUME NEW t \in Lists
          PROVE  OtherSlice(t, m)'
      <3>1. OtherSlice(t, m)
        BY <2>1 DEF Sliced
      <3>2. CASE RunsSlice(w) /\ task[w].tid = t
        <4>1. /\ t < m /\ task[w].next \in From(t)..To(t) /\ task[w].end = To(t)
              /\ subLists[t] = Elements(From(t), task[w].next)
          BY <2>1, <3>2 DEF Sliced, RunningSlice
        <4>2. t \in Nat /\ From(t) \in Nat /\ To(t) \in Nat
          <5>1. t \in Nat
            BY ThreadCountType DEF Lists
          <5> QED BY <1>1, <5>1, SliceNumbers
        <4>3. error \/ task[w].next = To(t)
          BY <1>2, <4>1, <4>2
        <4>4. failed' \/ subLists'[t] = Elements(From(t), To(t))
          BY <1>2, <4>1, <4>3
        <4>5. ~(t >= m)
          BY <4>1, <4>2
        <4> QED BY <1>4, <4>4, <4>5 DEF OtherSlice
      <3>3. CASE ~(RunsSlice(w) /\ task[w].tid = t)
        BY <1>2, <1>3, <1>4, <3>1, <3>3 DEF OtherSlice
      <3> QED BY <3>2, <3>3
    <2>5. Sliced(m)'
      BY <1>2, <1>4, <2>1, <2>2, <2>3, <2>4 DEF Sliced
    <2> QED BY <1>2, <1>5, <1>7, <2>1, <2>5 DEF SliceInv
  <1> QED BY <1>6, <1>7

(* The other steps of workers. *)
LEMMA SliceIdle ==
    ASSUME IInv, SliceInv, NEW w \in Worker,
           (Fetch(w) /\ taskQueue = <<>>) \/ WakeUp(w) \/ NotifyClient(w)
    PROVE  SliceInv'
  <1>1. pc \in [Worker -> {"fetch", "waiting", "run", "notify", "exited"}]
    BY DEF IInv, TypeOK
  <1>2. /\ UNCHANGED <<loop, taskQueue, task, subLists, failed, then>>
        /\ client' = client \/ (client' = "wait" /\ client = "blocked")
        /\ \A v \in Worker : pc'[v] = "run" <=> pc[v] = "run"
    BY <1>1 DEF Fetch, WakeUp, NotifyClient, ClientWoken, clientVars, poolVars
  <1>3. Mapping' <=> Mapping
    BY <1>2 DEF Mapping
  <1>4. /\ \A m \in Nat : Sliced(m) => Sliced(m)'
        /\ NoSlices => NoSlices'
    BY <1>2, SlicedFrame
  <1>5. IF Mapping THEN \E m \in 0..ThreadCount : Sliced(m)' ELSE NoSlices'
    BY <1>4, ThreadCountType DEF SliceInv
  <1> QED BY <1>2, <1>3, <1>5 DEF SliceInv

(* A slice is enqueued: it is the next one, and belongs to a list that is  *)
(* still empty.                                                            *)
LEMMA SliceEnqueued ==
    ASSUME IInv, SliceInv, AsyncSlice, loop.next < loop.count
    PROVE  SliceInv'
  <1> DEFINE x == Slice(loop)
             L == Len(taskQueue)
  <1>1. /\ taskQueue \in Seq(Task) /\ L \in Nat
        /\ task \in [Worker -> Task] /\ loop \in [next : Nat, count : 0..MaxCount]
    BY DEF IInv, TypeOK
  <1>2. /\ client = "map" /\ client' = "notify" /\ then = "splice" /\ then' = then
        /\ taskQueue' = Append(taskQueue, x)
        /\ loop' = [loop EXCEPT !.next = @ + ElementsPerThread(loop.count)]
        /\ UNCHANGED <<pc, task, subLists, failed>>
    BY DEF AsyncSlice, Enqueue, SliceInv
  <1>3. Mapping /\ Mapping'
    BY <1>2 DEF Mapping
  <1>4. PICK m \in 0..ThreadCount : Sliced(m)
    BY <1>3 DEF SliceInv
  <1>5. /\ m \in Nat /\ loop.next = From(m) /\ m < ThreadCount
        /\ x.tid = m /\ x.end = To(m) /\ x.next = From(m) /\ x.list
        /\ From(m + 1) = From(m) + ElementsPerThread(loop.count)
    <2>1. m \in Nat /\ loop.next = From(m)
      BY <1>4, ThreadCountType DEF Sliced
    <2>2. x.next = From(m) /\ x.list
      BY <2>1 DEF Slice
    <2> QED BY <1>1, <2>1, <2>2, SliceNumbers
  <1>6. x \in Task /\ loop.count = loop'.count
        /\ loop'.next = From(m + 1)
    BY <1>1, <1>2, <1>5, SliceType
  <1> HIDE DEF x
  <1>7. \A t : From(t)' = From(t)
    BY <1>6 DEF From
  <1>8. \A t : To(t)' = To(t)
    <2> TAKE t
    <2>1. [loop EXCEPT !.next = From(t)]' = [loop EXCEPT !.next = From(t)]
      BY <1>1, <1>2, <1>7
    <2> QED BY <2>1 DEF To, SliceEnd
  <1>9. /\ DOMAIN taskQueue = 1..L /\ DOMAIN taskQueue' = 1..(L + 1)
        /\ taskQueue'[L + 1] = x
        /\ \A k \in 1..L : taskQueue'[k] = taskQueue[k]
    BY <1>1, <1>2, <1>6
  <1>10. \A v \in Worker : RunsSlice(v)' <=> RunsSlice(v)
    BY <1>2 DEF RunsSlice
  <1> HIDE DEF L
  <1>11. \A k \in 1..L : taskQueue[k].list => taskQueue[k].tid < m /\ taskQueue[k].tid \in Nat
    <2> SUFFICES ASSUME NEW k \in 1..L, taskQueue[k].list
                 PROVE  taskQueue[k].tid < m /\ taskQueue[k].tid \in Nat
      OBVIOUS
    <2>1. QueuedSlice(k, taskQueue[k].tid, m)
      BY <1>4, <1>9 DEF Sliced
    <2>2. taskQueue[k] \in Task
      BY <1>1, <1>9
    <2> QED BY <2>1, <2>2, ThreadCountType DEF QueuedSlice, Task, Lists
  <1>12. \A v \in Worker : RunsSlice(v) => task[v].tid < m /\ task[v].tid \in Nat
    <2> SUFFICES ASSUME NEW v \in Worker, RunsSlice(v)
                 PROVE  task[v].tid < m /\ task[v].tid \in Nat
      OBVIOUS
    <2>1. RunningSlice(v, task[v].tid, m)
      BY <1>4 DEF Sliced
    <2>2. task[v] \in Task
      BY <1>1
    <2> QED BY <2>1, <2>2, ThreadCountType DEF RunningSlice, Task, Lists
  <1>13. m \in Lists /\ subLists[m] = <<>>
    <2>1. m \in Lists
      BY <1>5, ThreadCountType DEF Lists
    <2> QED BY <1>4, <1>5, <2>1 DEF Sliced, OtherSlice
  <1>14. ASSUME NEW k \in DOMAIN taskQueue', taskQueue'[k].list
         PROVE  QueuedSlice(k, taskQueue[k].tid, m + 1)'
    <2>1. CASE k = L + 1
      <3>1. taskQueue'[k] = x /\ taskQueue'[k].tid = m
        BY <1>5, <1>9, <2>1
      <3>2. \A j \in DOMAIN taskQueue' : taskQueue'[j].list /\ taskQueue'[j].tid = m => j = k
        BY <1>1, <1>5, <1>9, <1>11, <2>1
      <3>3. \A v \in Worker : RunsSlice(v)' => task'[v].tid # m
        BY <1>2, <1>5, <1>10, <1>12
      <3>4. m < m + 1 /\ subLists'[m] = <<>>
        BY <1>2, <1>5, <1>13
      <3>5. From(m)' = From(m) /\ To(m)' = To(m)
        BY <1>7, <1>8
      <3> QED BY <1>5, <3>1, <3>2, <3>3, <3>4, <3>5 DEF QueuedSlice
    <2>2. CASE k # L + 1
      <3> DEFINE t == taskQueue[k].tid
      <3>1. k \in 1..L /\ taskQueue'[k] = taskQueue[k] /\ taskQueue'[k].tid = t
        BY <1>1, <1>9, <2>2
      <3>2. QueuedSlice(k, t, m) /\ t < m /\ t \in Nat
        BY <1>4, <1>9, <1>11, <1>14, <3>1 DEF Sliced
      <3>3. \A j \in DOMAIN taskQueue' : taskQueue'[j].list /\ taskQueue'[j].tid = t => j = k
        BY <1>1, <1>5, <1>9, <3>2 DEF QueuedSlice
      <3>4. t < m + 1
        BY <1>5, <3>2
      <3> HIDE DEF t
      <3> QED BY <1>2, <1>7, <1>8, <1>10, <3>1, <3>2, <3>3, <3>4 DEF QueuedSlice
    <2> QED BY <2>1, <2>2
  <1>15. ASSUME NEW v \in Worker, RunsSlice(v)'
         PROVE  RunningSlice(v, task[v].tid, m + 1)'
    <2>1. RunningSlice(v, task[v].tid, m) /\ task[v].tid < m + 1
      BY <1>4, <1>5, <1>10, <1>12, <1>15 DEF Sliced
    <2> QED BY <1>2, <1>7, <1>8, <1>10, <2>1 DEF RunningSlice
  <1>16. ASSUME NEW t \in Lists
         PROVE  OtherSlice(t, m + 1)'
    <2>1. OtherSlice(t, m) /\ t \in Nat
      BY <1>4, ThreadCountType DEF Sliced, Lists
    <2>2. CASE t = m
      <3>1. L + 1 \in DOMAIN taskQueue' /\ taskQueue'[L + 1].list /\ taskQueue'[L + 1].tid = t
        BY <1>1, <1>5, <1>9, <2>2
      <3>2. ~(t >= m + 1)
        BY <2>1, <2>2
      <3> QED BY <3>1, <3>2 DEF OtherSlice
    <2>3. CASE t # m
      <3>1. /\ t >= m + 1 => t >= m
            /\ t < m + 1 => t < m
        BY <1>5, <2>1, <2>3
      <3>2. (\E k \in DOMAIN taskQueue : taskQueue[k].list /\ taskQueue[k].tid = t)
               => \E k \in DOMAIN taskQueue' : taskQueue'[k].list /\ taskQueue'[k].tid = t
        BY <1>1, <1>9
      <3> QED BY <1>2, <1>7, <1>8, <1>10, <2>1, <3>1, <3>2 DEF OtherSlice
    <2> QED BY <2>2, <2>3
  <1>17. /\ loop'.next = From(m + 1)' /\ m + 1 \in 0..ThreadCount
         /\ \A t \in 0..((m + 1) - 1) : From(t)' < loop'.count
    <2>1. \A t \in 0..((m + 1) - 1) : t = m \/ t \in 0..(m - 1)
      BY <1>5
    <2> QED BY <1>4, <1>5, <1>6, <1>7, <2>1, ThreadCountType DEF Sliced
  <1>18. Sliced(m + 1)'
    BY <1>14, <1>15, <1>16, <1>17 DEF Sliced
  <1> QED BY <1>2, <1>3, <1>17, <1>18 DEF SliceInv

(* Nothing is under way when no task is queued and none runs. *)
LEMMA QuietNoSlices ==
    ASSUME taskQueue = <<>>, \A w \in Worker : pc[w] # "run", subLists = NoResults
    PROVE  NoSlices
  BY DEF NoSlices, RunsSlice

(* The other steps of the client. *)
LEMMA SliceClient ==
    ASSUME IInv, SliceInv, ClientStep \/ ClientWakeUp,
           ~(AsyncSlice /\ loop.next < loop.count)
    PROVE  SliceInv'
  <1> USE ThreadPoolAssumption
  <1>1. /\ pc \in [Worker -> {"fetch", "waiting", "run", "notify", "exited"}]
        /\ taskQueue \in Seq(Task) /\ loop \in [next : Nat, count : 0..MaxCount]
        /\ failed \in BOOLEAN /\ errorString \in BOOLEAN /\ ThreadCount \in Nat
    BY ThreadCountType DEF IInv, TypeOK
  <1>2. ASSUME UNCHANGED <<loop, taskQueue, task, subLists>>, failed => failed',
               \A w \in Worker : pc'[w] = "run" <=> pc[w] = "run",
               Mapping' <=> Mapping, client' \in {"map", "splice"} => then' = "splice",
               Mapping /\ client' \in {"wait", "blocked", "splice"} => loop.next >= loop.count
        PROVE  SliceInv'
    <2>1. /\ \A m \in Nat : Sliced(m) => Sliced(m)'
          /\ NoSlices => NoSlices'
      BY <1>2, SlicedFrame
    <2>2. IF Mapping THEN \E m \in 0..ThreadCount : Sliced(m)' ELSE NoSlices'
      BY <2>1, ThreadCountType DEF SliceInv
    <2> QED BY <1>2, <2>2 DEF SliceInv
  <1>3. CASE BeginCall /\ client' = "map"
    <2>1. /\ client = "idle" /\ then' = "splice" /\ loop'.next = 0 /\ loop'.count \in Nat
          /\ loop' \in [next : Nat, count : 0..MaxCount]
          /\ UNCHANGED <<pc, task, taskQueue, subLists, failed>>
      BY <1>3 DEF BeginCall, poolVars
    <2>2. Mapping' /\ NoSlices
      BY <1>3, <2>1 DEF Mapping, SliceInv
    <2>3. From(0)' = 0
      <3>1. ElementsPerThread(loop'.count) \in Nat
        BY <2>1, ElementsCover
      <3>2. 0 * ElementsPerThread(loop'.count) = 0
        BY <3>1
      <3> QED BY <3>2 DEF From
    <2>4. \A t \in Lists : OtherSlice(t, 0)'
      <3>1. \A t \in Lists : t \in Nat /\ subLists'[t] = <<>>
        BY <1>1, <2>1, <2>2 DEF Lists, NoSlices, NoResults
      <3>2. \A t \in Nat : ~(t < 0)
        OBVIOUS
      <3> QED BY <3>1, <3>2 DEF OtherSlice
    <2>5. Sliced(0)'
      <3>1. \A k \in DOMAIN taskQueue' : ~taskQueue'[k].list
        BY <2>1, <2>2 DEF NoSlices
      <3>2. \A w \in Worker : ~RunsSlice(w)'
        BY <2>1, <2>2 DEF NoSlices, RunsSlice
      <3>3. \A t \in 0..(0 - 1) : FALSE
        OBVIOUS
      <3> QED BY <2>1, <2>3, <2>4, <3>1, <3>2, <3>3 DEF Sliced
    <2>6. 0 \in 0..ThreadCount
      BY ThreadCountType
    <2> QED BY <1>3, <2>1, <2>2, <2>5, <2>6 DEF SliceInv
  <1>4. CASE (BeginCall /\ client' # "map") \/ BeginDestroy
    <2>1. /\ UNCHANGED <<loop, taskQueue, task, subLists, failed, pc>>
          /\ client = "idle" /\ client' \in {"async", "wait"}
          /\ client' = "wait" => then' # "splice"
      BY <1>4 DEF BeginCall, BeginDestroy, poolVars
    <2>2. ~Mapping /\ ~Mapping'
      BY <2>1 DEF Mapping
    <2> QED BY <1>2, <2>1, <2>2
  <1>5. CASE AsyncTask
    <2>1. /\ client = "async" /\ client' = "notify" /\ then' = "idle"
          /\ taskQueue' = Append(taskQueue, PlainTask)
          /\ UNCHANGED <<pc, task, subLists>>
      BY <1>5 DEF AsyncTask, Enqueue
    <2>2. ~Mapping /\ ~Mapping' /\ NoSlices
      BY <2>1 DEF Mapping, SliceInv
    <2>3. \A k \in DOMAIN taskQueue' : taskQueue'[k] = PlainTask
                                       \/ (k \in DOMAIN taskQueue /\ taskQueue'[k] = taskQueue[k])
      BY <1>1, <2>1
    <2>4. ~PlainTask.list
      BY DEF PlainTask
    <2>5. NoSlices'
      BY <2>1, <2>2, <2>3, <2>4 DEF NoSlices, RunsSlice
    <2> QED BY <2>1, <2>2, <2>5 DEF SliceInv
  <1>6. CASE AsyncSlice
    <2>1. /\ UNCHANGED <<loop, taskQueue, task, subLists, failed, pc, then>>
          /\ client = "map" /\ client' = "wait" /\ loop.next >= loop.count
      BY <1>1, <1>6 DEF AsyncSlice
    <2>2. Mapping' <=> Mapping
      BY <2>1 DEF Mapping
    <2> QED BY <1>2, <2>1, <2>2
  <1>7. CASE NotifyWorker
    <2>1. /\ UNCHANGED <<loop, taskQueue, task, subLists, failed, then>>
          /\ client = "notify" /\ client' = IF then = "splice" THEN "map" ELSE "idle"
      BY <1>7 DEF NotifyWorker, poolVars
    <2>2. \A w \in Worker : pc'[w] = "run" <=> pc[w] = "run"
      BY <1>1, <1>7 DEF NotifyWorker
    <2>3. Mapping' <=> Mapping
      BY <2>1 DEF Mapping
    <2> QED BY <1>2, <2>1, <2>2, <2>3
  <1>8. CASE NotifyAll \/ Join \/ RequestExit
    <2>1. /\ UNCHANGED <<loop, taskQueue, task, subLists, failed, then>>
          /\ client \in {"notifyAll", "join", "exit"}
          /\ client' \in {"join", "destroyed", "notifyAll"}
      BY <1>8 DEF NotifyAll, Join, RequestExit, poolVars
    <2>2. \A w \in Worker : pc'[w] = "run" <=> pc[w] = "run"
      BY <1>1, <1>8 DEF NotifyAll, Join, RequestExit, Woken
    <2>3. ~Mapping' /\ ~Mapping
      BY <2>1 DEF Mapping
    <2> QED BY <1>2, <2>1, <2>2, <2>3
  <1>9. CASE ClientWakeUp
    <2>1. /\ UNCHANGED <<loop, taskQueue, task, subLists, failed, then, pc>>
          /\ client = "blocked" /\ client' = "wait"
      BY <1>9 DEF ClientWakeUp, poolVars
    <2>2. Mapping' <=> Mapping
      BY <2>1 DEF Mapping
    <2> QED BY <1>2, <2>1, <2>2 DEF SliceInv
  <1>10. CASE Splice
    <2>1. /\ client = "splice" /\ client' = "idle" /\ subLists' = NoResults
          /\ UNCHANGED <<taskQueue, pc, task>>
      BY <1>10 DEF Splice, poolVars
    <2>2. taskQueue = <<>> /\ \A w \in Worker : pc[w] # "run"
      BY <2>1 DEF IInv, QuietOnReturn, Returned
    <2>3. NoSlices'
      BY <2>1, <2>2 DEF NoSlices, RunsSlice
    <2>4. ~Mapping'
      BY <2>1 DEF Mapping
    <2> QED BY <2>1, <2>3, <2>4 DEF SliceInv
  <1>11. CASE WaitForIdle
    <2>1. /\ client = "wait"
          /\ UNCHANGED <<pc, task, then, loop, taskQueue>>
          /\ ~IsIdle => client' = "blocked"
          /\ IsIdle /\ ~errorString => client' = then
          /\ IsIdle /\ errorString => client' \in {"terminated", "idle"}
          /\ IsIdle /\ errorString => subLists' = NoResults
          /\ ~(IsIdle /\ errorString) => subLists' = subLists /\ failed' = failed
      BY <1>11 DEF WaitForIdle
    <2>2. then \in {"idle", "splice", "exit"}
      BY DEF IInv, TypeOK
    <2>3. CASE IsIdle /\ errorString
      <3>1. Len(taskQueue) = 0 /\ Cardinality(Running) = 0
        <4>1. /\ tasksEnqueued \in Nat /\ tasksCompleted \in Nat /\ Len(taskQueue) \in Nat
              /\ tasksEnqueued = tasksCompleted + Len(taskQueue) + Cardinality(Running)
              /\ tasksEnqueued = tasksCompleted
          BY <1>1, <2>3 DEF IInv, TypeOK, TasksCounted, IsIdle
        <4> QED BY <4>1, RunningType
      <3>2. taskQueue = <<>> /\ \A w \in Worker : pc[w] # "run"
        BY <1>1, <3>1, NobodyRuns
      <3>3. NoSlices'
        BY <2>1, <2>3, <3>2 DEF NoSlices, RunsSlice
      <3>4. ~Mapping' /\ client' \notin {"map", "splice"}
        BY <2>1, <2>3 DEF Mapping
      <3> QED BY <3>3, <3>4 DEF SliceInv
    <2>4. CASE ~(IsIdle /\ errorString)
      <3>1. Mapping' <=> Mapping
        BY <2>1, <2>2, <2>4 DEF Mapping
      <3>2. client' \in {"map", "splice"} => then' = "splice"
        BY <2>1, <2>2, <2>4
      <3>3. Mapping => loop.next >= loop.count
        BY <2>1 DEF SliceInv
      <3> QED BY <1>2, <2>1, <2>4, <3>1, <3>2, <3>3
    <2> QED BY <2>3, <2>4
  <1> QED
    BY <1>3, <1>4, <1>5, <1>6, <1>7, <1>8, <1>9, <1>10, <1>11 DEF ClientStep

(* SliceInv is an invariant of the thread pool. *)
THEOREM SliceInvariance == Spec => []SliceInv
  <1>1. SliceInv /\ UNCHANGED vars => SliceInv'
    <2> SUFFICES ASSUME SliceInv, UNCHANGED vars PROVE SliceInv'
      OBVIOUS
    <2>1. UNCHANGED <<pc, task, client, then, loop, taskQueue, subLists, failed>>
      BY DEF vars
    <2>2. /\ \A m \in Nat : Sliced(m) => Sliced(m)'
          /\ NoSlices => NoSlices'
      BY <2>1, SlicedFrame
    <2>3. Mapping' <=> Mapping
      BY <2>1 DEF Mapping
    <2>4. IF Mapping THEN \E m \in 0..ThreadCount : Sliced(m)' ELSE NoSlices'
      BY <2>2, ThreadCountType DEF SliceInv
    <2> QED BY <2>1, <2>3, <2>4 DEF SliceInv
  <1>2. IInv /\ SliceInv /\ Next => SliceInv'
    <2>1. ASSUME IInv, SliceInv, NEW w \in Worker, WorkerStep(w) \/ WakeUp(w)
          PROVE  SliceInv'
      BY <2>1, SliceFetch, SliceRun, SliceComplete, SliceIdle DEF WorkerStep
    <2>2. ASSUME IInv, SliceInv, ClientStep \/ ClientWakeUp
          PROVE  SliceInv'
      BY <2>2, SliceEnqueued, SliceClient
    <2> QED BY <1>1, <2>1, <2>2 DEF Next, Spurious, Over
  <1> QED BY Invariance, SliceInit, <1>1, <1>2, PTL DEF Spec

(* MapToList appends consecutive pieces of the loop: every element once,   *)
(* in order, for every number of workers and elements.                     *)
THEOREM MapToListExactHolds == Spec => []MapToListExact
  <1>1. IInv /\ SliceInv => MapToListExact
    <2> SUFFICES ASSUME IInv, SliceInv, client = "splice" PROVE MapToListExact
      BY DEF MapToListExact
    <2> DEFINE T == ThreadCount
               n == loop.count
               cut == [t \in 0..T |-> IF From(t) <= n THEN From(t) ELSE n]
    <2>1. /\ loop \in [next : Nat, count : 0..MaxCount] /\ n \in Nat /\ T \in Nat \ {0}
      BY ThreadPoolAssumption, ThreadCountType DEF IInv, TypeOK
    <2>2. \A t \in Nat : From(t) \in Nat
      BY <2>1, SliceNumbers
    <2>3. From(0) = 0 /\ From(T) >= n
      BY <2>1, SliceNumbers
    <2>4. cut \in [0..T -> 0..n] /\ cut[0] = 0 /\ cut[T] = n
      <3> HIDE DEF n, T
      <3>1. From(T) \in Nat /\ 0 \in 0..T /\ T \in 0..T
        BY <2>1, <2>2
      <3>2. \A t \in 0..T : From(t) \in Nat
        BY <2>1, <2>2
      <3>3. cut \in [0..T -> 0..n]
        BY <2>1, <3>2
      <3>4. cut[0] = 0
        BY <2>1, <2>3, <3>1
      <3>5. cut[T] = n
        BY <2>1, <2>3, <3>1
      <3> QED BY <3>3, <3>4, <3>5
    <2>5. taskQueue = <<>> /\ (\A w \in Worker : pc[w] # "run") /\ ~failed
      BY DEF IInv, QuietOnReturn, ErrorReported, Returned
    <2>6. Mapping /\ loop.next >= n
      BY DEF Mapping, SliceInv
    <2>7. PICK m \in 0..T : Sliced(m)
      BY <2>6 DEF SliceInv
    <2>8. m \in Nat /\ From(m) >= n
      BY <2>1, <2>6, <2>7 DEF Sliced
    <2>9. ASSUME NEW t \in Lists
          PROVE  cut[t] <= cut[t + 1] /\ subLists[t] = Elements(cut[t], cut[t + 1])
      <3>1. t \in Nat /\ t \in 0..T /\ t + 1 \in 0..T
        BY <2>1 DEF Lists
      <3>2. /\ From(t) \in Nat /\ From(t + 1) \in Nat /\ From(t) <= From(t + 1)
            /\ To(t) = IF From(t + 1) <= n THEN From(t + 1) ELSE n
        BY <2>1, <3>1, SliceNumbers
      <3>3. /\ cut[t] = IF From(t) <= n THEN From(t) ELSE n
            /\ cut[t + 1] = To(t)
        BY <3>1, <3>2
      <3>4. OtherSlice(t, m)
        BY <2>7 DEF Sliced
      <3> HIDE DEF cut, n, T
      <3>5. CASE t < m
        <4>1. From(t) < n
          <5>1. t \in 0..(m - 1)
            BY <2>8, <3>1, <3>5
          <5> QED BY <2>7, <5>1 DEF Sliced, n
        <4>2. subLists[t] = Elements(From(t), To(t))
          BY <2>5, <3>4, <3>5 DEF OtherSlice, RunsSlice
        <4> QED BY <2>1, <3>2, <3>3, <4>1, <4>2
      <3>6. CASE ~(t < m)
        <4>1. t >= m /\ From(m) <= From(t) /\ From(m) \in Nat
          BY <2>1, <2>8, <3>1, <3>6, SliceNumbers
        <4>2. cut[t] = n /\ cut[t + 1] = n
          BY <2>1, <2>8, <3>2, <3>3, <4>1
        <4>3. subLists[t] = <<>> /\ Elements(n, n) = <<>>
          BY <2>1, <3>4, <4>1, ElementsAppend DEF OtherSlice
        <4> QED BY <2>1, <4>2, <4>3
      <3> QED BY <3>5, <3>6
    <2> HIDE DEF cut
    <2> QED BY <2>4, <2>9 DEF MapToListExact
  <1> QED BY Invariance, SliceInvariance, <1>1, PTL
=============================================================================
