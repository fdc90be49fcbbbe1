----------------------------- MODULE ThreadPool -----------------------------
(***************************************************************************)
(* The compiler's thread pool (thread_pool.cpp, thread_pool.h): workers    *)
(* take callbacks from a queue under one mutex; a client enqueues tasks    *)
(* (Async), waits for all of them (WaitForIdle), collects the results of a *)
(* parallel loop in order (MapToList) and destroys the pool.               *)
(*                                                                         *)
(* A critical section is one step, since everything shared is touched only *)
(* under the mutex.  A callback is one step per element, notifications are *)
(* steps of their own because they happen after the unlock, and a thread   *)
(* blocked on a condition variable may wake up spuriously.  There is one   *)
(* client, as in the compiler.                                             *)
(***************************************************************************)
EXTENDS Naturals, Sequences, SequencesExt, FiniteSets, FiniteSetsExt

CONSTANTS Worker,
          MaxCount,   \* bound: elements of a parallel loop
          MaxCalls    \* bound: operations of the client before it destroys the pool

VARIABLES pc, task,                 \* of the workers
          client,                   \* where the client is
          then,                     \* what it does when WaitForIdle is over
          loop,                     \* the parallel loop it is in: next element and count
          calls,                    \* operations done
          taskQueue, shouldExit, tasksEnqueued, tasksCompleted, errorString,
          subLists,                 \* results of the parallel loop, per slice
          failed                    \* a task failed since the last error was thrown

vars == <<pc, task, client, then, loop, calls, taskQueue, shouldExit,
          tasksEnqueued, tasksCompleted, errorString, subLists, failed>>

poolVars == <<taskQueue, shouldExit, tasksEnqueued, tasksCompleted, errorString>>
clientVars == <<client, then, loop, calls>>

ASSUME ThreadPoolAssumption ==
    IsFiniteSet(Worker) /\ Worker # {} /\ MaxCount \in Nat /\ MaxCalls \in Nat

ThreadCount == Cardinality(Worker)
Lists == 0..(ThreadCount - 1)

(* A callback: elements next..end-1 of a parallel loop appended to list    *)
(* tid, or, with list = FALSE, something else in one step.                 *)
Task == [list : BOOLEAN, tid : Lists, next : 0..(MaxCount + 1), end : 0..(MaxCount + 1)]
PlainTask == [list |-> FALSE, tid |-> 0, next |-> 0, end |-> 1]
NoTask == [list |-> FALSE, tid |-> 0, next |-> 0, end |-> 0]

NoResults == [t \in Lists |-> <<>>]
-----------------------------------------------------------------------------
Init ==
    /\ pc = [w \in Worker |-> "fetch"] /\ task = [w \in Worker |-> NoTask]
    /\ client = "idle" /\ then = "idle" /\ loop = [next |-> 0, count |-> 0] /\ calls = 0
    /\ taskQueue = <<>> /\ shouldExit = FALSE
    /\ tasksEnqueued = 0 /\ tasksCompleted = 0 /\ errorString = FALSE
    /\ subLists = NoResults /\ failed = FALSE

(* Workers: the loop of ThreadFunction. *)
Fetch(w) ==
    /\ pc[w] = "fetch"
    /\ IF taskQueue # <<>>
       THEN /\ task' = [task EXCEPT ![w] = Head(taskQueue)]
            /\ taskQueue' = Tail(taskQueue)
            /\ pc' = [pc EXCEPT ![w] = "run"]
       ELSE /\ pc' = [pc EXCEPT ![w] = IF shouldExit THEN "exited" ELSE "waiting"]
            /\ UNCHANGED <<task, taskQueue>>
    /\ UNCHANGED <<clientVars, shouldExit, tasksEnqueued, tasksCompleted,
                   errorString, subLists, failed>>

WakeUp(w) ==
    /\ pc[w] = "waiting"
    /\ pc' = [pc EXCEPT ![w] = "fetch"]
    /\ UNCHANGED <<task, clientVars, poolVars, subLists, failed>>

(* The callback handles an element. *)
RunElement(w) ==
    /\ pc[w] = "run" /\ task[w].next < task[w].end
    /\ task' = [task EXCEPT ![w].next = @ + 1]
    /\ subLists' = IF task[w].list
                   THEN [subLists EXCEPT ![task[w].tid] = Append(@, task[w].next)]
                   ELSE subLists
    /\ UNCHANGED <<pc, clientVars, poolVars, failed>>

MutErrorAfter(error) == error

(* The error kept after a task: the first one since the last was thrown. *)
ErrorAfter(error) == errorString \/ error

(* The callback is over, or throws at an element: the outcome is recorded. *)
Complete(w) ==
    \E error \in BOOLEAN :
        /\ pc[w] = "run"
        /\ error <=> task[w].next < task[w].end
        /\ errorString' = ErrorAfter(error)
        /\ tasksCompleted' = tasksCompleted + 1
        /\ failed' = (failed \/ error)
        /\ pc' = [pc EXCEPT ![w] = "notify"]
        /\ UNCHANGED <<task, clientVars, taskQueue, shouldExit, tasksEnqueued, subLists>>

MutClientWoken == client

(* notify_one on _cvFromThreads: a blocked client looks again. *)
ClientWoken == IF client = "blocked" THEN "wait" ELSE client

NotifyClient(w) ==
    /\ pc[w] = "notify"
    /\ pc' = [pc EXCEPT ![w] = "fetch"]
    /\ client' = ClientWoken
    /\ UNCHANGED <<task, then, loop, calls, poolVars, subLists, failed>>
-----------------------------------------------------------------------------
ElementsPerThread(count) == (count + ThreadCount - 1) \div ThreadCount

MutSliceEnd(l) == l.next + ElementsPerThread(l.count)

SliceEnd(l) == Min({l.next + ElementsPerThread(l.count), l.count})
Slice(l) == [list |-> TRUE, tid |-> l.next \div ElementsPerThread(l.count),
             next |-> l.next, end |-> SliceEnd(l)]

(* The client decides on its next operation. *)
BeginCall ==
    /\ client = "idle" /\ calls < MaxCalls
    /\ calls' = calls + 1
    /\ \/ \E n \in 0..MaxCount :                          \* MapToList
            /\ loop' = [next |-> 0, count |-> n]
            /\ client' = "map" /\ then' = "splice"
       \/ /\ client' = "async"                            \* Async
          /\ UNCHANGED <<then, loop>>
       \/ /\ client' = "wait" /\ then' = "idle"           \* WaitForIdle
          /\ UNCHANGED loop
    /\ UNCHANGED <<pc, task, poolVars, subLists, failed>>

BeginDestroy ==
    /\ client = "idle"
    /\ client' = "wait" /\ then' = "exit"
    /\ UNCHANGED <<pc, task, loop, calls, poolVars, subLists, failed>>

(* Async: the critical section, then notify_one on _cvToThreads. *)
Enqueue(t) == taskQueue' = Append(taskQueue, t) /\ tasksEnqueued' = tasksEnqueued + 1

AsyncTask ==
    /\ client = "async"
    /\ Enqueue(PlainTask)
    /\ client' = "notify"
    /\ then' = "idle"
    /\ UNCHANGED <<pc, task, loop, calls, shouldExit, tasksCompleted,
                   errorString, subLists, failed>>

(* One turn of MapToList's loop, or the end of it. *)
AsyncSlice ==
    /\ client = "map"
    /\ IF loop.next < loop.count
       THEN /\ Enqueue(Slice(loop))
            /\ loop' = [loop EXCEPT !.next = @ + ElementsPerThread(loop.count)]
            /\ client' = "notify"
       ELSE /\ client' = "wait"
            /\ UNCHANGED <<loop, taskQueue, tasksEnqueued>>
    /\ UNCHANGED <<pc, task, then, calls, shouldExit, tasksCompleted,
                   errorString, subLists, failed>>

NotifyWorker ==
    /\ client = "notify"
    /\ client' = IF then = "splice" THEN "map" ELSE "idle"
    /\ IF \E w \in Worker : pc[w] = "waiting"
       THEN \E w \in Worker : pc[w] = "waiting" /\ pc' = [pc EXCEPT ![w] = "fetch"]
       ELSE UNCHANGED pc
    /\ UNCHANGED <<task, then, loop, calls, poolVars, subLists, failed>>

MutIsIdle == taskQueue = <<>>

IsIdle == tasksEnqueued = tasksCompleted

(* The critical section of WaitForIdle: blocks, throws or returns.  In the *)
(* destructor, which is noexcept, throwing ends the program.               *)
WaitForIdle ==
    /\ client = "wait"
    /\ client' = IF ~IsIdle THEN "blocked"
                 ELSE IF ~errorString THEN then
                 ELSE IF then = "exit" THEN "terminated" ELSE "idle"
    /\ errorString' = (errorString /\ ~IsIdle)
    /\ failed' = IF IsIdle /\ errorString THEN FALSE ELSE failed
    /\ subLists' = IF IsIdle /\ errorString THEN NoResults ELSE subLists
    /\ UNCHANGED <<pc, task, then, loop, calls, taskQueue, shouldExit,
                   tasksEnqueued, tasksCompleted>>

ClientWakeUp ==
    /\ client = "blocked"
    /\ client' = "wait"
    /\ UNCHANGED <<pc, task, then, loop, calls, poolVars, subLists, failed>>

(* MapToList appends the lists, in order, to the caller's result. *)
Splice ==
    /\ client = "splice"
    /\ client' = "idle"
    /\ subLists' = NoResults
    /\ UNCHANGED <<pc, task, then, loop, calls, poolVars, failed>>

(* The rest of the destructor. *)
RequestExit ==
    /\ client = "exit"
    /\ client' = "notifyAll" /\ shouldExit' = TRUE
    /\ UNCHANGED <<pc, task, then, loop, calls, taskQueue, tasksEnqueued,
                   tasksCompleted, errorString, subLists, failed>>

MutWoken(w) ==
    IF pc[w] = "waiting" /\ w = CHOOSE v \in Worker : pc[v] = "waiting"
    THEN "fetch" ELSE pc[w]

(* notify_all wakes every waiting worker. *)
Woken(w) == IF pc[w] = "waiting" THEN "fetch" ELSE pc[w]

NotifyAll ==
    /\ client = "notifyAll"
    /\ client' = "join"
    /\ pc' = [w \in Worker |-> Woken(w)]
    /\ UNCHANGED <<task, then, loop, calls, poolVars, subLists, failed>>

Join ==
    /\ client = "join"
    /\ \A w \in Worker : pc[w] = "exited"
    /\ client' = "destroyed"
    /\ UNCHANGED <<pc, task, then, loop, calls, poolVars, subLists, failed>>

Over == client \in {"destroyed", "terminated"} /\ UNCHANGED vars
-----------------------------------------------------------------------------
WorkerStep(w) == Fetch(w) \/ RunElement(w) \/ Complete(w) \/ NotifyClient(w)

ClientStep ==
    \/ BeginCall \/ BeginDestroy \/ AsyncTask \/ AsyncSlice \/ NotifyWorker
    \/ WaitForIdle \/ Splice \/ RequestExit \/ NotifyAll \/ Join

Spurious == ClientWakeUp \/ \E w \in Worker : WakeUp(w)

Next ==
    \/ /\ client # "terminated"
       /\ (\E w \in Worker : WorkerStep(w)) \/ ClientStep \/ Spurious
    \/ Over

Spec == Init /\ [][Next]_vars

(* Threads are scheduled and callbacks end; no help from spurious wake-ups. *)
FairSpec == Spec /\ WF_vars(ClientStep) /\ \A w \in Worker : WF_vars(WorkerStep(w))
-----------------------------------------------------------------------------
(* The pool's fields keep their types, and no thread is left with a slice  *)
(* outside the list MapToList was given.                                   *)
TypeOK ==
    /\ pc \in [Worker -> {"fetch", "waiting", "run", "notify", "exited"}]
    /\ task \in [Worker -> Task]
    /\ taskQueue \in Seq(Task)
    /\ tasksEnqueued \in Nat /\ tasksCompleted \in Nat
    /\ client \in {"idle", "map", "async", "notify", "wait", "blocked", "splice", "exit",
                   "notifyAll", "join", "destroyed", "terminated"}
    /\ then \in {"idle", "splice", "exit"}
    /\ loop \in [next : Nat, count : 0..MaxCount] /\ calls \in 0..MaxCalls
    /\ subLists \in [Lists -> Seq(0..MaxCount)]
    /\ {shouldExit, errorString, failed} \subseteq BOOLEAN

(* WaitForIdle returned normally and its caller uses what tasks produced. *)
Returned == client \in {"splice", "exit"}

(* When WaitForIdle returns no callback is running or still queued, so the *)
(* caller may touch what callbacks used ("assert(_taskQueue.empty())").    *)
QuietOnReturn == Returned => taskQueue = <<>> /\ \A w \in Worker : pc[w] # "run"

(* A failure of any callback reaches the client: WaitForIdle does not      *)
(* return normally after one, whichever worker finished last.              *)
ErrorReported == Returned => ~failed

(* Elements a..b-1 of a parallel loop, in order. *)
Elements(a, b) == [k \in 1..(b - a) |-> a + k - 1]

(* MapToList yields every element exactly once and in order, "regardless   *)
(* of thread scheduling", for every count and number of threads: the lists *)
(* it appends are consecutive pieces of the loop, cut at some elements.    *)
MapToListExact ==
    client = "splice" =>
        \E cut \in [0..ThreadCount -> 0..loop.count] :
            /\ cut[0] = 0 /\ cut[ThreadCount] = loop.count
            /\ \A t \in Lists : /\ cut[t] <= cut[t + 1]
                              /\ subLists[t] = Elements(cut[t], cut[t + 1])

(* No wake-up of the client is lost: WaitForIdle always comes back. *)
WaitReturns == client = "wait" ~> client \notin {"wait", "blocked"}

(* No wake-up of a worker is lost: once the destructor has asked the       *)
(* workers to exit, all of them do, and it ends.                           *)
DestructorEnds == (client = "exit") ~> (client = "destroyed")
-----------------------------------------------------------------------------
Running == {w \in Worker : pc[w] = "run"}

(* The two counters differ by the tasks that are queued or run. *)
TasksCounted ==
    tasksEnqueued = tasksCompleted + Len(taskQueue) + Cardinality(Running)

(* The client is in MapToList; a worker runs a slice of it. *)
Mapping == then = "splice" /\ client \in {"map", "notify", "wait", "blocked", "splice"}
RunsSlice(w) == pc[w] = "run" /\ task[w].list

(* Slice t of the loop is From(t)..To(t)-1. *)
From(t) == t * ElementsPerThread(loop.count)
To(t) == SliceEnd([loop EXCEPT !.next = From(t)])

(* Each of the m slices enqueued so far is queued, and its list empty, or  *)
(* run by one worker, and its list as far as the worker is, or finished.   *)
QueuedSlice(k, t, m) ==
    /\ t < m /\ taskQueue[k].next = From(t) /\ taskQueue[k].end = To(t)
    /\ subLists[t] = <<>>
    /\ \A j \in DOMAIN taskQueue : taskQueue[j].list /\ taskQueue[j].tid = t => j = k
    /\ \A w \in Worker : RunsSlice(w) => task[w].tid # t

RunningSlice(w, t, m) ==
    /\ t < m /\ task[w].next \in From(t)..To(t) /\ task[w].end = To(t)
    /\ subLists[t] = Elements(From(t), task[w].next)
    /\ \A v \in Worker : RunsSlice(v) /\ task[v].tid = t => v = w

OtherSlice(t, m) ==
    /\ t >= m => subLists[t] = <<>>
    /\ t < m => \/ \E k \in DOMAIN taskQueue : taskQueue[k].list /\ taskQueue[k].tid = t
                \/ \E w \in Worker : RunsSlice(w) /\ task[w].tid = t
                \/ failed \/ subLists[t] = Elements(From(t), To(t))

Sliced(m) ==
    /\ loop.next = From(m) /\ \A t \in 0..(m - 1) : From(t) < loop.count
    /\ \A k \in DOMAIN taskQueue : taskQueue[k].list => QueuedSlice(k, taskQueue[k].tid, m)
    /\ \A w \in Worker : RunsSlice(w) => RunningSlice(w, task[w].tid, m)
    /\ \A t \in Lists : OtherSlice(t, m)

NoSlices ==
    /\ \A k \in DOMAIN taskQueue : ~taskQueue[k].list
    /\ \A w \in Worker : ~RunsSlice(w)
    /\ subLists = NoResults

(* The inductive invariant behind MapToListExact. *)
SliceInv ==
    /\ client \in {"map", "splice"} => then = "splice"
    /\ IF Mapping THEN \E m \in 0..ThreadCount : Sliced(m) ELSE NoSlices
    /\ Mapping /\ client \in {"wait", "blocked", "splice"} => loop.next >= loop.count

(* The inductive invariant behind QuietOnReturn and ErrorReported. *)
IInv ==
    /\ TypeOK
    /\ TasksCounted
    /\ failed = errorString
    /\ QuietOnReturn
    /\ ErrorReported
=============================================================================
