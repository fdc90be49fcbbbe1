# Kanagawa: TLA+ models and proofs

Kanagawa is a high-level synthesis language. A Haskell front end
(`compiler/hs`) and a C++ middle and back end (`compiler/cpp`) turn a
multi-threaded program into a SystemVerilog design. The design consists of basic
blocks, which are plain pipelines without any stall logic, joined by instances
of a hand-written runtime library (`runtime/rtl`). A second library, written in
Kanagawa itself (`library`), offers locks, atomics, asynchronous calls, FIFOs
and caches to programs.

What is hard about a Kanagawa design at run time happens in the runtime library:
back-pressure that is several cycles old when it is obeyed, threads that enter
and leave regions, results that return in a stream without marks, arbitration
between callers. The project models that library component by component,
checks it with TLC and proves it with TLAPS. Of the compiler it models the thread
pool, its one concurrent part; the way of an integer expression from the types
the front end infers through code generation and the optimiser, where a mistake
shows for a few operand values only; and the search for data propagation FIFOs.

## Inventory

| Component (source) | State | Operations | Interacts with | Hard behaviour |
|---|---|---|---|---|
| Flip-flop chains (`flip_flop_chains.sv`) | a row of registers, without reset | shift at every edge | everything that is delayed | values from before a reset are still on their way after it |
| Semaphore (`semaphore.sv`, `fifo_ptrs.sv`) | occupancy counter, three chains | thread enters, thread leaves | the region's first and last block | admission on an occupancy `2*SEM_DELAY` cycles old; enter and leave in one cycle |
| Write delay FIFO (`write_delay_fifo.sv`, `fifo_ptrs_ex.sv`, `show_ahead_register_fifo.sv`, `fifo_debug.sv`) | pointers, count, flags, storage, transaction counter, chains, sticky errors | write, read, reset | the block that writes it, the block that reads it, the compiler's reset hold | the writer cannot stop; pipelined empty; store-and-forward against back-pressure; reset while writes are under way |
| Internal buffer FIFO (`internal_buffer_fifo.sv`, `register_fifo_skid.sv`) | the above and a two-entry register FIFO | hand-over on its own | consumer's block | simultaneous write, transfer and read on old flags |
| Skid FIFO read buffer (`skid_fifo_read_buffer.sv`) | a row of register FIFOs | pull, move, read | an existing FIFO and its reader | all stages move at once |
| Two-register FIFO (`two_register_fifo.sv`, `register_fifo_dual.sv`, `register_fifo.sv`) | two one-entry FIFOs and two turn bits | write, read | pipelined paths | the turns must agree for ever |
| Skid buffer (`skid_buffer.sv`) | output and overflow registers | send, receive | ready/valid neighbours | ready is seen one cycle late |
| FIFO mergers (`arbitration_chain.sv`, wired by `InstantiateFifoMergers` in `verilog.cpp`) | per node a priority counter and a transaction lock, register FIFOs between nodes | arbitrate | callers' FIFOs, a callee's FIFO | fairness across levels, transactions torn by independent decisions |
| Pipelined calls (`loop_generator.sv`, `thread_counter.sv`, `context_saver.sv`) | thread counter, pending count, result array | call, start a thread, return a result, complete a call | caller, callee, their FIFOs | results without marks, calls with no threads, counters at their width |
| Thread pool (`thread_pool.cpp`, `thread_pool.h`) | queue, counters, error, exit flag, two condition variables | `Async`, `WaitForIdle`, `MapToList`, destructor | the optimiser's and scheduler's passes | lost wake-ups, errors of one of several tasks, shutdown |
| Reorder buffer (`reorder_buffer.sv`, slots from `ReorderHelper` in `ir.cpp`) | reorder memory with its flags, data register, read pointer, FIFO pointers | a thread enters, finishes in any order, leaves in order | ordered loops | the flags change their meaning every round and are never cleared; update of an entry that has just been fetched |
| Loops reordered by looping (`LoopNode::GenerateIR`, `ReorderHelper` in `ir.cpp`) | slot allocator, exit slot, the loop's two FIFOs, the block's pipeline | enter, start, end a pass, circulate, leave | the block's input mux (`verilog.cpp`), in which the backward link always wins | whoever waits for its turn needs the block that the others need |
| Extern return router (`extern_return_router.sv`) | index and data side tracks, switch nodes with theirs | join, route | external modules, index FIFO | two streams that may each be ahead; ready signals a cycle old |
| Memory bypass (`memory_bypass.sv`, `sync_ram.sv`) | slots with recent writes, RAM, its registers | read, write | block RAM with latency | which of several writes to an address is seen |
| Reset control (`reset_control.sv`) | hold counter, delay chain, sequence counter | hold reset, report its end | all of the design | length of the hold at its edges, a pulse that comes back |
| Context saver, unordered (`context_saver.sv`) | slots and a free list | allocate, free | nobody: the emitter instantiates only `ContextSaverOrdered` | |
| Code generation for integers (`ir.cpp`, `parse_tree.cpp`, `Type.hs`) | the operations emitted so far | one node after the other | optimiser | widths and signs of operands and results, values known at compile time |
| Optimiser (`optimize.cpp`, `optimize_lut.cpp`) | the program, phase, pass, progress | one pass | | passes rely on the form other passes leave and undo each other; edges of the value ranges |
| Data propagation FIFOs (`local_data_propagation.cpp`) | a basic block, its candidates and choices | find candidates, choose, insert, rename | scheduler before it, emitter behind it | a read renamed at the wrong stage gets another value; what is accessed in one stage |
| Branch and bound (`branch_and_bound.cpp`) | graphs, work list, best vector, values found | split, search, give up | thread pool, callback | pruning on bounds, a limit that forgets partial results |
| Cross-region, fixed-delay and one-register FIFOs | small counters and registers | write, read | regions, extern modules | delays fixed by construction |
| Hardware abstraction layer (`runtime/rtl/hal`) | vendor primitives | | | outside the repository |
| Rest of the front end, lowering, scheduler, placement, emitter | program representations | sequential rewriting | | unbounded data, no concurrency besides the thread pool |
| Kanagawa library (`library`) | locks, atomics, async, FIFOs, caches | | user programs | ordinary concurrency problems, one level up |

`PROJECT.json` lists the same components with their status, and under `hazards`
the places where the code is hard to test, each with the properties that would notice
if it went wrong there.

What makes each modelled component correct: a limit or capacity is never
exceeded although the decision to admit rests on old information (semaphore,
write delay FIFO); nothing is lost, repeated or reordered (all FIFOs, mergers,
calls); a transaction is never torn (mergers) and its reader never stopped
inside it (FIFO); nothing stands still for ever while it could go on (all);
nothing from before a reset is seen after it (FIFO); every caller gets its own
results (calls, router); threads leave an ordered loop in order, done, and all of
them; a memory shows the youngest write; nobody uses results while tasks still run,
and no error is lost (thread pool); a rewritten program computes what the source
means for every input, and rewriting ends (optimiser); the chosen arrangement is the
cheapest one and every read gets its value (data propagation).

## Modules

A step of a hardware module is one clock edge: the inputs of the cycle are
bound with `\E`, outputs are operators over registers and inputs, and every
register is assigned from the values before the edge, as nonblocking assignments
are. A guard on an input is the caller's side of the protocol (never read when
`empty`, start no thread when `full`), which the generated code and the
library's own assertions establish. Registers keep their names from the source.
Three kinds of variables have no counterpart there: a history of what was last
delivered with the parities `sent` and `received`, which let a refinement see
that an item was read or written even if its value repeats; the environment's
own state (threads inside, the stages of the writer's block, open transactions);
and bounds.

- `FlipFlopChain` has chains of any depth, depth 0 being a wire, and `Pulses`,
  the number of pulses on their way.
- `FifoPtrs` and `FifoPtrsEx` are the two counter blocks, with their flags
  recomputed as the source does it and additions modulo the register width.
- `Semaphore` composes `FifoPtrs` with the delay of decrements.
- `WriteDelayFifo` composes `FifoPtrsEx`, the storage, the two chains, the
  pipelined empty, the transaction counter and the sticky error outputs, and
  contains the writer's block, since the margins exist because of that block,
  and the reset with the hold that `GetResetHoldCycles` computes. At power-up
  chains and block stages hold arbitrary values. `Fifo` is the abstract
  specification: a bounded sequence, at most one item in and one out at a time.
- `RegisterFifoSkid` has the two-entry register FIFO as a function from
  registers and inputs to registers, so that it can be put in a row
  (`SkidFifoReadBuffer`), behind a memory FIFO (`InternalBufferFifo`) and
  between arbiter nodes (`ArbitrationChain`).
- `RegisterFifoDual` and `SkidBuffer` model the remaining small FIFOs;
  `RegisterFifos` puts them and the read buffer side by side and shows that each
  implements `Fifo`.
- `ArbitrationChain` models the nodes of `arbitration_chain.sv` in the chain that
  `InstantiateFifoMergers` builds for `N` sources, ratios included. Sources show
  an item until it is read and may pause anywhere, inside transactions too.
  `ArbitrationMerge` adds observation of both ends and states the refinement of
  `Merger`, the abstract specification: one queue per source, and a destination
  that takes from one source until its transaction ends. `ArbitrationShare` adds
  counts of who was served while all sources are busy.
- `PipelinedCall` models a call with a thread count: `LoopGenerator` and
  `ThreadCounter` start the threads, the pipelined half of `ContextSaverOrdered`
  collects the results, and the compiler's computations of the counter and
  pending-count widths are operators. Whether the callee has results is chosen at the
  start. The callee is a FIFO of started threads whose results come back in order
  after any time. Integers wrap at their widths.
- `ThreadPool` models the C++ class with one step per critical section; the
  notifications are steps of their own since they follow the unlock, waits may
  end spuriously, and a callback may fail at any element.

- `BypassedRam` has the RAM with its address and output registers and the bypass
  slots as a function from state and inputs to state. `MemoryBypass` is such a RAM
  by itself, and in `ReorderBuffer` it holds the flags of the slots.
- `ReorderBuffer` has the whole of `reorder_buffer.sv` behind the slot allocation
  that `ReorderHelper` emits, from the initialisation of the flags on; a thread
  is its slot id. `ReorderByLooping` is the other way of keeping a loop in order,
  with the pipeline of the loop's block and its two input FIFOs. The block has no
  arbiter: its input mux (`verilog.cpp` 8565-8642) takes the last FIFO that is not
  empty, which is the loop's backward link, so `StartNew` needs it to be empty.
- `ExternReturnRouter` has the join, its side tracks, the chain of switch nodes
  and their `match_counter`s, with the table of ports that the emitter computes.
  Callers and external function are free to take any time.
- `ResetControl` is `reset_control.sv` with the pulse at any time.
- `Operations` has the intermediate operations and their values on registers of
  finite width. `GenerateIR` has the types, known values and operations for a
  node and, apart from these, what an expression means, in integers without
  width. `LutOps`, `DecomposeOps` and `OptimizePasses` have the passes, each a
  function from programs to programs, and `Optimize` the driver: the order of
  the passes, the phases, the iteration until nothing changes. One step of
  `Optimize` is one pass on the program, and a pass reports progress exactly when
  it changed the program: a pass whose returned flag is wrong is not modelled.
- `BranchAndBound` is the minimiser, a state machine of two loops with the
  callback as an operator constant. `LocalDataPropagation` instantiates it with
  its costs and bounds, between finding the candidates and inserting FIFOs, and
  defines by symbolic execution of a block what every operation reads.

Modules named `MC...` put several machines side by side for one run; the other runs
use a component's module itself, with the values of its constants in the `.cfg`.

The theorems are in eight modules of their own. `RuntimeLemmas` has what several of
them use; `SemaphoreProofs`, `WriteDelayFifoProofs`, `ThreadPoolProofs`,
`RuntimeUnitProofs` (reset control, extern return router and the FIFOs made of
registers), `ReorderBufferProofs` (with the memory bypass and the loop reordered by
looping), `ArbitrationProofs` and `PipelinedCallProofs` extend the modules whose properties the runs check, so that run
and theorem speak of the same definition. Inductive invariants (`IInv` and its parts)
stand in the component's module, below its specification: they read as a description
of the component, and TLC evaluated each of them before it was proved.

Operators named `Mut...` are deliberately wrong variants of the operator that
follows them. No specification uses them; they are put in its place to see that
a property notices the mistake, as listed under `mutants` in `PROJECT.json`.

## Runs

| Run | Instance | What it shows |
|---|---|---|
| `semaphore` | 6 threads, delay 2 | the limit holds, the counter is exact and never below zero, the region opens again |
| `internal_buffer_fifo` | depth 4, delays 1 both ways, a writer's block of 1 stage, 2 payloads, 1 reset | no overflow; the memory FIFO and its register FIFO are one FIFO with two more entries, in order and exactly once; nothing from before a reset survives it; items reach the consumer without newer ones pushing them |
| `write_delay_fifo` | depth 5, delays 1, transactions of up to 2, a reader that may pause, 1 reset; and depth 7, `ALMOSTEMPTY_VAL` 4 | the pipelined empty never lets a read through to an empty FIFO; the sign bit of the transaction counter is exact for what is stored and under way; a reader is not stopped inside a transaction; FIFO order exactly once; neither the late empty nor store-and-forward against back-pressure holds anything back, also right after reset, when full and empty are both set |
| `arbitration` | 3 sources, transactions of up to 2; 4 busy sources | nothing lost, order per source, no torn transaction; no source starves, whatever the others do; a waiting port is overtaken at most as often as its ratio says; shares of the destination differ by at most two transactions for ever |
| `pipelined_call` | 2 calling threads; calls with 0 to 3 threads whose results are an array of 3 elements, calls without results with 0 to 4 threads | callers get their own results in their places, the pending count is exact and wide enough for all callers at once, every call returns |
| `thread_pool` | 2 workers, 2 operations, loops of up to 4 elements | no callback runs when a wait returns, no error is lost, `MapToList` is exact, waits return, the destructor ends |
| `runtime_units` | 4 slots; 3 looping threads of up to 2 trips; 2 call sites with 4 calls under way; hold 4, delay 3; 2 addresses; register FIFOs with 2 items, a row of 3 stages | the RAM shows the youngest write; the reorder buffer never takes last round's flag for this one's; both kinds of ordered loop let threads out in order, done, and all of them; results reach their call sites and every call is answered; reset lasts exactly its window; the register FIFOs are FIFOs and keep moving |
| `compiler` | 2884 programs of one to eight nodes, 2049 blocks of nine pipeline stages | every pass keeps the meaning of the program for all tried inputs; two passes that read LUTs unchecked always get clean ones; the cheapest arrangement of data propagation FIFOs is found unless the search gives up, and none costs more than doing without sharing; every read and every successor gets its value; every phase and every search ends |
| `early_release`, `short_reset`, `known_or`, `xor_all_ones` | see Findings | violated |

`write_delay_fifo`, `arbitration`, `pipelined_call`, `runtime_units` and `compiler`
each hold several machines that share no state or no behaviour: what is chosen at
the start says which one is clocked, so their state spaces add up.

### Bounds

Delays of one or two cycles already separate what is decided from what is seen,
and every margin in the code is linear in the delay; a depth is chosen just
above the margin the code's own elaboration check demands, so that the FIFO
gets full; one depth is a power of two, the others (5 and 7) are not, so pointers wrap
in both ways. Two payloads are enough
to see an exchange or a repetition since the parities count the items.
Three sources give two nodes with ratios 2 and 3 and a register FIFO between
them; four give three nodes and two register FIFOs. Counts from zero to the
largest value of the counter include the call without threads, with a single
one, and the wrap. Two workers and loops of up to four elements include slices
that do not divide evenly, an empty loop and a loop with fewer elements than
workers. Four calls under way are enough for results to wait at the port, in the
join's side track, in a switch node and in its side track at once.
`MaxResets`, `MaxCalls`, `MaxCount` and `MaxTrips` are the only bounds that cut
behaviour off. Power-up is a reset too, with arbitrary values in the chains, so
runs with `MaxResets = 1` see a FIFO used, reset in any state, and used again.

In `compiler` widths are small so that all values of inputs of up to three bits can be
tried, and the edges of the range for wider ones (`MCValues`). The sizes of LUTs, the
length of a carry chain in one cycle, the inputs of a select and the width of a
`size_t` literal are constants and lowered in proportion, so that operations are
split, tables are full and sums are speculated on at these widths. The programs
(`MCSources`) are all operators on two registers, on a register and a literal on
either side, chains of two nodes with one or both results read elsewhere, selects,
concatenations, casts, known values, and sums that are split; those of the runs
`known_or` and `xor_all_ones` are left out. In the blocks up to four values of
different widths are written and read at stages that overlap in all ways, some twice,
and two are passed on to successors, in the middle or at the end; alignments of 3 and
4 leave room for values that ride along for free, words of five bits make packed
vectors of several words, and with a work list of 12 some searches complete and some
are given up.

Deadlock checking is on in all hardware runs (a clock edge is always possible)
and, in the thread pool, the end of the program is a step that repeats. The
compiler stops when it is done.

### Fairness

An edge at which nothing changes is a stuttering step. "The clock runs" is
therefore stated as weak fairness of an action `Tick`, a step in a state in which an
edge *without any request* would change a register. Weak fairness of `Next` would be
too strong: once everything is at rest it forces somebody to write, and items
that only move when pushed by newer ones would seem to arrive.

Beyond the clock: readers and consumers read in the end when there is something
to read, receivers take what they are offered, and a destination has room
again and again, because the blocks behind them are pipelines of finite length;
threads leave a region and a source that has begun a transaction goes on with
it, because the compiler only accepts loops and transactions whose end it emits;
a callee goes on starting the threads of its calls and returning their results.
Writers, sources and callers are never required to begin anything. In the thread
pool the scheduler runs every thread that can run and callbacks end; spurious
wake-ups may happen but nothing relies on them.

In `runtime_units` a thread in a loop's body finishes (`Finish`), the reader behind the
reorder buffer reads, and the external function answers. A loop's block as a whole
moves whenever it can, since its clock runs (`Block`); neither of its input FIFOs is
promised a turn. That a new thread starts although circulating threads always go
first is shown, not assumed: trips are finite, and every circulating thread is older
than every thread still in `entry`, so the oldest thread always circulates unless
nothing does. The compiler is one
thread that goes on. Its fairness is weak fairness of the next-state relation with
the `ENABLED` written out (`MCFairness`): a step is possible until the end, and every
step changes something.

## Findings

- `early_release`: the comment on `IS_TRANSACTIONAL` says that empty falls only
  when a full transaction is in the FIFO. The counter counts the last item
  before the delay chain, so with a write delay empty falls while that item is
  still under way (`write_delay_fifo.sv:294`). `write_delay_fifo` shows what
  does hold: the transaction is stored or on its way, and the FIFO's own empty
  protects its reader from reading too early. With a delay of two cycles or more
  the reader can be stopped inside a transaction (`NeverStallsInside` fails
  there), with one cycle, as in `write_delay_fifo`, it cannot.
- `short_reset`: the comment on `GetResetHoldCycles` says that threads drain from
  flip-flop chains during the hold. The computation takes configured latencies and
  block stages into account but no write delay of a FIFO, which can be longer
  (`verilog.cpp:6364`). With a write delay of 7 and the hold of a one-stage block,
  a write from before the reset is still in the chain when the reset ends. With
  the delays of `internal_buffer_fifo` everything drains.

- `known_or`: an or with a literal is folded to the literal if it is "all 1's", but
  the test (`ir.cpp:7379`) accepts every run of low ones, whatever the width: `x | 1`
  with a two-bit `x` becomes 1.
- `xor_all_ones`: "op(x, 1s) = ~x" (`optimize.cpp:3020`) is applied at the width of the
  destination: with a one-bit `x`, a two-bit `x ^ 1` becomes a two-bit `~x`, which sets
  the upper bit too.

While modelling literals we also saw that EQ and NE of two literals of different sign
compare the bits of both at the wider width (`parse_tree.cpp:6564`), so that a signed
-1 of eight bits equals an unsigned 255; a test on variables expects them to differ
(`test/logic/test_cases_36.k:157`). The programs of the runs compare no two literals.

The model of the thread pool also contains a path on which a promise of the
header does not hold: after a task has failed and nobody waited, the wait inside
the destructor throws (`thread_pool.cpp:20`), the program ends, and the threads
are not joined. The compiler always waits before it destroys the pool.

## Proofs

Every theorem is about the specification a run checks, with the constants left open.
The assumptions on the constants are the named `ASSUME`s of the component's modules,
which TLC evaluates on every run: parameters are naturals, `NoItem` is none of the
items, and the relations between parameters are those that the code's elaboration checks
or `$clog2` expressions give. Where more is needed it is a hypothesis of the theorem and discussed below.

**Semaphore** (`TypeCorrect`, `ThreadLimitHolds`, `NoUnderflowHolds`,
`CountExactHolds`, for every `MAX_VALUE`, `SEM_DELAY` and counter width). None of the
invariants is inductive: the limit depends on a full bit that has been under way for
up to `SEM_DELAY` cycles while threads kept entering. `IInv` adds

- `Promise`: a low full bit that the writer will see in *n* cycles promises room
  for one admission in each of these cycles and one more. A new bit enters the
  chain with the largest promise, since the threshold is lowered by twice the
  delay; every cycle admits at most one thread and brings the bit one position
  nearer, so the promise is consumed exactly as fast as it is needed;
- the admitted threads, counter plus increments under way, never exceed
  `MAX_VALUE`, which also keeps the counter from wrapping at its width;
- `LeaveAfterEnter`: however many cycles one looks back, no more threads had left
  than had entered. Together with the one extra cycle of delay of the
  decrements it gives `NoUnderflow`;
- the register `empty` agrees with the counter.

**Write delay FIFO and internal buffer FIFO** (`NoOverflowHolds`, `NoUnderflowHolds`,
`DrainedByResetHolds`, `TransactionsExactHolds`, `NeverStallsInsideHolds`,
`SingleImplementsFifo`, `BufferImplementsWriteDelayFifo`, `BufferSafe`,
`BufferImplementsFifoHolds`; every depth, block length, delay, transactional or not).

- *Safety.* The promise argument again, with the stages of the writer's block in front
  of the chain: entries used, in the chain and in the block (`Committed`) plus what may
  still be admitted never exceed the depth. Further parts of `IInv` are the exact flags,
  an `empty` that rises in time (`EmptyInTime`; the pipelined one is a cycle old but
  rises a read early), and how far the block and the chains have drained at each cycle
  of a reset (`ResetProgress`).
- *Hypothesis* `ResetCoversDelays`: the hold is longer than block and write delay
  together. The compiler does not make sure of it, as the finding `short_reset` shows,
  so it cannot be an assumption of the model. Every instance that a passing run checks
  satisfies it.
- *Refinement of `Fifo`.* The memory FIFO is first shown to be a write delay FIFO inside
  the internal buffer (`BufferImplementsWriteDelayFifo`), which hands its safety over.
  The abstract queue is then a row of places from the consumer to the writer: register
  FIFO, the storage between the pointers, the chain from its last stage to its first.
  Pointers and count agree (`PointersExact`), what lies between the pointers are items
  (`StoredAreItems`), and a clock edge moves an item from one place to the next, puts
  one in at the end, takes one at the front, or any of these at once; `RuntimeLemmas`
  shows that such moves leave the row, read as one sequence, what puts and takes make
  of it.
- *Transactions.* The counter is one less than the number of ends of transactions that are
  stored or under way, and all ones when there is none (`TransactionsCounted`); that
  number is at most the depth, so the sign bit is exact.
  `NeverStallsInsideHolds` adds `EndStored`: the end of a transaction that the reader has
  begun is in the storage. It needs that writes pass at most one
  register and that empty is not pipelined. Both conditions are needed: with two
  registers a reader is stopped (see the finding `early_release`), and the pipelined
  empty rises after every read when few entries are left.

**Pipelined calls** (`PipelinedCallInvariant`, `PendingExactHolds`,
`ReturnsOwnResultsHolds`; every width of the counter, size of the returned array and
number of calling threads, with and without results). Neither property is inductive.
`StreamExact` has the results that callers are owed on one side, and on the other what
the saver has read, what is in the callee, and what the loop generator has yet to
start, as one sequence: an edge takes the results of the call that completes off the
front of both and puts those of a new call at the end of both, and otherwise moves
results along inside. `CounterExact` says which thread of its call is started next,
`BufferExact` that the places of the saver filled so far are a prefix of the front
call's results. The pending count cannot wrap: what is pending
belongs to at most `MAX_THREADS` calls, each with at most what the counter can hold, and
the compiler's width has twice that room; with results, reading stops
at the size of the buffer, one more than a caller's array. The hypothesis is `PowersOfTwo` again.

**Thread pool** (`TypeCorrect`, `QuietOnReturnHolds`, `ErrorReportedHolds`,
`MapToListExactHolds`; any number of workers, operations and elements).
`TasksCounted` ties the two counters to the queue and the workers: enqueued less
completed is the length of the queue plus the workers that hold a task. It is what lets
`WaitForIdle` rely on two numbers. For `MapToList` a second invariant (`SliceInv`)
says that the slices handed out so far are consecutive, without gap, and where each is:
in the queue, with a worker that has done a prefix of it, or in its list. The rounding
up of the slice size is arithmetic on natural numbers.

**Reset control** (`ResetWindowExactHolds`; every hold, delay and latency). Each counter
is read as the time left since the most recent pulse, each stage of the delay chain as
a window of the history of `rst_in`; a clock edge moves all windows by one cycle.

**Extern return router** (`RoutedToCallerHolds`; any number of ports, any table of call
sites, any width of the counter that is wide enough, any timing). `IInv` says that the
results owed to a port are those under way to it in the places from the port back to
the join (output register, then per node side track and input register, then what has
not reached the join), in this order (`DueUnderWay`); that an item before node *i* is
for this port or a later one and its counter says for which (`RoutesKnown`); that index
and result wait in the same order however far one is ahead (`Paired`); and that who
uses a side track has stopped its input. The lemma behind it is that a side track and
the queue behind it are one sequence: whatever the edge does, the sequence changes as if
there were no side track. `RouterAssumption` spells out what `2^MatchWidth` is, since the
provers do not know exponentiation.

**Reorder buffer and memory bypass** (`ShowsYoungestWriteHolds`,
`FlagShownIsCurrentHolds`, `LeavesInOrderHolds`; every power of two of slots, any write
delay and number of threads up to the slots). Three layers. The RAM with its bypass
slots shows current data whatever the order of reads and writes: for any set of
addresses and data, the loaded word with the slots applied is the memory's present word.
On it, the flag memory shows the flag at its read position at once although the RAM
answers two cycles late. On that, the flags and data of the next `DEPTH` slot ids,
counted from the next thread to leave, are those of their own threads: a flag differs
from the one of the round before if and only if its thread has arrived.

**Loops reordered by looping** (`LeavesInOrderAndDoneHolds`). The threads inside have
consecutive slots beginning with the exit slot, and the loop's FIFOs, block and
waiting threads hold each of them once. The slot counters wrap at a power of two, so
the theorem has the hypothesis `PowersOfTwo`, the definition of powers of two, which
the provers do not have. It is true, and assumes nothing of the code.

**FIFO mergers** (`BoundedOvertakingHolds`, `FairShareHolds`, `ImplementsMergerHolds`;
any number of sources). For the first the invariant relates, at each node, how often a
waiting port was passed over to the priority counter and the transaction lock.

`FairShare` compares two sources that enter the chain far apart. The transactions
that leave node `i` come in rounds of `i + 2` turns, the last of them port 0's; a
position is a round and a turn, and the turn is what `priority_ff` holds. The position
of a transaction at one node determines its position at the node before (`Down`), so
what has been begun at the destination, followed back through the chain (`back`), says
how many transactions every source has had. The register FIFOs hold the transactions
between the reader's and the writer's position (`Carries`), and after the first edge
none of them is ever empty, so every node keeps to its turns whatever the back-pressure
(`Running`). The start is irregular: at the first edge the FIFOs are empty and the nodes
behind them begin with their own source out of turn, except for the last node if the
destination holds it up there (`Forced`, `late`). With that the number of complete
rounds (`Base`) is the same at all nodes but a late last one, and what the sources have
had lies in a window of two beside it. `ShareInv` quantifies over positions, which TLC
cannot enumerate: it is proved only.

The refinement of `Merger` has two parts. *Order*: for each source, what a node takes
from the chain, followed by what then stays before it, is what was before it followed by
what entered; taken together from the first node to the last (again by the least node
at which the claim fails), the items before the destination are a queue of each source. *No torn
transaction*: every node has an owner, the source whose transaction it is inside, or
none; the items of a register FIFO lead from the owner at its reader to the owner at its
writer (`Leads`), and what lies behind a node comes from the sources before it
(`MergeInv`).

**FIFOs made of registers** (`ReadBufferImplementsFifo`, `DualImplementsFifo`,
`SkidBufferImplementsFifo`, `AllImplementFifoHolds`; a row of any length, any items).
A register FIFO's edge is a put, a take or both on the sequence it holds. That a row of
them is one FIFO needs an induction over the row. The provers cannot use the library's
induction theorems, which take an operator as parameter; the proof takes the least
place at which the claim fails (`Least` in `RuntimeLemmas`) and refutes it there, once
for all rows. The lemmas on `Pulses` avoid an induction the other way: `Pulses` is the
cardinality of a set of positions, and the library's theorems on images and cardinality
of finite sets say how a shift changes it.

### Only model-checked

All liveness properties: fairness and `ENABLED` are out of the prover's reach.
`BothImplementFifo`, of which `SingleImplementsFifo` is the half that is proved: the
other half is the same specification with other constants. The compiler's passes and the
search: what they compute is defined by iteration over programs, and an induction over programs is out of reach.

## Not modelled

The vendor primitives behind the hardware abstraction layer are not in the
repository; their mock, the register FIFO, is what `WriteDelayFifo` stores into. The
variant of that FIFO that shifts on reading, the dual-clock debug path, the
literal thread count of a call, the non-pipelined half of `ContextSaverOrdered`, error
correction and the true dual port RAM, and simulation helpers are left out. The
unordered `KanagawaContextSaver` is instantiated nowhere.

Of the optimiser: the passes on jumps, assertions, strings, predicates, memories,
global variables and clock gating, the flow of values between blocks, floating point,
the recursion limit of `SelectIndexPropagation`, and the loop around the optimiser that
runs it on a whole program again. `DecomposeShift` (`optimize.cpp:2068`) is called
nowhere. Of code generation: statements, calls, loops apart from the ordered ones,
memories, literals without a type (`Type.hs` 743-835; those modelled have their
type), and the multiplication of two registers (`GenerateIntegerMult`,
`ir.cpp:6460`: an extern call to a device multiplier or a LUT multiply of split words).

The parser and the rest of the type checker, most of lowering, the scheduler,
placement and the emitter are sequential functions of unbounded programs, with costs
and device timing as their data; what the runtime depends on in them (thread counts,
widths, ratios, reset hold, wiring of mergers, slots of ordered loops) is translated
where it is used. That is most of the compiler's lines, and the reason why the map
covers a small share of all lines although the runtime library is nearly complete.

## Plan

1. Proofs: the optimum of `BranchAndBound` for every callback that keeps
   its contract. Proofs stay in modules of their own, and no module they reach declares a
   recursive operator.
2. The cross-region and fixed-delay FIFOs, the latter behind `LocalDataPropagation`,
   which relies on its delay; the non-pipelined half of `ContextSaverOrdered`.
3. `FifoSizing`: `ComputeFifoSize` of `lower.cpp` as pure operators, checked
   against what `WriteDelayFifo` needs of its depth.
4. The Kanagawa library: asynchronous calls, rendezvous, locks, atomics and the
   cache, one module each.
