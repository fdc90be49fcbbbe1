-------------------------- MODULE ReorderByLooping --------------------------
(***************************************************************************)
(* A loop that keeps its threads in order by making a thread that is done  *)
(* circulate until its turn comes: LoopNode::GenerateIR and ReorderHelper  *)
(* (ir.cpp) with ParseTreeLoopModeReorderByLooping.  The code in front of  *)
(* the loop gives each thread the next slot id and sets BodyValid; the     *)
(* loop's block runs the body under BodyValid and then decides, in one     *)
(* atomic block, whether the thread goes round again.  The block is a      *)
(* pipeline with two input FIFOs, one for new threads and one, the loop's  *)
(* backward link, for the threads that loop; it has no arbiter, and a      *)
(* thread of the backward link always goes first (verilog.cpp).            *)
(***************************************************************************)
EXTENDS Integers, Sequences, SequencesExt

CONSTANTS MinFifoDepth, MaxThreads,   \* _minFifoDepth, _maxThreadCountInsideFunction
          MaxTrips                    \* bound: trips a thread may need

ReorderByLoopingAssumption ==
    MinFifoDepth \in Nat \ {0} /\ MaxThreads \in Nat \ {0} /\ MaxTrips \in Nat \ {0}

(* Enough bits for as many ids as there are threads, and one more. *)
Larger(a, b) == IF a > b THEN a ELSE b
Log2RoundUp(n) == CHOOSE b \in 0..n : 2^b >= n /\ \A c \in 0..(b - 1) : 2^c < n
SlotBits == Log2RoundUp(Larger(MinFifoDepth, MaxThreads)) + 1
NextSlot(slot) == (slot + 1) % 2^SlotBits

VARIABLES slot_allocator, exit_slot,   \* ReorderSlotAllocator and ExitSlotId
          entry, backward,             \* the loop block's two input FIFOs
          block,                       \* the threads in its pipeline, oldest start first
          inside                       \* the threads in the loop, oldest first

vars == <<slot_allocator, exit_slot, entry, backward, block, inside>>

(* A thread: its slot id, BodyValid, and the trips its condition asks for. *)
Thread(slot, valid, trips) == [slot |-> slot, body_valid |-> valid, trips |-> trips]

SlotIds == 0..(2^SlotBits - 1)
Threads == {t \in [slot : SlotIds, body_valid : BOOLEAN, trips : 0..MaxTrips] :
               t.body_valid => t.trips > 0}

Init == /\ slot_allocator = 0 /\ exit_slot = 0
        /\ entry = <<>> /\ backward = <<>> /\ block = <<>> /\ inside = <<>>

(* A thread passes the code in front of the loop; BodyValid starts with    *)
(* the predicate under which the loop stands.                              *)
ReorderByLoopingEmitPreamble(predicate, trips) ==
    /\ Len(inside) < MaxThreads
    /\ slot_allocator' = NextSlot(slot_allocator)
    /\ entry' = Append(entry, Thread(slot_allocator, predicate, trips))
    /\ inside' = Append(inside, slot_allocator)
    /\ UNCHANGED <<exit_slot, backward, block>>

(* The body runs under BodyValid and computes the loop condition. *)
Body(t) == IF t.body_valid THEN [t EXCEPT !.trips = @ - 1] ELSE t
LoopCondition(t) == t.trips > 0

MutLoopAgain(t) == t.body_valid
MutAgainAfterIncrement(t) == t.body_valid \/ t.slot # NextSlot(exit_slot)

(* The thread goes round again if its body is to run again or it is not    *)
(* its turn to leave.                                                      *)
LoopAgain(t) == t.body_valid \/ t.slot # exit_slot

(* What one pass through the block does to a thread. *)
ReorderByLoopingEmitPostamble(thread) ==
    LET ran == Body(thread)
        t == [ran EXCEPT !.body_valid = @ /\ LoopCondition(ran)]
    IN  [thread |-> t, again |-> LoopAgain(t)]

Pass(pass) ==
    IF pass.again
    THEN /\ backward' = Append(backward, pass.thread)
         /\ UNCHANGED <<exit_slot, inside>>
    ELSE /\ exit_slot' = NextSlot(exit_slot)
         /\ inside' = RemoveFirst(inside, pass.thread.slot)
         /\ UNCHANGED backward

(* The input mux of the block selects the last FIFO that is not empty: the *)
(* backward link, and a new thread only when no thread comes round.        *)
StartNew ==
    /\ entry # <<>> /\ backward = <<>>
    /\ entry' = Tail(entry)
    /\ block' = Append(block, Head(entry))
    /\ UNCHANGED <<slot_allocator, exit_slot, backward, inside>>

StartLooping ==
    /\ backward # <<>>
    /\ backward' = Tail(backward)
    /\ block' = Append(block, Head(backward))
    /\ UNCHANGED <<slot_allocator, exit_slot, entry, inside>>

(* The thread at the end of the pipeline goes round again or leaves. *)
EndPass ==
    /\ block # <<>>
    /\ block' = Tail(block)
    /\ Pass(ReorderByLoopingEmitPostamble(Head(block)))
    /\ UNCHANGED <<slot_allocator, entry>>

Block == StartNew \/ StartLooping \/ EndPass

Next ==
    \/ \E predicate \in BOOLEAN, trips \in 1..MaxTrips :
          ReorderByLoopingEmitPreamble(predicate, trips)
    \/ Block

(* The clock runs: the block does something whenever it can.  Neither of   *)
(* its inputs is promised a turn.                                          *)
Spec == Init /\ [][Next]_vars
FairSpec == Spec /\ WF_vars(Block)
-----------------------------------------------------------------------------
(* The FIFOs hold threads, whose ids fit their registers. *)
TypeOK ==
    /\ exit_slot \in SlotIds /\ slot_allocator \in SlotIds
    /\ inside \in Seq(SlotIds)
    /\ entry \in Seq(Threads) /\ backward \in Seq(Threads) /\ block \in Seq(Threads)

(* The threads inside have consecutive slot ids, beginning with the one    *)
(* whose turn it is, and the next thread to enter gets the next id.        *)
InTurn ==
    /\ Len(inside) <= MaxThreads
    /\ \A k \in 1..Len(inside) : inside[k] = (exit_slot + k - 1) % 2^SlotBits
    /\ slot_allocator = (exit_slot + Len(inside)) % 2^SlotBits

(* Every thread in a FIFO or in the pipeline is one of those inside, and   *)
(* no two have one id.                                                     *)
AllInside(queue) ==
    \A i \in 1..Len(queue) : \E k \in 1..Len(inside) : queue[i].slot = inside[k]
OneEach(queue) == \A i, j \in 1..Len(queue) : queue[i].slot = queue[j].slot => i = j
Apart(queue, other) ==
    \A i \in 1..Len(queue), j \in 1..Len(other) : queue[i].slot # other[j].slot

IInv ==
    /\ TypeOK /\ InTurn
    /\ AllInside(entry) /\ AllInside(backward) /\ AllInside(block)
    /\ OneEach(entry) /\ OneEach(backward) /\ OneEach(block)
    /\ Apart(entry, backward) /\ Apart(entry, block) /\ Apart(backward, block)

(* A step only ever lets the oldest thread out, and only once it has made  *)
(* all its trips or its loop was predicated off.                           *)
LeavesInOrderAndDone ==
    [][inside' # inside /\ Len(inside') < Len(inside) =>
          /\ inside' = Tail(inside)
          /\ \A t \in Range(entry) \cup Range(backward) \cup Range(block) :
                t.slot = Head(inside) => t.trips <= 1 \/ ~t.body_valid]_vars

(* Every thread leaves the loop: as long as there are threads inside, one  *)
(* after the other leaves, and they leave in order.  Finished threads that *)
(* circulate never keep each other, or a thread that still has trips to    *)
(* make, inside, and though they always go first they never keep a new     *)
(* thread whose turn it is outside the block.                              *)
EveryThreadLeaves == []<>(inside = <<>>) \/ []<><<exit_slot' # exit_slot>>_vars
=============================================================================
