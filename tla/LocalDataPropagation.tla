------------------------ MODULE LocalDataPropagation ------------------------
(***************************************************************************)
(* Values that live long in the pipeline of a basic block go into FIFOs of *)
(* fixed delay instead of rows of registers: which, and which of them      *)
(* share a FIFO, is a minimisation (module BranchAndBound); then the FIFOs *)
(* are inserted and later reads renamed.                                   *)
(*                                                                         *)
(* A block has a register table (the widths of its registers), the         *)
(* registers live into it, and stages [seq, ops], several of which may     *)
(* have one sequence number and are then one pipeline stage.  An operation *)
(* has registers src and dst, both sequences; every register is written    *)
(* once.  An operation with a successor block ("jump") passes to it the    *)
(* registers live there, under the names of its renaming table.            *)
(***************************************************************************)
EXTENDS Integers, Sequences, FiniteSets, SequencesExt, FiniteSetsExt

CONSTANTS Blocks,
          FifoWidthAlignment, FifoDepthAlignment, FifoFixedCost, FifoBitsPerRegister,
          FifoMergeDistance,
          LutBasedShiftRegister, StallablePipelines,   \* of the device, of the options
          MaxWorkListSize, WordBits, SizeMax,
          Undefined                                    \* what no operation wrote

(* What the devices' configurations have in common: two stages of          *)
(* registers are never dearer than a FIFO.                                 *)
PropagationAssumption ==
    /\ FifoWidthAlignment \in Nat \ {0} /\ FifoDepthAlignment \in Nat \ {0}
    /\ FifoFixedCost \in Nat /\ FifoBitsPerRegister \in Nat \ {0}
    /\ 2 * FifoBitsPerRegister <= FifoDepthAlignment

VARIABLES original, block,
          problem, pc, graphs, optimalValues, maxSearchSpaceSize, parametersToOptimize,
          workList, best
-----------------------------------------------------------------------------
(* Step(...Step(Step(base, seq[1]), seq[2])..., seq[n]) *)
Walk(Step(_, _), base, seq) ==
    LET after[i \in 0..Len(seq)] ==
            IF i = 0 THEN base ELSE LET before == after[i - 1] IN Step(before, seq[i])
    IN  after[Len(seq)]

Op(src, dst) == [kind |-> "op", src |-> src, dst |-> dst]

Jump(src, live, dead, renaming) ==
    [kind |-> "jump", src |-> src, dst |-> <<>>, live |-> live, dead |-> dead,
     renaming |-> renaming]

Queue(kind, fifo, offsets, src, dst) ==
    [kind |-> kind, src |-> src, dst |-> dst, fifo |-> fifo, offsets |-> offsets]

MapOriginalToRenamed(renaming, r) == IF r \in DOMAIN renaming THEN renaming[r] ELSE r

(* The registers live into the successor join those collected so far, and  *)
(* those that it gets from elsewhere leave them ("dead": forced dead       *)
(* there, the callee's return values, the instance of an invocation).  An  *)
(* asynchronous call has no live registers.                                *)
GetLiveInToSuccessor(op, live) ==
    (live \cup {MapOriginalToRenamed(op.renaming, r) : r \in op.live})
       \ {MapOriginalToRenamed(op.renaming, r) : r \in op.dead}
-----------------------------------------------------------------------------
(* Candidates: registers with more than two stages between two accesses.   *)
MutAtUse(acc, seq, r) ==
    LET previous == acc.recent[r]
    IN  [acc EXCEPT !.found = IF previous + 2 < seq
                              THEN @ \cup {[first |-> previous, last |-> seq - 1, r |-> r]}
                              ELSE @,
                    !.recent[r] = seq]

GetDataPropagationAtUse(acc, seq, r) ==
    LET previous == acc.recent[r]
    IN  [acc EXCEPT !.found = IF previous + 2 < seq
                              THEN @ \cup {[first |-> previous, last |-> seq - 1, r |-> r]}
                              ELSE @,
                    !.recent[r] = Max({previous, seq})]

GetDataPropagations(b) ==
    LET Use(seq, acc, regs) == Walk(LAMBDA a, r : GetDataPropagationAtUse(a, seq, r),
                                        acc, regs)
        Operation(seq, acc, op) ==
            LET written == [acc EXCEPT !.recent = [r \in ToSet(op.dst) |-> seq + 1] @@ @]
            IN  IF op.kind = "jump"
                THEN [written EXCEPT !.live = GetLiveInToSuccessor(op, @)]
                ELSE Use(seq, written, op.src)
        SubStage(acc, stage) ==
            LET start == IF acc.seq = stage.seq THEN acc
                         ELSE [acc EXCEPT !.seq = stage.seq, !.live = {}]
                done  == Walk(LAMBDA a, op : Operation(stage.seq, a, op), start, stage.ops)
            IN  Use(stage.seq, done, SetToSeq(done.live))
        entry == [recent |-> [r \in b.liveIn |-> IF b.hasStartCondition THEN 1 ELSE 0],
                  found |-> {}, seq |-> 0, live |-> {}]
    IN  Walk(SubStage, entry, b.stages).found

(* The candidates of one range of stages are propagated together. *)
Flat(b) ==
    LET found  == GetDataPropagations(b)
        ranges == {<<f.first, f.last>> : f \in found}
        Before(x, y) == x[1] < y[1] \/ (x[1] = y[1] /\ x[2] < y[2])
        sorted == SetToSortSeq(ranges, Before)
        regs(i) == {f.r : f \in {g \in found : <<g.first, g.last>> = sorted[i]}}
    IN  [i \in DOMAIN sorted |->
            [first |-> sorted[i][1], depth |-> sorted[i][2] - sorted[i][1], regs |-> regs(i),
             width |-> MapThenSumSet(LAMBDA r : b.width[r], regs(i))]]
-----------------------------------------------------------------------------
(* OptimizePropagations: the choices for every propagation, their costs    *)
(* and the bounds for those not yet chosen.                                *)
AlignNonPow2(input, alignment) ==
    ((input + alignment - 1) \div alignment) * alignment

RegisterCost(depth, width) == depth * width * FifoBitsPerRegister

FifoCost(depth, width) ==
    AlignNonPow2(width, FifoWidthAlignment) * AlignNonPow2(depth, FifoDepthAlignment)
       + FifoFixedCost

CostUpperBound(p) == Min({RegisterCost(p.depth, p.width), FifoCost(p.depth, p.width)})

(* All in registers, or the first stages, at least three, in a FIFO that   *)
(* is shared with everything of the same anchor and depth.                 *)
PropagationDescs(p) ==
    LET firstAnchor == Max({0, p.first - FifoMergeDistance})
        lastAnchor  == p.first + FifoMergeDistance
        Fifos(a)    == [d \in 1..(p.depth - 2) |->
                           [inFifo |-> TRUE, anchorAndDepth |-> <<firstAnchor + a - 1, d + 2>>]]
        Cheap(pd)   == RegisterCost(p.depth - pd.anchorAndDepth[2], p.width)
                          < CostUpperBound(p)
    IN  <<[inFifo |-> FALSE]>>
          \o SelectSeq(FlattenSeq([a \in 1..(lastAnchor - firstAnchor + 1) |-> Fifos(a)]), Cheap)

MutPrecomputedBounds(p) ==
    [lower |-> Min({RegisterCost(p.depth, p.width), p.width * p.depth}),
     upper |-> CostUpperBound(p)]

PrecomputedBounds(p) ==
    LET freeLoadWidth == FifoWidthAlignment - 1
    IN  [lower |-> IF p.width <= freeLoadWidth THEN 0
                   ELSE Min({RegisterCost(p.depth, p.width),
                             (p.width - freeLoadWidth) * p.depth}),
         upper |-> CostUpperBound(p)]

(* What defined parameters cost is exact: the registers, and every FIFO    *)
(* once.                                                                   *)
Bounds(prob, x) ==
    LET p(i)      == prob.propagations[i]
        chosen(i) == prob.descs[i][x[i] + 1]
        inFifo    == {i \in DOMAIN x : chosen(i).inFifo}
        registers == MapThenSumSet(
                        LAMBDA i : RegisterCost(IF i \in inFifo
                                                THEN p(i).depth - chosen(i).anchorAndDepth[2]
                                                ELSE p(i).depth, p(i).width),
                        DOMAIN x)
        Width(ad) == MapThenSumSet(LAMBDA i : p(i).width,
                                   {i \in inFifo : chosen(i).anchorAndDepth = ad})
        fifos     == MapThenSumSet(LAMBDA ad : FifoCost(ad[2], Width(ad)),
                                   {chosen(i).anchorAndDepth : i \in inFifo})
        open      == DOMAIN prob.ranges \ DOMAIN x
    IN  [lower |-> registers + fifos
                     + MapThenSumSet(LAMBDA i : PrecomputedBounds(p(i)).lower, open),
         upper |-> registers + fifos
                     + MapThenSumSet(LAMBDA i : PrecomputedBounds(p(i)).upper, open)]

(* Propagations that could share a FIFO are optimised jointly. *)
Interactions(descs) ==
    {e \in kSubset(2, DOMAIN descs) :
        \E fifo \in UNION {ToSet(descs[i]) : i \in e} :
            fifo.inFifo /\ \A i \in e : fifo \in ToSet(descs[i])}

Problem(b) ==
    LET flat  == Flat(b)
        descs == [i \in DOMAIN flat |-> PropagationDescs(flat[i])]
    IN  [propagations |-> flat, descs |-> descs,
         ranges |-> [i \in DOMAIN flat |-> Len(descs[i])],
         edges |-> Interactions(descs)]

INSTANCE BranchAndBound WITH BoundCallback <- Bounds
-----------------------------------------------------------------------------
(* The last call of the callback: FIFOs by anchor and depth, with the      *)
(* registers dropped into them at every stage.                             *)
FifoPropagations(prob, x) ==
    LET inFifo == {i \in DOMAIN x : prob.descs[i][x[i] + 1].inFifo}
        key(i) == prob.descs[i][x[i] + 1].anchorAndDepth
        Before(k, l) == k[1] < l[1] \/ (k[1] = l[1] /\ k[2] < l[2])
        keys   == SetToSortSeq({key(i) : i \in inFifo}, Before)
        Members(k) == {i \in inFifo : key(i) = keys[k]}
        Starts(k) == SetToSortSeq({prob.propagations[i].first : i \in Members(k)}, <)
        Regs(k, start) == UNION {prob.propagations[i].regs : i \in
                              {j \in Members(k) : prob.propagations[j].first = start}}
    IN  [k \in DOMAIN keys |->
            [depth |-> keys[k][2],
             dropPoints |-> [n \in DOMAIN Starts(k) |->
                 [start |-> Starts(k)[n],
                  regs |-> SetToSortSeq(Regs(k, Starts(k)[n]), <)]]]]

(* The first stage structure of a pipeline stage. *)
FirstSubStage(stages, seq) == Min({k \in DOMAIN stages : stages[k].seq = seq})

PushBack(stages, seq, op) ==
    [stages EXCEPT ![FirstSubStage(stages, seq)].ops = Append(@, op)]

(* The state of the insertion: the block, the renamed registers            *)
(* [of, seq, r] and the offset in the FIFO being filled.                   *)
InsertDropPoint(acc, fifo, depth, drop) ==
    LET b      == acc.b
        n      == Len(drop.regs)
        widths == [k \in 1..n |-> b.width[drop.regs[k]]]
        off    == [k \in 1..n |-> acc.offset + Walk(+, 0, SubSeq(widths, 1, k - 1))]
        new    == [k \in 1..n |-> Len(b.width) + k]
        end    == drop.start + depth
        enq    == PushBack(b.stages, drop.start, Queue("enqueue", fifo, off, drop.regs, <<>>))
    IN  [acc EXCEPT
            !.b.width = @ \o widths,
            !.b.stages = PushBack(enq, end, Queue("dequeue", fifo, off, <<>>, new)),
            !.renamed = @ \cup {[of |-> drop.regs[k], seq |-> end + 1, r |-> new[k]] : k \in 1..n},
            !.offset = @ + Walk(+, 0, widths)]

InsertLocalDataPropagationFifos(b, fifos) ==
    LET Width(f) == Walk(LAMBDA sum, d : sum + Walk(LAMBDA s, r : s + b.width[r],
                                                            0, d.regs), 0, f.dropPoints)
        Insert(acc, f) ==
            LET fifo  == Len(acc.b.width) + 1
                start == [acc EXCEPT !.b.width = Append(@, Width(f)),
                                     !.b.delay = (fifo :> f.depth - 1) @@ @,
                                     !.offset = 0]
            IN  Walk(LAMBDA a, d : InsertDropPoint(a, fifo, f.depth, d), start, f.dropPoints)
    IN  Walk(Insert, [b |-> b, renamed |-> {}, offset |-> 0], fifos)

(* The register that holds r's value at a stage, r itself if none does. *)
FindLatestPropagation(renamed, r, seq) ==
    LET reached == {n \in renamed : n.of = r /\ n.seq <= seq}
    IN  IF reached = {} THEN r
        ELSE (CHOOSE n \in reached : \A m \in reached : m.seq <= n.seq).r

(* In a jump's renaming table the new register takes r's place, or gets an *)
(* entry of its own if r is live in the successor under its own name.      *)
RenameJump(renamed, seq, op) ==
    LET Latest(r) == FindLatestPropagation(renamed, r, seq)
        own == {r \in GetLiveInToSuccessor(op, {}) :
                   Latest(r) # r /\ \A o \in DOMAIN op.renaming : op.renaming[o] # r}
    IN  [op EXCEPT !.renaming = [o \in DOMAIN op.renaming |-> Latest(op.renaming[o])]
                                  @@ [r \in own |-> Latest(r)]]

RenameFifoPropagatedRegisters(b, renamed) ==
    LET Read(seq, op) ==
            [op EXCEPT !.src = [k \in DOMAIN op.src |->
                                  FindLatestPropagation(renamed, op.src[k], seq)]]
        Renamed(seq, op) ==
            Read(seq, IF op.kind = "jump" THEN RenameJump(renamed, seq, op) ELSE op)
        Stage(s) == [s EXCEPT !.ops = [k \in DOMAIN s.ops |-> Renamed(s.seq, s.ops[k])]]
    IN  [b EXCEPT !.stages = [n \in DOMAIN b.stages |-> Stage(b.stages[n])]]
-----------------------------------------------------------------------------
propagationVars == <<original, block, searchVars>>

(* GetDataPropagations and OptimizePropagations up to the search. *)
Init == /\ original \in Blocks /\ block = original
        /\ problem = Problem(original)
        /\ SearchInit

(* Blocks that a FIFO could hold up, and devices or options that rule      *)
(* FIFOs of fixed delay out.                                               *)
Excluded == original.noBackPressure \/ LutBasedShiftRegister \/ StallablePipelines

Skip == /\ pc = "sparse" /\ Excluded
        /\ pc' = "done"
        /\ UNCHANGED <<original, block, problem, graphs, optimalValues, maxSearchSpaceSize,
                       parametersToOptimize, workList, best>>

Search == ~Excluded /\ SearchNext /\ UNCHANGED <<original, block>>

InsertAndRename ==
    /\ pc = "found"
    /\ LET inserted == InsertLocalDataPropagationFifos(
                          block, FifoPropagations(problem, optimalValues))
       IN  block' = RenameFifoPropagatedRegisters(inserted.b, inserted.renamed)
    /\ pc' = "done"
    /\ UNCHANGED <<original, problem, graphs, optimalValues, maxSearchSpaceSize,
                   parametersToOptimize, workList, best>>

Next == Skip \/ Search \/ InsertAndRename

(* One thread of the compiler. *)
Spec == Init /\ [][Next]_propagationVars /\ WF_propagationVars(Next)
-----------------------------------------------------------------------------
(* What the operations of a block read, in order, for one thread that runs *)
(* through its pipeline.  Since a register is written once its number      *)
(* stands for its value.  A FIFO gives back after its delay what was put   *)
(* into the same bits, provided that nobody else uses these.               *)
Reads(b) ==
    LET Read(env, r) == IF r \in DOMAIN env THEN env[r] ELSE Undefined
        Overlap(f, g) == f.from < g.to /\ g.from < f.to
        Field(op, k, r) == [from |-> op.offsets[k], to |-> op.offsets[k] + b.width[r]]
        Dequeued(acc, seq, op, k) ==
            LET field == Field(op, k, op.dst[k])
                users == {q \in acc.queue : q.fifo = op.fifo /\ Overlap(q.field, field)}
                mine  == {q \in users : q.field = field /\ q.seq + b.delay[op.fifo] + 1 = seq}
            IN  IF users = mine /\ Cardinality(mine) = 1 /\ field.to <= b.width[op.fifo]
                THEN (CHOOSE q \in mine : TRUE).value ELSE Undefined
        Operation(seq, acc, op) ==
            CASE op.kind = "enqueue" ->
                   [acc EXCEPT !.queue = @ \cup
                       {[fifo |-> op.fifo, seq |-> seq, field |-> Field(op, k, op.src[k]),
                         value |-> Read(acc.env, op.src[k])] : k \in DOMAIN op.src}]
              [] op.kind = "dequeue" ->
                   [acc EXCEPT !.env = [r \in ToSet(op.dst) |->
                       Dequeued(acc, seq, op, CHOOSE k \in DOMAIN op.dst : op.dst[k] = r)] @@ @]
              [] OTHER ->
                   [acc EXCEPT
                       !.env = [r \in ToSet(op.dst) |-> r] @@ @,
                       !.reads = Append(@,
                           [src |-> [k \in DOMAIN op.src |-> Read(acc.env, op.src[k])],
                            passed |-> IF op.kind # "jump" THEN <<>>
                                       ELSE [o \in op.live \ op.dead |->
                                               Read(acc.env,
                                                    MapOriginalToRenamed(op.renaming, o))]])]
        Stage(acc, stage) ==
            Walk(LAMBDA a, op : Operation(stage.seq, a, op), acc, stage.ops)
    IN  Walk(Stage, [env |-> [r \in b.liveIn |-> r], queue |-> {}, reads |-> <<>>],
                 b.stages).reads

(* LocalDataPropagation changes where values wait and never which: every   *)
(* operation reads and every successor gets what it did before.            *)
ReadsSameValue == pc = "done" => Reads(block) = Reads(original)

(* The asserts of OptimizeLocalDataPropTest, per propagation and even if   *)
(* the search gave up: FIFOs cost no more than registers alone or a FIFO   *)
(* for every propagation.                                                  *)
CostsNoMore ==
    pc = "found" => Objective(optimalValues)
                       <= MapThenSumSet(LAMBDA i : CostUpperBound(problem.propagations[i]),
                                        DOMAIN problem.ranges)
=============================================================================
