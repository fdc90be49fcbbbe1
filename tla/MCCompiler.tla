----------------------------- MODULE MCCompiler -----------------------------
(***************************************************************************)
(* The modelled parts of the compiler: small programs through the          *)
(* optimiser (module Optimize), and scheduled basic blocks through the     *)
(* propagation of local data (module LocalDataPropagation), which comes    *)
(* much later.  A behaviour is about one or the other.                     *)
(***************************************************************************)
EXTENDS MCOptimize

CONSTANTS Blocks, FifoWidthAlignment, FifoDepthAlignment, FifoFixedCost,
          FifoBitsPerRegister, FifoMergeDistance, LutBasedShiftRegister,
          StallablePipelines, MaxWorkListSize, WordBits, SizeMax, Undefined

VARIABLES original, block, problem, pc, graphs, optimalValues, maxSearchSpaceSize,
          parametersToOptimize, workList, best

Prop == INSTANCE LocalDataPropagation

ASSUME PropAssumption == Prop!PropagationAssumption

LastStage == 8

(* Register r is live into the block (def[r] = -1) or written in the       *)
(* second half of stage def[r]; it is read in the first half of the stages *)
(* uses[r], or after the write if it is written in the same stage.         *)
Block(width, def, uses, jumps, start) ==
    LET regs      == DOMAIN def
        Ops(R, W) == IF R \cup W = {} THEN <<>>
                     ELSE <<Prop!Op(SetToSortSeq(R, <), SetToSortSeq(W, <))>>
        First(s)  == Ops({r \in regs : s \in uses[r] /\ s # def[r]}, {})
        Second(s) == Ops({}, {r \in regs : s = def[r]})
                       \o Ops({r \in regs : s = def[r] /\ s \in uses[r]}, {})
                       \o (IF s \in DOMAIN jumps THEN jumps[s] ELSE <<>>)
        Stages(s) == <<[seq |-> s, ops |-> First(s)]>>
                       \o (IF Second(s) = <<>> THEN <<>> ELSE <<[seq |-> s, ops |-> Second(s)]>>)
    IN  [width |-> width, delay |-> <<>>, liveIn |-> {r \in regs : def[r] = -1},
         hasStartCondition |-> start, noBackPressure |-> FALSE,
         stages |-> FlattenSeq([s \in 1..(LastStage + 1) |-> Stages(s - 1)])]

(* Up to four values of different widths, some used twice, two of them     *)
(* passed on: at the end, or in the middle by a branch and a call.         *)
MCBlocks ==
    LET none    == <<>>
        atEnd   == LastStage :> <<Prop!Jump(<<3>>, {1, 5}, {}, 5 :> 2)>>
        between == 4 :> <<Prop!Jump(<<1>>, {1}, {}, none), Prop!Jump(<<>>, {5}, {1}, 5 :> 2)>>
        blocks  == {Block(<<w1, 3, w3, 1, 3>>, <<-1, d2, d3, d4>>, <<u1, u2, u3, u4>>, jumps, start) :
                       w1 \in {1, 4}, w3 \in {2, 5}, d2 \in {0, 1}, d3 \in {-1, 2}, d4 \in {0, 3},
                       u1 \in {{4}, {3, 8}}, u2 \in {{6}, {1, 8}}, u3 \in {{7}, {3, 8}},
                       u4 \in {{}, {8}}, jumps \in {atEnd, between}, start \in BOOLEAN}
    IN  blocks \cup {[b EXCEPT !.noBackPressure = TRUE] : b \in {CHOOSE b \in blocks : TRUE}}

propVars == <<original, block, problem, pc, graphs, optimalValues, maxSearchSpaceSize,
              parametersToOptimize, workList, best>>
mcVars == <<vars, propVars>>

(* The part that is not in use has nothing to do. *)
MCInit ==
    \/ /\ Init
       /\ pc = "done" /\ original = <<>> /\ block = <<>> /\ problem = <<>>
       /\ graphs = <<>> /\ optimalValues = <<>> /\ maxSearchSpaceSize = SizeMax
       /\ parametersToOptimize = {} /\ workList = <<>> /\ best = <<>>
    \/ /\ Prop!Init
       /\ src = <<>> /\ prog = <<>> /\ phase = PhaseCount /\ pass = 1 /\ progress = FALSE

InUse == IF original = <<>> THEN "optimiser" ELSE "propagation"

MCNext == \/ InUse = "optimiser" /\ Next /\ UNCHANGED propVars
          \/ InUse = "propagation" /\ Prop!Next /\ UNCHANGED vars

Ended == phase = PhaseCount /\ pc = "done"

(* The compiler's only thread goes on: weak fairness of MCNext with its    *)
(* ENABLED written out, since a step is possible until the end.            *)
MCFairness == []<>Ended \/ []<><<TRUE>>_mcVars

MCSpec == MCInit /\ [][MCNext]_mcVars /\ MCFairness
-----------------------------------------------------------------------------
(* Every phase of the optimiser reaches a fixed point: the phases exist    *)
(* because PackLuts and CommonSubexpressionElimination on LUTs undo each   *)
(* other (the comment in Optimize).  The search of branch_and_bound.cpp,   *)
(* which gives up on parts of its problem and begins again, ends too.      *)
CompilerTerminates == <>Ended

(* branch_and_bound.cpp, OptimizePropagations: the cheapest arrangement is *)
(* found unless the work list's limit made the search give up, and then    *)
(* too FIFOs cost no more than doing without sharing them.                 *)
PropagationsOptimal ==
    InUse = "propagation" => Prop!OptimumFound /\ Prop!CostsNoMore

(* LocalDataPropagation: every operation reads, and every successor gets,  *)
(* the value it did without the FIFOs.                                     *)
ReadsSameValue == InUse = "propagation" => Prop!ReadsSameValue
=============================================================================
