--------------------------- MODULE FlipFlopChain ---------------------------
(***************************************************************************)
(* KanagawaFlipFlopChainNoEnable (flip_flop_chains.sv): a signal routed    *)
(* through "depth" flip-flops without reset.  Stage 1 is the flip-flop the *)
(* input drives, stage "depth" is the output; a chain of depth 0 is a wire.*)
(***************************************************************************)
EXTENDS Integers, FiniteSets

(* The contents of a chain whose flip-flops hold elements of S. *)
Chains(depth, S) == [1..depth -> S]

(* What is on data_out while "in" is on data_in. *)
ChainOut(chain, depth, in) == IF depth = 0 THEN in ELSE chain[depth]

(* The chain after a clock edge: every stage takes its predecessor's value. *)
ChainShift(chain, depth, in) ==
    [i \in 1..depth |-> IF i = 1 THEN in ELSE chain[i - 1]]

(* Stages beyond stage k that hold a pulse, of a chain of one-bit values,  *)
(* and how many there are: the pulses that entered at least k+1 edges ago. *)
PulseStages(chain, depth, k) == {i \in (k + 1)..depth : chain[i]}
Pulses(chain, depth, k) == Cardinality(PulseStages(chain, depth, k))

Bit(b) == IF b THEN 1 ELSE 0
=============================================================================
