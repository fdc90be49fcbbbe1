------------------------------ MODULE Optimize ------------------------------
(***************************************************************************)
(* The optimiser's driver: five phases, in each of which all passes run    *)
(* over a basic block again and again until an iteration changes nothing.  *)
(* The block is what GenerateIR makes of a source program (module          *)
(* GenerateIR); src.out are the nodes whose registers other blocks read.   *)
(***************************************************************************)
EXTENDS OptimizePasses, GenerateIR

CONSTANTS Sources,     \* source programs: [in, body, out]
          TriedValues(_) \* the values tried for an input of a given width

VARIABLES src,         \* the program being compiled
          prog,        \* the operations of its basic block
          phase,       \* OptimizationPhase
          pass,        \* the next of Passes in this iteration; 0 before there is IR
          progress     \* makingForwardProgressThisFunction

vars == <<src, prog, phase, pass, progress>>

PackLuts1 == 1
LutCommonSub == 3
PhaseCount == 5

(* functionOptimizations, without those on control flow, predicates,       *)
(* memories, strings and clock gating.                                     *)
Passes == <<"KillMoves", "ConstantPropagation", "SelectIndexPropagation",
            "GatherToMove", "AddToOr", "FixupLutOpsForCSE", "CommonSubexpressionElimination",
            "ConstSelectBits", "NarrowLiterals", "DecomposeWideOps", "AlgebraicIdentities",
            "FixupLutOps", "PackLuts", "BitConstantPropagation", "RemoveDeadOperations">>

MutAllowLutCSE(ph) == TRUE
AllowLutCSE(ph) == ph = LutCommonSub

ShouldRun(name, ph) ==
    CASE name = "FixupLutOpsForCSE" -> AllowLutCSE(ph)
      [] name \in {"DecomposeWideOps", "BitConstantPropagation"} -> ph >= PackLuts1
      [] name = "PackLuts" -> ph >= PackLuts1 /\ ph # LutCommonSub
      [] OTHER -> TRUE

(* The registers that other blocks read. *)
LiveOut(s) == {Generated(s).reg[Len(s.in) + k].v : k \in s.out}

Transformed(name, s, p, ph) ==
    CASE name = "KillMoves" -> KillMoves(p)
      [] name = "ConstantPropagation" -> ConstantPropagation(p)
      [] name = "SelectIndexPropagation" -> SelectIndexPropagation(p)
      [] name = "GatherToMove" -> GatherToMove(p)
      [] name = "AddToOr" -> AddToOr(p)
      [] name \in {"FixupLutOps", "FixupLutOpsForCSE"} -> FixupLutOps(p)
      [] name = "CommonSubexpressionElimination" ->
             CommonSubexpressionElimination(p, AllowLutCSE(ph))
      [] name = "ConstSelectBits" -> ConstSelectBits(p)
      [] name = "NarrowLiterals" -> NarrowLiterals(p)
      [] name = "DecomposeWideOps" -> DecomposeWideOps(p)
      [] name = "AlgebraicIdentities" -> AlgebraicIdentities(p)
      [] name = "PackLuts" -> PackLuts(p, IF ph = PackLuts1 THEN SmallLutSize ELSE MaxLutSources)
      [] name = "BitConstantPropagation" -> BitConstantPropagation(p)
      [] name = "RemoveDeadOperations" -> RemoveDeadOperations(p, LiveOut(s))
-----------------------------------------------------------------------------
Init == /\ src \in Sources
        /\ prog = [ops |-> <<>>, next |-> 1]
        /\ phase = 0 /\ pass = 0 /\ progress = FALSE

GenerateProgram ==
    /\ pass = 0
    /\ prog' = Generated(src).p /\ pass' = 1
    /\ UNCHANGED <<src, phase, progress>>

RunPass ==
    /\ phase < PhaseCount /\ pass \in DOMAIN Passes
    /\ prog' = IF ShouldRun(Passes[pass], phase)
               THEN Transformed(Passes[pass], src, prog, phase) ELSE prog
    /\ progress' = (progress \/ prog' # prog)
    /\ pass' = pass + 1
    /\ UNCHANGED <<src, phase>>

(* The end of an iteration: another one, or the next phase. *)
EndIteration ==
    /\ phase < PhaseCount /\ pass > Len(Passes)
    /\ phase' = IF progress THEN phase ELSE phase + 1
    /\ pass' = 1 /\ progress' = FALSE
    /\ UNCHANGED <<src, prog>>

Next == GenerateProgram \/ RunPass \/ EndIteration

(* The driver is a loop of one thread.  Fairness is WF_vars(Next) with its *)
(* ENABLED written out: Next is possible until the last phase is over, and *)
(* every step that changes vars is one.                                    *)
Fairness == []<>(phase = PhaseCount) \/ []<><<TRUE>>_vars

Spec == Init /\ [][Next]_vars /\ Fairness
-----------------------------------------------------------------------------
(* The block computes, for every value of the inputs, the values the       *)
(* source's expressions mean, in every register that is read elsewhere.    *)
Computes(p, s, gen) ==
    LET n == Len(s.in)
        Inputs == {v \in [1..n -> UNION {TriedValues(s.in[k].w) : k \in 1..n}] :
                      \A k \in 1..n : v[k] \in TriedValues(s.in[k].w)}
        Right(regs, want) ==
            \A k \in s.out : regs[gen.reg[n + k].v] = want[n + k] % 2^gen.types[k].w
    IN  \A v \in Inputs :
            Right(Execute(p, [r \in 1..(p.next - 1) |-> IF r <= n THEN v[r] ELSE 0]),
                  Meaning(s, gen.types, [k \in 1..n |-> Interpret(v[k], s.in[k].w, s.in[k].s)]))

(* Code generation gives the expressions their meaning, and no pass, in    *)
(* whatever order the iterations bring them, changes it (Optimize and the  *)
(* passes it calls).                                                       *)
SemanticsPreserved == [][prog' # prog => Computes(prog', src, Generated(src))]_vars

(* What ValidateIR asserts before dead code goes: a register is written    *)
(* once, and before it is read.                                            *)
LocalsAreWritten(p, n) ==
    \A i \in DOMAIN p.ops :
        /\ p.ops[i].dst \in (n + 1)..(p.next - 1)
        /\ \A j \in 1..(i - 1) : p.ops[j].dst # p.ops[i].dst
        /\ \A k \in DOMAIN p.ops[i].src :
               LET o == p.ops[i].src[k]
               IN  \/ o.lit \/ o.v \in 1..n
                   \/ \E j \in 1..(i - 1) : p.ops[j].dst = o.v /\ p.ops[j].w = o.w

(* A LUT in canonical form looks at distinct bits of registers, no more    *)
(* of them than a table has room for, and at every operand it names.       *)
CleanLut(op) ==
    /\ \A k \in DOMAIN op.src : ~op.src[k].lit
    /\ \A i \in DOMAIN op.arg :
           LET srcs == op.arg[i].srcs
           IN  /\ Len(srcs) <= MaxLutSources
               /\ \A c \in DOMAIN srcs : srcs[c][2] < op.src[srcs[c][1]].w
               /\ Cardinality(Range(RegisterColumns(op, op.arg[i]))) = Len(srcs)

(* PackLuts "only ever sees clean inputs", and the elimination of common   *)
(* LUTs finds them "in canonical form" (the comments in Optimize), where   *)
(* both read the source registers without a check; and what reaches        *)
(* RemoveDeadOperations is valid.                                          *)
PassesSeeValidIR ==
    /\ pass \in DOMAIN Passes /\ Passes[pass] = "RemoveDeadOperations"
         => LocalsAreWritten(prog, Len(src.in))
    /\ pass \in DOMAIN Passes /\ ShouldRun(Passes[pass], phase)
         /\ (Passes[pass] = "PackLuts"
               \/ (Passes[pass] = "CommonSubexpressionElimination" /\ AllowLutCSE(phase)))
         => \A i \in DOMAIN prog.ops : prog.ops[i].op = "Lut" => CleanLut(prog.ops[i])
=============================================================================
