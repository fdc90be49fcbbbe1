---------------------------- MODULE DecomposeOps ----------------------------
(***************************************************************************)
(* DecomposeWideOps: comparisons become subtractions or bitwise trees, and *)
(* additions, subtractions and selects that are too wide for a cycle are   *)
(* split into narrower ones.                                               *)
(***************************************************************************)
EXTENDS LutOps

CONSTANTS CarryChainWidth,     \* _carryChainWidthPerLogicLevel
          LogicRegisterRatio,  \* _logicRegisterRatio
          CarrySelect,         \* _carrySelect
          MaxSelectInputs      \* _maxSelectInputs

ASSUME DecomposeAssumption ==
    /\ {CarryChainWidth, LogicRegisterRatio} \subseteq Nat \ {0}
    /\ CarrySelect \in BOOLEAN
    /\ IsPow2(MaxSelectInputs) /\ MaxSelectInputs >= 2

(* GetMuxPathLength of two inputs. *)
MuxPathLength == 1

(* The width of an operand read as a signed number when the other is one. *)
GetPromotedWidth(o, eitherSigned) == IF eitherSigned /\ ~o.s THEN o.w + 1 ELSE o.w

PromotedWidth(x, y) ==
    Max({GetPromotedWidth(x, x.s \/ y.s), GetPromotedWidth(y, x.s \/ y.s)})

(* An order comparison is the sign of a difference. *)
SubResultWidth(x, y) == PromotedWidth(x, y) + 1

DecomposeCompareCarryChain(p, op) ==
    LET swapped == op.op \in {"GT", "LE"}
        lhs  == IF swapped THEN op.src[2] ELSE op.src[1]
        rhs  == IF swapped THEN op.src[1] ELSE op.src[2]
        diff == Emit(p, "Sub", <<lhs, rhs>>, SubResultWidth(lhs, rhs), <<>>)
        sign == Emit(diff, "Shr", <<LastResult(diff), SizeT(LastResult(diff).w - 1)>>, 1, <<>>)
    IN  Keep(sign, Op(IF op.op \in {"GE", "LE"} THEN "Invert" ELSE "Mov",
                      <<LastResult(sign)>>, op.dst, op.w, <<>>))

(* Equality is the reduction of a bitwise difference. *)
DecomposeCompareEQ(p, op) ==
    LET xor == Emit(p, "Xor", op.src, PromotedWidth(op.src[1], op.src[2]), <<>>)
        inverted == Emit(xor, "Invert", <<LastResult(xor)>>, LastResult(xor).w, <<>>)
    IN  Retarget(IF op.op = "EQ" THEN ReduceBinaryOp(inverted, LastResult(inverted), "And")
                 ELSE ReduceBinaryOp(xor, LastResult(xor), "Or"), op.dst)
-----------------------------------------------------------------------------
(* A select of many registers: first within groups, by the low bits of the *)
(* index, then between the groups.                                         *)
TooManyChoices(op) ==
    LET choices == {k \in 2..Len(op.src) : ~op.src[k].lit}
    IN  ~op.src[1].lit /\ Len(op.src) - 1 > MaxSelectInputs
           /\ Cardinality(choices) > MaxSelectInputs

DecomposeSelect(p, op) ==
    LET choices == Len(op.src) - 1
        low     == Clog2(MaxSelectInputs)
        lower   == Emit(p, "Mov", <<op.src[1]>>, low, <<>>)
        upper   == Emit(lower, "Shr", <<op.src[1], SizeT(low)>>, Clog2(choices) - low, <<>>)
        Group(q, g) ==
            Emit(q, "Select", <<LastResult(lower)>>
                     \o [j \in 1..MaxSelectInputs |-> op.src[(g - 1) * MaxSelectInputs + 1 + j]],
                 op.w, <<>>)
        groups  == Iterate(Group, choices \div MaxSelectInputs, upper)
        Chosen == [g \in 1..(choices \div MaxSelectInputs) |-> Reg(upper.next + g - 1, op.w, FALSE)]
    IN  Keep(groups, Op("Select", <<LastResult(upper)>> \o Chosen, op.dst, op.w, <<>>))
-----------------------------------------------------------------------------
(* ComputeDecomposeAddSubConfig, in units of the path length of one bit of *)
(* a carry chain: the width of the words a sum of width w is split into,   *)
(* and whether the carries between them are speculated on.                 *)
NumWords(w, word) == (w + word - 1) \div word

CarrySelectWords(w) ==
    LET length(word) == word + 2 + (NumWords(w, word) - 1) * MuxPathLength * CarryChainWidth
        square == w * MuxPathLength * CarryChainWidth
        floor == CHOOSE n \in 0..square : n * n <= square /\ square < (n + 1) * (n + 1)
        shorter == {word \in {floor, floor + 1} : length(word) < w}
        best == {word \in shorter : \A other \in shorter : length(word) <= length(other)}
    IN  IF ~CarrySelect \/ best = {} THEN {} ELSE {Min(best)}

DecomposeAddSubConfig(w) ==
    LET longest == CarryChainWidth * LogicRegisterRatio
        speculative == CarrySelectWords(w)
    IN  IF speculative # {} THEN {[carrySelect |-> TRUE, word |-> Min(speculative)]}
        ELSE IF w > longest /\ longest > 2 THEN {[carrySelect |-> FALSE, word |-> longest - 2]}
        ELSE {}

(* Bits start..start+size-1 of operand k, with the bit lsb put below them. *)
Extract(p, op, k, start, size) == Emit(p, "Shr", <<op.src[k], SizeT(start)>>, size, <<>>)

Concat(p, lsb) ==
    LET word == LastResult(p)
    IN  Emit(p, "Gather", <<lsb, word>>, word.w + 1,
             << [from |-> 0, to |-> 0, n |-> 1], [from |-> 0, to |-> 1, n |-> word.w] >>)

(* One word of the sum or difference for the incoming carry or borrow: the *)
(* result has the registers of the word and, but for the last, the carry.  *)
AddSubWord(p, op, start, size, carry) ==
    LET first == start = 0
        last  == start + size = op.w
        Operand(q, k) ==
            IF first THEN Extract(q, op, k, start, size)
            ELSE Concat(Extract(q, op, k, start, size),
                        IF k = 2 THEN carry ELSE Lit(IF op.op = "Add" THEN 1 ELSE 0, 1, FALSE))
        Word(q) == [LastResult(q) EXCEPT !.s = last]
        Sum(lhs, rhs) == Emit(rhs, op.op, <<Word(lhs), Word(rhs)>>,
                              Word(lhs).w + (IF last THEN 0 ELSE 1), <<>>)
        AddRhs(lhs) == Sum(lhs, Operand(lhs, 2))
        DropLsb(sum) ==
            IF first THEN sum
            ELSE Emit(sum, "Shr", <<LastResult(sum), SizeT(1)>>, LastResult(sum).w - 1, <<>>)
        SplitCarry(q, out) ==
            LET word == Emit(q, "And", <<out, MpInt(2^(out.w - 1) - 1)>>, out.w - 1, <<>>)
                top  == Emit(word, "Shr", <<out, SizeT(out.w - 1)>>, 1, <<>>)
            IN  [p |-> top, word |-> LastResult(word), carry |-> LastResult(top)]
        Finish(q) == IF last THEN [p |-> q, word |-> LastResult(q), carry |-> carry]
                     ELSE SplitCarry(q, LastResult(q))
    IN  Finish(DropLsb(AddRhs(Operand(p, 1))))

(* Both results of a word, and the ones that go with the carry before it.  *)
SpeculativeWord(p, op, start, size, carry) ==
    LET Mux21(q, x, y) == Emit(q, "Select", <<carry, x, y>>, x.w, <<>>)
        MuxCarry(q, zero, one) ==
            LET muxed == Mux21(q, zero.carry, one.carry)
            IN  [p |-> muxed, word |-> LastResult(q), carry |-> LastResult(muxed)]
        MuxWord(zero, one) ==
            LET muxed == Mux21(one.p, zero.word, one.word)
            IN  IF start + size = op.w
                THEN [p |-> muxed, word |-> LastResult(muxed), carry |-> carry]
                ELSE MuxCarry(muxed, zero, one)
        AddOne(zero) == MuxWord(zero, AddSubWord(zero.p, op, start, size, Lit(1, 1, FALSE)))
    IN  AddOne(AddSubWord(p, op, start, size, Lit(0, 1, FALSE)))

DecomposeAddSub(p, op, config) ==
    LET n == NumWords(op.w, config.word)
        Start(i) == (i - 1) * config.word
        Size(i)  == Min({config.word, op.w - Start(i)})
        Push(s, new) == [p |-> new.p, words |-> Append(s.words, new.word), carry |-> new.carry]
        Word(s, i) ==
            Push(s, IF config.carrySelect /\ i > 1
                    THEN SpeculativeWord(s.p, op, Start(i), Size(i), s.carry)
                    ELSE AddSubWord(s.p, op, Start(i), Size(i), s.carry))
        Gathered(all) ==
            Keep(all.p, Op("Gather", all.words, op.dst, op.w,
                           [i \in 1..n |-> [from |-> 0, to |-> Start(i), n |-> Size(i)]]))
    IN  Gathered(Iterate(Word, n, [p |-> p, words |-> <<>>, carry |-> Lit(0, 1, FALSE)]))
-----------------------------------------------------------------------------
Decompose(p, op) ==
    LET configs == DecomposeAddSubConfig(op.w)
    IN  CASE op.op \in {"GT", "GE", "LT", "LE"} -> DecomposeCompareCarryChain(p, op)
          [] op.op \in {"EQ", "NE"} -> DecomposeCompareEQ(p, op)
          [] op.op \in {"Add", "Sub"} /\ configs # {} ->
                 DecomposeAddSub(p, op, CHOOSE c \in configs : TRUE)
          [] op.op = "Select" /\ TooManyChoices(op) -> DecomposeSelect(p, op)
          [] OTHER -> Keep(p, op)

DecomposeWideOps(prog) == Rewrite(Decompose, prog)
=============================================================================
