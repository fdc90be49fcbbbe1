----------------------------- MODULE Operations -----------------------------
(***************************************************************************)
(* The compiler's intermediate operations on registers and literals, what  *)
(* each of them computes, and programs of them: one basic block after      *)
(* renaming, so that every register is written once.                       *)
(*                                                                         *)
(* An operand carries the width it is read with and whether that read sign *)
(* extends (Operation::_signExtendSourceMask); an operation has the width  *)
(* of its destination.  Gather entries are [from, to, n]; a LUT entry, one *)
(* for each destination bit, lists the source bits <<operand, bit>> it     *)
(* looks at and the set of their values (as tuples) that give a 1.         *)
(***************************************************************************)
EXTENDS Integers, Sequences, FiniteSetsExt

CONSTANT SizeTWidth   \* stands for the 64 bits of a literal of type size_t

Reg(r, w, s) == [lit |-> FALSE, v |-> r, w |-> w, s |-> s]
Lit(v, w, s) == [lit |-> TRUE, v |-> v, w |-> w, s |-> s]

Op(opcode, src, dst, w, arg) ==
    [op |-> opcode, src |-> src, dst |-> dst, w |-> w, arg |-> arg]

Bitwise == {"And", "Or", "Xor"}
Compare == {"EQ", "NE", "GT", "GE", "LT", "LE"}
BinaryOps == Bitwise \cup Compare \cup {"Add", "Sub", "Mul", "Div", "Mod", "Shl", "Shr"}
-----------------------------------------------------------------------------
(* Step(...Step(Step(base, 1), 2)..., n) *)
Iterate(Step(_, _), n, base) ==
    LET after[i \in 0..n] ==
            IF i = 0 THEN base ELSE LET before == after[i - 1] IN Step(before, i)
    IN  after[n]

(* Bit i of an integer in two's complement. *)
Bit(v, i) == (v \div 2^i) % 2

(* The number of n bits whose bit i is bit[i]. *)
Number(n, bit(_)) == Iterate(LAMBDA sum, i : sum + 2^(i-1) * bit(i - 1), n, 0)

GetMpWidth(v) == IF v = 0 THEN 1 ELSE CHOOSE n \in 1..30 : 2^(n-1) <= v /\ v < 2^n

Clog2(n) == CHOOSE k \in 0..30 : 2^k >= n /\ (k = 0 \/ 2^(k-1) < n)
IsPow2(n) == n > 0 /\ 2^Clog2(n) = n

(* A literal made from a multiple precision integer, and from a size_t. *)
MpInt(v) == Lit(v, GetMpWidth(v), FALSE)
SizeT(v) == Lit(v, SizeTWidth, FALSE)

(* The integer that w bits stand for; Widen and Resize in the source keep  *)
(* it in two's complement.                                                 *)
Interpret(v, w, s) == IF s /\ Bit(v, w - 1) = 1 THEN v - 2^w ELSE v
LitInteger(o) == Interpret(o.v, o.w, o.s)
Resize(o, w) == LitInteger(o) % 2^w

TruncatedQuotient(a, b) == IF a >= 0 THEN a \div b ELSE -((-a) \div b)

BitwiseBit(type, x, y) == CASE type = "And" -> x * y
                            [] type = "Or"  -> x + y - x * y
                            [] type = "Xor" -> (x + y) % 2

Holds(type, a, b) == CASE type = "EQ" -> a = b [] type = "NE" -> a # b
                       [] type = "GT" -> a > b [] type = "GE" -> a >= b
                       [] type = "LT" -> a < b [] type = "LE" -> a <= b

(* A binary operation on the integers its operands stand for; the result   *)
(* counts modulo 2^w.                                                      *)
BinaryValue(type, a, b, w) ==
    CASE type = "Add" -> a + b
      [] type = "Sub" -> a - b
      [] type = "Mul" -> a * b
      [] type = "Div" -> TruncatedQuotient(a, b)
      [] type = "Mod" -> a - b * TruncatedQuotient(a, b)
      [] type = "Shl" -> IF b >= w THEN 0 ELSE a * 2^b
      [] type = "Shr" -> a \div 2^Min({b, 20})
      [] type \in Bitwise -> Number(w, LAMBDA i : BitwiseBit(type, Bit(a, i), Bit(b, i)))
      [] type \in Compare -> IF Holds(type, a, b) THEN 1 ELSE 0

(* Two literals at compile time.  EQ and NE compare the bits of both,      *)
(* widened to the wider operand.                                           *)
ImplementBinaryOp(type, x, y, w) ==
    LET wide == Max({x.w, y.w})
    IN  IF type \in {"EQ", "NE"}
        THEN IF Holds(type, Resize(x, wide), Resize(y, wide)) THEN 1 ELSE 0
        ELSE BinaryValue(type, LitInteger(x), LitInteger(y), w) % 2^w
-----------------------------------------------------------------------------
LutBit(entry, val) ==
    IF [c \in DOMAIN entry.srcs |-> Bit(val[entry.srcs[c][1]], entry.srcs[c][2])]
         \in entry.table
    THEN 1 ELSE 0

(* What op writes when its operands read the bits val. *)
Result(op, val) ==
    LET Integer(k) == Interpret(val[k], op.src[k].w, op.src[k].s)
        GatherBit(i) ==
            LET covering == {k \in DOMAIN op.arg : /\ op.arg[k].to <= i
                                                   /\ i < op.arg[k].to + op.arg[k].n}
            IN  IF covering = {} THEN 0
                ELSE LET k == Max(covering)
                     IN  Bit(val[k], i - op.arg[k].to + op.arg[k].from)
        value == CASE op.op = "Mov" -> Integer(1)
                   [] op.op = "Invert" -> -1 - Integer(1)
                   [] op.op \in BinaryOps -> BinaryValue(op.op, Integer(1), Integer(2), op.w)
                   [] op.op = "Select" -> Integer(val[1] + 2)
                   [] op.op = "Gather" -> Number(op.w, GatherBit)
                   [] op.op = "Lut" -> Number(op.w, LAMBDA i : LutBit(op.arg[i + 1], val))
    IN  value % 2^op.w

(* The registers after a program ran. *)
Execute(prog, registers) ==
    Iterate(LAMBDA env, i :
                LET op == prog.ops[i]
                IN  [env EXCEPT ![op.dst] =
                        Result(op, [k \in DOMAIN op.src |-> IF op.src[k].lit THEN op.src[k].v
                                                            ELSE env[op.src[k].v]])],
            Len(prog.ops), registers)
-----------------------------------------------------------------------------
(* Building a program: an operation is added with a new register for its   *)
(* result, which LastResult names.                                         *)
Emit(p, opcode, src, w, arg) ==
    [p EXCEPT !.ops = Append(@, Op(opcode, src, p.next, w, arg)), !.next = @ + 1]

LastResult(p) == Reg(p.next - 1, p.ops[Len(p.ops)].w, FALSE)

Signed(o) == [o EXCEPT !.s = TRUE]
Unsigned(o) == [o EXCEPT !.s = FALSE]

(* The last operation writes dst instead of a new register. *)
Retarget(p, dst) ==
    [p EXCEPT !.ops[Len(p.ops)].dst = dst, !.next = @ - 1]

(* LocalDefUseTracker::GetDef: the operations of p that define operand o.  *)
Defs(p, o) == IF o.lit THEN {} ELSE {i \in DOMAIN p.ops : p.ops[i].dst = o.v}

(* One walk over a program in which New(p, op) adds, to the part p already *)
(* rewritten, what op becomes.                                             *)
Rewrite(New(_, _), prog) ==
    Iterate(LAMBDA p, i : New(p, prog.ops[i]), Len(prog.ops), [prog EXCEPT !.ops = <<>>])

Keep(p, op) == [p EXCEPT !.ops = Append(@, op)]
=============================================================================
