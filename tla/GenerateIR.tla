----------------------------- MODULE GenerateIR -----------------------------
(***************************************************************************)
(* From integer expressions to operations.  A source program has inputs of *)
(* given types [w, s] and a body of nodes [op, args], a cast with the type *)
(* "to" it casts to, each an operation on earlier values: Var(k) is input  *)
(* k, or with k above the number of inputs the value of a node; a literal  *)
(* is an operand.                                                          *)
(*                                                                         *)
(* The types are the front end's (inferBinaryOp and its helpers); the      *)
(* operations those of GenerateIR of the node, with every register that    *)
(* the code writes twice renamed.                                          *)
(***************************************************************************)
EXTENDS Operations

Var(k) == Reg(k, 0, FALSE)
Type(w, s) == [w |-> w, s |-> s]

tSigned(x) == IF x.s THEN x.w ELSE x.w + 1
tSuper(x, y) == IF x.s = y.s THEN Type(Max({x.w, y.w}), x.s)
                ELSE Type(Max({tSigned(x), tSigned(y)}), TRUE)
tWidenInt(x, n) == Type(x.w + n, x.s)
tNarrowInt(x, n) == Type(Max({IF x.s THEN 2 ELSE 1, x.w - n}), x.s)

SumWidths(a, n) == Iterate(LAMBDA sum, i : sum + a[i].w, n, 0)

(* The type of a node with one or two operands, of a mux or a concatenation. *)
infer(op, a) ==
    LET x == a[1]
        y == a[2]
    IN  CASE op = "Invert" -> Type(x.w, x.s)
          [] op = "Negate" -> Type(x.w + 1, TRUE)
          [] op = "Add" -> tWidenInt(tSuper(x, y), 1)
          [] op = "Sub" -> Type(tSuper(x, y).w + 1, TRUE)
          [] op = "Mul" -> Type(x.w + y.w, x.s \/ y.s)
          [] op = "Div" -> tNarrowInt(x, Clog2(y.v))
          [] op = "Mod" -> IF y.v = 1 THEN tNarrowInt(x, x.w)
                           ELSE Type(Min({x.w, (IF x.s THEN 1 ELSE 0) + Clog2(y.v)}), x.s)
          [] op = "And" -> IF x.s \/ y.s THEN tSuper(x, y) ELSE Type(Min({x.w, y.w}), FALSE)
          [] op \in {"Or", "Xor"} -> tSuper(x, y)
          [] op = "Shl" -> tWidenInt(x, IF y.lit THEN y.v ELSE 2^y.w - 1)
          [] op = "Shr" -> IF y.lit THEN tNarrowInt(x, y.v) ELSE Type(x.w, x.s)
          [] op \in Compare -> Type(1, FALSE)
          [] op = "Concat" -> Type(SumWidths(a, Len(a)), FALSE)
          [] op = "Mux" -> Iterate(LAMBDA t, i : tSuper(t, a[i + 1]), Len(a) - 1,
                                   Type(a[2].w, a[2].s))
-----------------------------------------------------------------------------
(* TryGetKnownValue: the value, if any, that a node is known to have at    *)
(* compile time; And and Or may be known with one operand (BinaryOpNode).  *)
KnownAnd(x, y) == /\ x.lit # y.lit
                  /\ LET known == IF x.lit THEN x ELSE y
                     IN  known.v = 0 /\ known.w >= Max({x.w, y.w})

KnownOr(x, y) == /\ x.lit # y.lit
                 /\ LET known == IF x.lit THEN x ELSE y
                    IN  /\ IsPow2(known.v + 1) /\ known.v # 0
                        /\ known.w >= Max({x.w, y.w})

TryGetKnownValue(op, a, t) ==
    LET x == a[1]
        y == a[2]
        Convert(o) == IF o.lit THEN {Resize(o, t.w)} ELSE {}
    IN  CASE op = "Concat" -> {}
          [] op = "Cast" -> Convert(x)
          [] op = "Mux" -> IF x.lit THEN Convert(a[x.v + 2]) ELSE {}
          [] op = "Invert" /\ x.lit -> {(-1 - LitInteger(x)) % 2^t.w}
          [] op = "Negate" /\ x.lit -> {(-LitInteger(x)) % 2^t.w}
          [] op \in {"Invert", "Negate"} /\ ~x.lit -> {}
          [] op \in BinaryOps ->
                 IF x.lit /\ y.lit THEN {ImplementBinaryOp(op, x, y, t.w)}
                 ELSE IF op = "And" /\ KnownAnd(x, y) THEN {0}
                 ELSE IF op = "Or" /\ KnownOr(x, y) THEN {IF x.lit THEN x.v ELSE y.v}
                 ELSE {}
-----------------------------------------------------------------------------
(* Division by a power of two rounds towards zero: before the shift, v - 1 *)
(* is added to a negative numerator.                                       *)
RoundedNumerator(p, x, v) ==
    LET sign  == Emit(p, "Shr", <<x, SizeT(x.w - 1)>>, 1, <<>>)
        toAdd == Emit(sign, "Select", <<LastResult(sign), SizeT(0), SizeT(v - 1)>>, Clog2(v), <<>>)
    IN  Emit(toAdd, "Add", <<x, LastResult(toAdd)>>, x.w + 1, <<>>)

DivPow2(p, x, v, t) ==
    IF x.s /\ v > 1
    THEN LET sum == RoundedNumerator(p, x, v)
         IN  Emit(sum, "Shr", <<Signed(LastResult(sum)), SizeT(Clog2(v))>>, t.w, <<>>)
    ELSE Emit(p, "Shr", <<x, SizeT(Clog2(v))>>, t.w, <<>>)

(* The remainder has the sign of the numerator: a negative one is negated, *)
(* masked and negated again.                                               *)
ModPow2(p, x, v, t) ==
    IF ~x.s THEN Emit(p, "And", <<x, MpInt(v - 1)>>, t.w, <<>>)
    ELSE LET Plus1(q) == Emit(q, "Add", <<LastResult(q), SizeT(1)>>, x.w + 2, <<>>)
             sign     == Emit(p, "Shr", <<x, SizeT(x.w - 1)>>, 1, <<>>)
             positive == Emit(sign, "And", <<Unsigned(x), MpInt(v - 1)>>, t.w, <<>>)
             negated  == Plus1(Emit(positive, "Invert", <<x>>, x.w + 2, <<>>))
             masked   == Emit(negated, "And", <<LastResult(negated), MpInt(v - 1)>>, x.w + 2, <<>>)
             negative == Plus1(Emit(masked, "Invert", <<LastResult(masked)>>, x.w + 2, <<>>))
         IN  Emit(negative, "Select",
                  <<LastResult(sign), LastResult(positive), Signed(LastResult(negative))>>,
                  t.w, <<>>)

(* The sum of registers, added in pairs, at the width of the result. *)
AddPairs(s, w) ==
    LET Pair(q, i) ==
            IF 2 * i > Len(s.regs) THEN [q EXCEPT !.regs = Append(@, s.regs[2 * i - 1])]
            ELSE LET sum == Emit(q.p, "Add", <<s.regs[2 * i - 1], s.regs[2 * i]>>, w, <<>>)
                 IN  [p |-> sum, regs |-> Append(q.regs, LastResult(sum))]
    IN  Iterate(Pair, (Len(s.regs) + 1) \div 2, [p |-> s.p, regs |-> <<>>])

AddRegisters(p, regs, w) ==
    LET sum == Iterate(LAMBDA s, i : AddPairs(s, w), Len(regs), [p |-> p, regs |-> regs])
    IN  Emit(sum.p, "Mov", IF regs = <<>> THEN <<SizeT(0)>> ELSE sum.regs, w, <<>>)

(* Multiplication by a known value: one shifted copy of the other operand  *)
(* for each 1 bit, the sign bit of a signed known value subtracted.        *)
GenerateIntegerMultConstant(p, known, other, t) ==
    LET Shifted(q, b) ==
            LET shl == Emit(q, "Shl", <<Unsigned(other), SizeT(b)>>, other.w + b, <<>>)
            IN  IF other.s THEN Emit(shl, "Mov", <<Signed(LastResult(shl))>>, t.w, <<>>) ELSE shl
        Subtracted(b) == known.s /\ b = known.w - 1
        Term(s, i) ==
            IF Bit(known.v, i - 1) = 0 THEN s
            ELSE LET q == Shifted(s.p, i - 1)
                 IN  IF Subtracted(i - 1) THEN [s EXCEPT !.p = q, !.minus = <<LastResult(q)>>]
                     ELSE [s EXCEPT !.p = q, !.regs = Append(@, LastResult(q))]
        terms == Iterate(Term, known.w, [p |-> p, regs |-> <<>>, minus |-> <<>>])
        sum   == AddRegisters(terms.p, terms.regs, t.w)
    IN  IF terms.minus = <<>> THEN sum
        ELSE Emit(sum, "Sub", <<LastResult(sum)>> \o terms.minus, t.w, <<>>)

(* UnaryOpNode::GenerateIR *)
GenerateInvert(p, x, t) ==
    LET inverted == Emit(p, "Invert", <<Unsigned(x)>>, x.w, <<>>)
    IN  Emit(inverted, "Mov", <<[LastResult(inverted) EXCEPT !.s = x.s]>>, t.w, <<>>)

GenerateNegate(p, x, t) ==
    LET inverted ==
            IF x.s THEN Emit(p, "Invert", <<x>>, x.w, <<>>)
            ELSE LET widened == Emit(p, "Mov", <<x>>, x.w + 1, <<>>)
                 IN  Emit(widened, "Invert", <<LastResult(widened)>>, x.w + 1, <<>>)
    IN  Emit(inverted, "Add", <<Signed(LastResult(inverted)), Lit(1, 1, FALSE)>>, t.w, <<>>)

(* ConcatNode::GenerateIR: the first operand becomes the most significant. *)
GenerateConcat(p, r, t) ==
    LET src == [k \in DOMAIN r |-> Unsigned(r[Len(r) + 1 - k])]
        gathered == Emit(p, "Gather", src, t.w,
                         [k \in DOMAIN src |->
                             [from |-> 0, to |-> SumWidths(src, k - 1), n |-> src[k].w]])
    IN  Emit(gathered, "Mov", <<LastResult(gathered)>>, t.w, <<>>)

(* One node, with its operands known (a) where they are, and in registers (r). *)
GenerateNode(p, op, a, r, t, known) ==
    IF op \in BinaryOps /\ known # {}
    THEN Emit(p, "Mov", <<MpInt(CHOOSE v \in known : TRUE)>>, t.w, <<>>)
    ELSE CASE op = "Invert" -> GenerateInvert(p, r[1], t)
           [] op = "Negate" -> GenerateNegate(p, r[1], t)
           [] op = "Cast" -> Emit(p, "Mov", r, t.w, <<>>)
           [] op = "Concat" -> GenerateConcat(p, r, t)
           [] op = "Mux" -> Emit(p, "Select", r, t.w, <<>>)
           [] op = "Mul" -> IF a[1].lit THEN GenerateIntegerMultConstant(p, a[1], r[2], t)
                            ELSE GenerateIntegerMultConstant(p, a[2], r[1], t)
           [] op = "Div" -> DivPow2(p, r[1], a[2].v, t)
           [] op = "Mod" -> ModPow2(p, r[1], a[2].v, t)
           [] op \in {"Shl", "Shr"} -> Emit(p, op, <<r[1], Unsigned(r[2])>>, t.w, <<>>)
           [] op \in Bitwise \cup Compare \cup {"Add", "Sub"} -> Emit(p, op, r, t.w, <<>>)
-----------------------------------------------------------------------------
(* The operands of a node: literals are moved to registers first. *)
MoveLiterals(s, args) ==
    Iterate(LAMBDA q, i :
                IF args[i].lit
                THEN LET p == Emit(q.p, "Mov", <<args[i]>>, args[i].w, <<>>)
                     IN  [p |-> p, a |-> Append(q.a, args[i]),
                          r |-> Append(q.r, [LastResult(p) EXCEPT !.s = args[i].s])]
                ELSE [q EXCEPT !.a = Append(@, s.arg[args[i].v]),
                               !.r = Append(@, s.reg[args[i].v])],
            Len(args), [p |-> s.p, a |-> <<>>, r |-> <<>>])

GenerateStatement(s, node) ==
    LET Define(p, reg, t, known) ==
            [p |-> p, reg |-> Append(s.reg, reg),
             arg |-> Append(s.arg, IF known = {} THEN reg
                                   ELSE Lit(CHOOSE v \in known : TRUE, t.w, t.s)),
             types |-> Append(s.types, t)]
        Assign(p, t, known) == Define(p, [LastResult(p) EXCEPT !.s = t.s], t, known)
        Generate(q, t, known) ==
            Assign(GenerateNode(q.p, node.op, q.a, q.r, t, known), t, known)
        Infer(q) == IF node.op = "Cast" THEN node.to ELSE infer(node.op, q.a)
        Evaluate(q, t) == Generate(q, t, TryGetKnownValue(node.op, q.a, t))
        WithOperands(q) == Evaluate(q, Infer(q))
    IN  WithOperands(MoveLiterals(s, node.args))

(* The operations of a source program; its result is the last node's.      *)
Generated(src) ==
    LET n    == Len(src.in)
        regs == [k \in 1..n |-> Reg(k, src.in[k].w, src.in[k].s)]
    IN  Iterate(LAMBDA s, i : GenerateStatement(s, src.body[i]), Len(src.body),
                [p |-> [ops |-> <<>>, next |-> n + 1], reg |-> regs, arg |-> regs,
                 types |-> <<>>])
-----------------------------------------------------------------------------
(* What the expressions mean: integers, without widths. *)
NodeMeaning(op, x, t) ==
    CASE op = "Invert" -> IF t.s THEN -1 - x[1] ELSE 2^t.w - 1 - x[1]
      [] op = "Negate" -> -x[1]
      [] op = "Cast" -> Interpret(x[1] % 2^t.w, t.w, t.s)
      [] op = "Mux" -> x[x[1] + 2]
      [] op \in Bitwise -> Interpret(BinaryValue(op, x[1], x[2], t.w), t.w, t.s)
      [] op \in {"Shl", "Shr"} -> BinaryValue(op, x[1], x[2], 30)
      [] op \in BinaryOps \ (Bitwise \cup {"Shl", "Shr"}) -> BinaryValue(op, x[1], x[2], t.w)

(* The value of every node, given those of the inputs; a shift amount and  *)
(* the elements of a concatenation count as unsigned.                      *)
Meaning(src, types, inputs) ==
    LET Width(o) == IF o.lit THEN o.w
                    ELSE IF o.v <= Len(src.in) THEN src.in[o.v].w
                    ELSE types[o.v - Len(src.in)].w
        Arg(vals, node, k) ==
            LET o == node.args[k]
                v == IF o.lit THEN LitInteger(o) ELSE vals[o.v]
            IN  IF node.op = "Concat" \/ (node.op \in {"Shl", "Shr"} /\ k = 2)
                THEN v % 2^Width(o) ELSE v
        Step(vals, i) ==
            LET node == src.body[i]
                args == [k \in DOMAIN node.args |-> Arg(vals, node, k)]
                Shifted(n, k) == n * 2^Width(node.args[k]) + args[k]
            IN  Append(vals, IF node.op = "Concat" THEN Iterate(Shifted, Len(args), 0)
                             ELSE NodeMeaning(node.op, args, types[i]))
    IN  Iterate(Step, Len(src.body), inputs)
=============================================================================
