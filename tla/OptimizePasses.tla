--------------------------- MODULE OptimizePasses ---------------------------
(***************************************************************************)
(* The passes of the optimiser on one basic block, each a function from    *)
(* programs to programs, besides those on LUTs and on wide operations.     *)
(***************************************************************************)
EXTENDS DecomposeOps

Move(op, o) == Op("Mov", <<o>>, op.dst, op.w, <<>>)

(* A pass that rewrites every operation by itself. *)
Map(New(_), prog) == [prog EXCEPT !.ops = [i \in DOMAIN @ |-> New(@[i])]]

(* A register operand that is replaced is read as before. *)
ReadAs(o, new) == [new EXCEPT !.s = o.s]

SameSource(x, y) == x.lit = y.lit /\ x.v = y.v /\ (x.lit => x.w = y.w)
-----------------------------------------------------------------------------
(* The operand whose value the destination of op has, if op is a move. *)
EqualValue(op) ==
    IF op.op # "Mov" THEN {}
    ELSE LET o == op.src[1]
         IN  IF o.lit THEN IF o.s THEN {} ELSE {Lit(o.v % 2^op.w, op.w, FALSE)}
             ELSE IF o.w = op.w THEN {o} ELSE {}

KillMoves(prog) ==
    LET Equal(o) == UNION {EqualValue(prog.ops[d]) : d \in Defs(prog, o)}
        New(o) == IF Equal(o) = {} THEN o ELSE ReadAs(o, CHOOSE e \in Equal(o) : TRUE)
    IN  Map(LAMBDA op : [op EXCEPT !.src = [k \in DOMAIN @ |-> New(@[k])]], prog)

(* Operations on literals are carried out. *)
UnaryValue(op) == (IF op.op = "Invert" THEN -1 - LitInteger(op.src[1]) ELSE LitInteger(op.src[1]))
                      % 2^op.w

LiteralValue(op) ==
    CASE op.op \in {"Mov", "Invert"} -> {UnaryValue(op)}
      [] op.op \in BinaryOps -> {ImplementBinaryOp(op.op, op.src[1], op.src[2], op.w)}
      [] op.op = "Gather" -> {Result(op, [k \in DOMAIN op.src |-> op.src[k].v])}
      [] OTHER -> {}

ConstantPropagation(prog) ==
    LET Step(s, op) ==
            LET Value(o) == {v \in s.known : ~o.lit /\ v.r = o.v}
                New(o) == IF Value(o) = {} THEN o
                          ELSE Lit((CHOOSE v \in Value(o) : TRUE).v, o.w, o.s)
                src  == [k \in DOMAIN op.src |-> New(op.src[k])]
                new  == IF op.op = "Lut" /\ src # op.src THEN FixupLutOp([op EXCEPT !.src = src])
                        ELSE [op EXCEPT !.src = src]
                values == IF \E k \in DOMAIN src : ~src[k].lit THEN {} ELSE LiteralValue(new)
                folded == IF values = {} \/ op.op = "Mov" THEN new
                          ELSE Move(op, Lit(CHOOSE v \in values : TRUE, op.w, FALSE))
            IN  [p |-> Keep(s.p, folded),
                 known |-> s.known \cup {[r |-> op.dst, v |-> v] : v \in values}]
    IN  Iterate(LAMBDA s, i : Step(s, prog.ops[i]), Len(prog.ops),
                [p |-> [prog EXCEPT !.ops = <<>>], known |-> {}]).p
-----------------------------------------------------------------------------
(* GetSelectIndexOptimizedResult: the operand that gives the result of     *)
(* operation d of p when register index is known to hold value.            *)
SelectIndexOptimizedResult(p, index, value) ==
    LET result[d \in 0..Len(p.ops)] ==
            LET op == p.ops[d]
                Specialized(k) ==
                    LET o == op.src[k]
                    IN  IF o.lit THEN {o}
                        ELSE IF o.v = index THEN {Lit(value % 2^o.w, o.w, o.s)}
                        ELSE UNION {{ReadAs(o, r) : r \in result[e]} : e \in Defs(p, o)}
                Literals(k) == {o \in Specialized(k) : o.lit}
                Chosen(i) ==
                    LET k == i.v + 2
                        o == IF Specialized(k) = {} THEN op.src[k]
                             ELSE CHOOSE s \in Specialized(k) : TRUE
                    IN  IF o.lit THEN {Lit(Resize(o, op.w), op.w, FALSE)}
                        ELSE IF o.w = op.w THEN {o} ELSE {}
            IN  CASE op.op \in {"Mov", "Invert"} ->
                       {Lit(UnaryValue([op EXCEPT !.src = <<x>>]), op.w, FALSE) : x \in Literals(1)}
                  [] op.op \in BinaryOps ->
                       {Lit(ImplementBinaryOp(op.op, x, y, op.w), op.w, FALSE) :
                            x \in Literals(1), y \in Literals(2)}
                  [] op.op = "Select" -> UNION {Chosen(i) : i \in Literals(1)}
                  [] OTHER -> {}
    IN  result

(* A choice of a select counts only while the index has its number. *)
SelectIndexPropagation(prog) ==
    LET Choice(p, op, k) ==
            LET o == op.src[k]
                result == SelectIndexOptimizedResult(p, op.src[1].v, k - 2)
                new == UNION {result[d] : d \in Defs(p, o)}
            IN  IF k = 1 \/ o.lit \/ new = {} THEN o ELSE ReadAs(o, CHOOSE n \in new : TRUE)
        New(p, op) ==
            Keep(p, IF op.op # "Select" \/ op.src[1].lit THEN op
                    ELSE [op EXCEPT !.src = [k \in DOMAIN @ |-> Choice(p, op, k)]])
    IN  Rewrite(New, prog)
-----------------------------------------------------------------------------
(* A gather of all bits of one operand is a move. *)
GatherToMove(prog) ==
    LET Whole(op) == /\ op.op = "Gather" /\ Len(op.src) = 1 /\ op.src[1].w = op.w
                     /\ op.arg[1] = [from |-> 0, to |-> 0, n |-> op.w]
    IN  Map(LAMBDA op : IF Whole(op) THEN Move(op, op.src[1]) ELSE op, prog)

(* The bits of a register that its definition makes 0 whatever the values. *)
ConstantZero(p, o, i) ==
    \E d \in Defs(p, o) : \E lut \in LowerToLut(p.ops[d]) : lut.arg[i + 1].table = {}

AddToOr(prog) ==
    LET Disjoint(p, narrow, wide) ==
            narrow.w < wide.w /\ \A i \in 0..(narrow.w - 1) : ConstantZero(p, wide, i)
        New(p, op) ==
            Keep(p, IF /\ op.op = "Add" /\ ~op.src[1].s /\ ~op.src[2].s
                       /\ \/ Disjoint(p, op.src[1], op.src[2])
                          \/ Disjoint(p, op.src[2], op.src[1])
                    THEN [op EXCEPT !.op = "Or"] ELSE op)
    IN  Rewrite(New, prog)
-----------------------------------------------------------------------------
(* Two LUTs agree when their tables do after a permutation of the columns. *)
LutOperationsProduceSameResult(x, y) ==
    \A i \in DOMAIN x.arg :
        LET cx == RegisterColumns(x, x.arg[i])
            cy == RegisterColumns(y, y.arg[i])
        IN  /\ Len(cx) = Len(cy) /\ Range(cx) \subseteq Range(cy)
            /\ \A row \in [DOMAIN cx -> {0, 1}] :
                   LET other == [c \in DOMAIN cy |-> row[CHOOSE b \in DOMAIN cx : cx[b] = cy[c]]]
                   IN  (row \in x.arg[i].table) = (other \in y.arg[i].table)

OperationsProduceSameResult(x, y) ==
    /\ x.op = y.op /\ x.w = y.w /\ Len(x.src) = Len(y.src)
    /\ IF x.op = "Lut" THEN LutOperationsProduceSameResult(x, y)
       ELSE /\ x.arg = y.arg
            /\ \A k \in DOMAIN x.src : SameSource(x.src[k], y.src[k]) /\ x.src[k].s = y.src[k].s

CommonSubexpressionElimination(prog, transformLuts) ==
    LET Supported(op) ==
            CASE op.op = "Lut" -> transformLuts
              [] op.op = "Mov" -> op.w # op.src[1].w /\ ~op.src[1].lit
              [] OTHER -> TRUE
        Candidates(p, op) == {j \in DOMAIN p.ops : /\ Supported(op) /\ Supported(p.ops[j])
                                                   /\ OperationsProduceSameResult(op, p.ops[j])}
        New(p, op) ==
            LET c == Candidates(p, op)
            IN  Keep(p, IF c = {} THEN op ELSE Move(op, Reg(p.ops[Min(c)].dst, op.w, FALSE)))
    IN  Rewrite(New, prog)
-----------------------------------------------------------------------------
(* A select of which only some bits of the index can change. *)
ConstSelectBits(prog) ==
    LET Bits(lut, op, dynamic) ==
            SelectSeq([n \in 1..op.src[1].w |-> n - 1],
                      LAMBDA i : (lut.arg[i + 1].srcs # <<>>) = dynamic)
        Possible(lut, op, choice) ==
            \A i \in Range(Bits(lut, op, FALSE)) :
                (Bit(choice, i) = 1) = (lut.arg[i + 1].table # {})
        Compacted(p, op, lut) ==
            LET bits == Bits(lut, op, TRUE)
                index == Emit(p, "Gather", [n \in DOMAIN bits |-> op.src[1]], Len(bits),
                              [n \in DOMAIN bits |-> [from |-> bits[n], to |-> n - 1, n |-> 1]])
                possible == SelectSeq([k \in DOMAIN op.src |-> k],
                                      LAMBDA k : k > 1 /\ Possible(lut, op, k - 2))
            IN  Keep(index, [op EXCEPT !.src = <<LastResult(index)>>
                                           \o [n \in DOMAIN possible |-> op.src[possible[n]]]])
        New(p, op) ==
            LET luts == IF op.op # "Select" THEN {}
                        ELSE IF op.src[1].s THEN {}
                        ELSE UNION {LowerToLut(p.ops[d]) : d \in Defs(p, op.src[1])}
                some == {lut \in luts : Len(Bits(lut, op, FALSE)) \in 1..(op.src[1].w - 1)}
            IN  IF some = {} THEN Keep(p, op) ELSE Compacted(p, op, CHOOSE lut \in some : TRUE)
    IN  Rewrite(New, prog)

(* Literals without leading copies of the sign, or leading zeros. *)
Narrowed(o) ==
    LET narrow == {w \in 1..o.w : Interpret(o.v % 2^w, w, o.s) = LitInteger(o)}
    IN  IF o.lit THEN Lit(o.v % 2^Min(narrow), Min(narrow), o.s) ELSE o

NarrowLiterals(prog) ==
    Map(LAMBDA op : [op EXCEPT !.src = [k \in DOMAIN @ |-> Narrowed(@[k])]], prog)
-----------------------------------------------------------------------------
IsAllOnes(o) == o.lit /\ o.v # 0 /\ o.v = 2^o.w - 1

(* The ones of literal k cover the bits of the other operand or of the     *)
(* destination.                                                            *)
Covers(op, k) ==
    LET o == op.src[k]
        other == op.src[3 - k]
    IN  o.w >= op.w \/ o.s \/ (o.w >= other.w /\ ~other.s)

(* The identities with zeros, then with ones, then shifts out of range.    *)
ZeroIdentity(op) ==
    LET Zero(k) == op.src[k].lit /\ op.src[k].v = 0
    IN  IF Zero(2) THEN CASE op.op \in {"Or", "Xor", "Add", "Sub", "Shl", "Shr"} ->
                                  {Move(op, op.src[1])}
                          [] op.op = "And" -> {Move(op, SizeT(0))}
                          [] OTHER -> {}
        ELSE IF Zero(1) THEN CASE op.op \in {"Or", "Xor", "Add"} -> {Move(op, op.src[2])}
                               [] op.op \in {"And", "Shl", "Shr"} -> {Move(op, SizeT(0))}
                               [] OTHER -> {}
        ELSE {}

OnesIdentity(op) ==
    LET ones == {k \in {1, 2} : IsAllOnes(op.src[k])}
        k == Max(ones)
    IN  IF ones = {} \/ ~Covers(op, k) THEN {}
        ELSE CASE op.op = "And" -> {Move(op, op.src[3 - k])}
               [] op.op = "Or" -> {Move(op, op.src[k])}
               [] op.op = "Xor" -> {Op("Invert", <<op.src[3 - k]>>, op.dst, op.w, <<>>)}
               [] OTHER -> {}

ShiftedOut(op) ==
    /\ op.op \in {"Shl", "Shr"} /\ op.src[2].lit
    /\ IF op.op = "Shl" THEN op.src[2].v >= op.w
       ELSE ~op.src[1].s /\ op.src[2].v >= op.src[1].w

BinaryOpAlgebraicIdentities(op) ==
    IF ZeroIdentity(op) # {} THEN CHOOSE new \in ZeroIdentity(op) : TRUE
    ELSE IF OnesIdentity(op) # {} THEN CHOOSE new \in OnesIdentity(op) : TRUE
    ELSE IF ShiftedOut(op) THEN Move(op, SizeT(0))
    ELSE op

SelectAlgebraicIdentities(op) ==
    LET choices == 2..Len(op.src)
        Index(k) == Lit(k - 2, op.src[1].w, op.src[1].s)
        literals == \A k \in choices : op.src[k].lit
        Value(k) == Resize(op.src[k], op.w)
    IN  CASE op.src[1].lit -> Move(op, op.src[op.src[1].v + 2])
          [] ~op.src[1].lit /\ literals /\ (\A k \in choices : Value(k) = Value(2)) ->
                 Move(op, op.src[2])
          [] ~op.src[1].lit /\ literals /\ (\A k \in choices : Value(k) = Resize(Index(k), op.w)) ->
                 Move(op, op.src[1])
          [] ~op.src[1].lit /\ literals /\ (\E k \in choices : Value(k) # Value(2))
                 /\ (\A k \in choices : Value(k) = (-1 - LitInteger(Index(k))) % 2^op.w) ->
                 Op("Invert", <<op.src[1]>>, op.dst, op.w, <<>>)
          [] ~op.src[1].lit /\ (\A k \in choices : ~op.src[k].lit /\ op.src[k] = op.src[2]) ->
                 Move(op, op.src[2])
          [] OTHER -> op

AlgebraicIdentities(prog) ==
    Map(LAMBDA op : CASE op.op \in BinaryOps -> BinaryOpAlgebraicIdentities(op)
                      [] op.op = "Select" -> SelectAlgebraicIdentities(op)
                      [] OTHER -> op, prog)
-----------------------------------------------------------------------------
(* Operations that nothing live depends on go. *)
RemoveDeadOperations(prog, liveOut) ==
    LET n == Len(prog.ops)
        live == Iterate(LAMBDA regs, i :
                            LET op == prog.ops[n + 1 - i]
                            IN  IF op.dst \notin regs THEN regs
                                ELSE regs \cup {op.src[k].v : k \in {j \in DOMAIN op.src :
                                                                        ~op.src[j].lit}},
                        n, liveOut)
    IN  [prog EXCEPT !.ops = SelectSeq(@, LAMBDA op : op.dst \in live)]
=============================================================================
