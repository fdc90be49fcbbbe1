------------------------------- MODULE LutOps -------------------------------
(***************************************************************************)
(* Operations as lookup tables: lowering an operation to one table for     *)
(* each destination bit, cleaning tables up, merging a table into its only *)
(* reader, and the propagation of single known bits.                       *)
(*                                                                         *)
(* A table is described by cells, the bits it looks at: <<k, b>> is bit b  *)
(* of source operand k, and <<0, v>> a bit known to be v.                  *)
(***************************************************************************)
EXTENDS Operations, SequencesExt

CONSTANTS MaxLutSources,   \* c_maxLutSources, the inputs of a large LUT
          SmallLutSize     \* those of a small one

ASSUME LutAssumption == /\ MaxLutSources \in Nat \ {0} /\ SizeTWidth \in Nat \ {0}
                        /\ SmallLutSize \in 2..MaxLutSources

(* RemoveDuplicateLutColumns: the cells that are not known, each once. *)
UniqueColumns(cells) ==
    LET Seen(i) == \E j \in 1..(i - 1) : cells[j] = cells[i]
    IN  SelectSeq([i \in DOMAIN cells |-> IF Seen(i) THEN <<0, 0>> ELSE cells[i]],
                  LAMBDA c : c[1] # 0)

(* The table over these columns; f says what the values of all the cells   *)
(* give.                                                                   *)
MakeEntry(cells, f(_)) ==
    LET cols == UniqueColumns(cells)
        column == [i \in DOMAIN cells |->
                      IF cells[i][1] = 0 THEN 0
                      ELSE CHOOSE c \in DOMAIN cols : cols[c] = cells[i]]
        Values(row) == [i \in DOMAIN cells |-> IF column[i] = 0 THEN cells[i][2]
                                               ELSE row[column[i]]]
    IN  [srcs |-> cols, table |-> {row \in [1..Len(cols) -> {0, 1}] : f(Values(row)) = 1}]

(* GetSourceOperandDescriptions: the cell that an operand, extended as it  *)
(* is read, has at bit i.                                                  *)
SourceCell(o, k, i) == IF o.lit THEN <<0, Bit(LitInteger(o), i)>>
                       ELSE IF i < o.w THEN <<k, i>>
                       ELSE IF o.s THEN <<k, o.w - 1>>
                       ELSE <<0, 0>>

AsLut(op, entries) ==
    {[op EXCEPT !.op = "Lut", !.arg = entries,
                !.src = [k \in DOMAIN op.src |-> Unsigned(op.src[k])]]}

(* Moves, inversions and bitwise operations: each bit depends on one bit   *)
(* of each operand.                                                        *)
PointwiseBit(op, x) ==
    CASE op.op = "Mov" -> x[1]
      [] op.op = "Invert" -> 1 - x[1]
      [] op.op \in Bitwise -> BitwiseBit(op.op, x[1], x[2])

ConvertPointwiseOpToLut(op) ==
    AsLut(op, [i \in 1..op.w |->
                  MakeEntry([k \in DOMAIN op.src |-> SourceCell(op.src[k], k, i - 1)],
                            LAMBDA x : PointwiseBit(op, x))])

(* A register shifted by a literal. *)
ShiftedCell(op, i) ==
    LET n == op.src[2].v
    IN  CASE op.op = "Shl" -> IF i < n THEN <<0, 0>> ELSE SourceCell(op.src[1], 1, i - n)
          [] op.op = "Shr" -> SourceCell(op.src[1], 1, i + n)

ConvertShiftOpToLut(op) ==
    AsLut(op, [i \in 1..op.w |-> MakeEntry(<<ShiftedCell(op, i - 1)>>, LAMBDA x : x[1])])

(* Any binary operation that reads few enough bits, by its truth table. *)
ConvertBinaryOpToLut(op) ==
    LET Bits(k) == IF op.src[k].lit THEN <<>> ELSE [b \in 1..op.src[k].w |-> <<k, b - 1>>]
        cells == Bits(1) \o Bits(2)
        Value(k, row) ==
            LET before == IF k = 1 THEN 0 ELSE Len(Bits(1))
                o == op.src[k]
            IN  IF o.lit THEN o ELSE Lit(Number(o.w, LAMBDA b : row[before + b + 1]), o.w, o.s)
        result == [row \in [1..Len(cells) -> {0, 1}] |->
                      ImplementBinaryOp(op.op, Value(1, row), Value(2, row), op.w)]
    IN  IF Len(cells) > MaxLutSources THEN {}
        ELSE AsLut(op, [i \in 1..op.w |->
                 [srcs |-> cells,
                  table |-> {row \in DOMAIN result : Bit(result[row], i - 1) = 1}]])

(* A select: each bit depends on the index and on one bit of each choice. *)
ConvertSelectOpToLut(op) ==
    LET choices == Len(op.src) - 1
        indexBits == Clog2(choices)
        Cells(i) == [b \in 1..indexBits |-> <<1, b - 1>>]
                        \o [k \in 1..choices |-> SourceCell(op.src[k + 1], k + 1, i)]
        Chosen(x) == x[indexBits + 1 + Number(indexBits, LAMBDA b : x[b + 1])]
    IN  IF op.src[1].lit \/ \E i \in 0..(op.w - 1) :
               Len(SelectSeq(Cells(i), LAMBDA c : c[1] # 0)) > MaxLutSources
        THEN {}
        ELSE AsLut(op, [i \in 1..op.w |-> MakeEntry(Cells(i - 1), Chosen)])

ConvertGatherOpToLut(op) ==
    LET Cell(i) ==
            LET from == {k \in DOMAIN op.arg : op.arg[k].to <= i /\ i < op.arg[k].to + op.arg[k].n}
                k == Max(from)
            IN  IF from = {} THEN <<0, 0>>
                ELSE SourceCell(op.src[k], k, i - op.arg[k].to + op.arg[k].from)
    IN  AsLut(op, [i \in 1..op.w |-> MakeEntry(<<Cell(i - 1)>>, LAMBDA x : x[1])])

(* The LUT operation that does what op does, if there is one. *)
LowerToLut(op) ==
    CASE op.op = "Lut" -> AsLut(op, op.arg)
      [] op.op \in {"Mov", "Invert"} \cup Bitwise -> ConvertPointwiseOpToLut(op)
      [] op.op = "Select" -> ConvertSelectOpToLut(op)
      [] op.op = "Gather" -> ConvertGatherOpToLut(op)
      [] op.op \in BinaryOps \ Bitwise ->
             IF op.op \in {"Shl", "Shr"} /\ ~op.src[1].lit /\ op.src[2].lit
             THEN ConvertShiftOpToLut(op) ELSE ConvertBinaryOpToLut(op)
-----------------------------------------------------------------------------
(* Cleaning up.  An entry with other cells in the place of its columns; a  *)
(* known cell takes its column out of the table (SetConstantLutSources).   *)
Rewire(entry, cells) ==
    MakeEntry(cells, LAMBDA x : IF x \in entry.table THEN 1 ELSE 0)

(* Columns that are bits of a literal. *)
LiteralCell(op, entry, c) ==
    LET k == entry.srcs[c][1]
    IN  IF op.src[k].lit THEN <<0, Bit(LitInteger(op.src[k]), entry.srcs[c][2])>>
        ELSE entry.srcs[c]

FixupLutOp(op) ==
    LET Fixed(e) == Rewire(e, [c \in DOMAIN e.srcs |-> LiteralCell(op, e, c)])
    IN  [op EXCEPT !.arg = [i \in DOMAIN @ |-> Fixed(@[i])]]

(* Columns that do not affect the output go. *)
Affects(entry, c) ==
    \E row \in [DOMAIN entry.srcs -> {0, 1}] :
        (row \in entry.table) # ([row EXCEPT ![c] = 1 - @] \in entry.table)

RemoveUnusedLutSourceRegisters(entry) ==
    Rewire(entry, [c \in DOMAIN entry.srcs |->
                      IF Affects(entry, c) THEN entry.srcs[c] ELSE <<0, 0>>])

MutUniqueCell(op, entry, c) == LiteralCell(op, entry, c)

(* Two operands that are the same register become one. *)
UniqueCell(op, entry, c) ==
    LET k == entry.srcs[c][1]
        b == entry.srcs[c][2]
    IN  IF op.src[k].lit THEN LiteralCell(op, entry, c)
        ELSE <<Min({j \in 1..k : ~op.src[j].lit /\ op.src[j].v = op.src[k].v}), b>>

(* Operands that no column uses go. *)
RemoveUnusedLutSourceOperands(op) ==
    LET used == {k \in DOMAIN op.src : \E i \in DOMAIN op.arg :
                     \E c \in DOMAIN op.arg[i].srcs : op.arg[i].srcs[c][1] = k}
        kept == SelectSeq([k \in DOMAIN op.src |-> k], LAMBDA k : k \in used)
        Place(k) == CHOOSE n \in DOMAIN kept : kept[n] = k
        Renumbered(e) == [e EXCEPT !.srcs = [c \in DOMAIN @ |-> <<Place(@[c][1]), @[c][2]>>]]
    IN  [op EXCEPT !.src = [n \in DOMAIN kept |-> op.src[kept[n]]],
                   !.arg = [i \in DOMAIN @ |-> Renumbered(@[i])]]

(* A LUT without sources is the move of a literal. *)
DetectConstantLut(op) ==
    IF \E i \in DOMAIN op.arg : op.arg[i].srcs # <<>> THEN op
    ELSE LET value == Number(op.w, LAMBDA i : IF op.arg[i + 1].table = {} THEN 0 ELSE 1)
         IN  Op("Mov", <<MpInt(value)>>, op.dst, op.w, <<>>)

(* All of these until nothing changes. *)
CleanedLut(op) ==
    LET Unique(e) == Rewire(e, [c \in DOMAIN e.srcs |-> UniqueCell(op, e, c)])
        Cleaned(e) == RemoveUnusedLutSourceRegisters(Unique(e))
    IN  DetectConstantLut(RemoveUnusedLutSourceOperands(
            [op EXCEPT !.arg = [i \in DOMAIN @ |-> Cleaned(@[i])]]))

FixupLutOps(prog) ==
    Rewrite(LAMBDA p, op : Keep(p, IF op.op = "Lut" THEN CleanedLut(op) ELSE op), prog)
-----------------------------------------------------------------------------
(* Merging prev, which defines operand k of op, into op.  Here a column is *)
(* <<register, bit>> until the operands of the result are known.           *)
RegisterColumns(op, entry) ==
    [c \in DOMAIN entry.srcs |-> <<op.src[entry.srcs[c][1]].v, entry.srcs[c][2]>>]

(* The columns that take the place of column c, and all of them. *)
MergedColumns(op, prev, k, entry, c) ==
    IF entry.srcs[c][1] = k THEN RegisterColumns(prev, prev.arg[entry.srcs[c][2] + 1])
    ELSE <<RegisterColumns(op, entry)[c]>>

MergedCells(op, prev, k, entry) ==
    Iterate(LAMBDA all, c : all \o MergedColumns(op, prev, k, entry, c), Len(entry.srcs), <<>>)

(* What entry gives when the merged columns have the values x. *)
MergedValue(op, prev, k, entry, x) ==
    LET start == [c \in DOMAIN entry.srcs |->
                     Iterate(LAMBDA n, j : n + Len(MergedColumns(op, prev, k, entry, j)), c - 1, 0)]
        Input(c) ==
            LET table == prev.arg[entry.srcs[c][2] + 1].table
                n == Len(MergedColumns(op, prev, k, entry, c))
            IN  IF entry.srcs[c][1] # k THEN x[start[c] + 1]
                ELSE IF [j \in 1..n |-> x[start[c] + j]] \in table THEN 1 ELSE 0
    IN  IF [c \in DOMAIN entry.srcs |-> Input(c)] \in entry.table THEN 1 ELSE 0

(* The distinct elements of a sequence, in order of appearance. *)
Distinct(s) == Iterate(LAMBDA d, i : IF Contains(d, s[i]) THEN d ELSE Append(d, s[i]), Len(s), <<>>)

MergedEntries(op, prev, k, cells) ==
    [i \in DOMAIN cells |->
        RemoveUnusedLutSourceRegisters(
            MakeEntry(cells[i], LAMBDA x : MergedValue(op, prev, k, op.arg[i], x)))]

(* The registers of the other operands of op, then those of the columns. *)
MergedRegisters(op, k, cells) ==
    LET other == [j \in DOMAIN op.src |-> IF j = k THEN Lit(0, 1, FALSE) ELSE op.src[j]]
        Names(s) == [j \in DOMAIN s |-> s[j].v]
        Registers(i) == [c \in DOMAIN cells[i] |-> cells[i][c][1]]
    IN  Distinct(Names(SelectSeq(other, LAMBDA o : ~o.lit))
                   \o Iterate(LAMBDA all, i : all \o Registers(i), Len(cells), <<>>))

MergedLut(op, prev, regs, entries) ==
    LET Width(r) == (CHOOSE o \in Range(op.src) \cup Range(prev.src) : ~o.lit /\ o.v = r).w
        Place(r) == CHOOSE n \in DOMAIN regs : regs[n] = r
        constant == \A i \in DOMAIN entries : entries[i].srcs = <<>>
    IN  Op("Lut",
           IF constant THEN <<>>
           ELSE [n \in DOMAIN regs |-> Reg(regs[n], Width(regs[n]), FALSE)],
           op.dst, op.w,
           [i \in DOMAIN entries |->
               [entries[i] EXCEPT !.srcs = [c \in DOMAIN @ |-> <<Place(@[c][1]), @[c][2]>>]]])

(* The merged table must fit before columns that no longer matter go, and  *)
(* be no larger than asked for after.                                      *)
CombineLuts(opIn, prevIn, k, maxSources) ==
    LET Fitting(op, prev, cells, entries) ==
            IF \/ \E i \in DOMAIN cells : Len(Distinct(cells[i])) > MaxLutSources
               \/ \E i \in DOMAIN entries : Len(entries[i].srcs) > maxSources
            THEN {}
            ELSE {MergedLut(op, prev, MergedRegisters(op, k, cells), entries)}
        OfCells(op, prev, cells) ==
            Fitting(op, prev, cells, MergedEntries(op, prev, k, cells))
    IN  UNION {OfCells(op, prev, [i \in DOMAIN op.arg |-> MergedCells(op, prev, k, op.arg[i])]) :
                  op \in LowerToLut(opIn), prev \in LowerToLut(prevIn)}

(* ComputeRegisterReadCountMap *)
UseCount(prog, r) ==
    LET Reads(i) == {k \in DOMAIN prog.ops[i].src : /\ ~prog.ops[i].src[k].lit
                                                   /\ prog.ops[i].src[k].v = r}
    IN  Cardinality(UNION {{i} \X Reads(i) : i \in DOMAIN prog.ops})

(* Every operation takes in, one after the other, the operations of which  *)
(* it is the only reader.                                                  *)
PackLuts(prog, maxSources) ==
    LET Combined(p, m, k) ==
            {[k |-> k, d |-> d, luts |-> CombineLuts(m.op, p.ops[d], k, maxSources)] :
                d \in Defs(p, m.op.src[k]) \ m.tried}
        SoleReads(m) ==
            {k \in DOMAIN m.op.src : ~m.op.src[k].lit /\ UseCount(prog, m.op.src[k].v) = 1}
        First(m, able) ==
            IF able = {} THEN [m EXCEPT !.going = FALSE]
            ELSE LET c == CHOOSE c \in able : \A other \in able : c.k <= other.k
                 IN  [m EXCEPT !.op = CHOOSE o \in c.luts : TRUE, !.tried = @ \cup {c.d}]
        Merged(p, m) ==
            IF ~m.going THEN m
            ELSE First(m, {c \in UNION {Combined(p, m, k) : k \in SoleReads(m)} : c.luts # {}})
        Packed(p, op) ==
            Iterate(LAMBDA m, i : Merged(p, m), Len(p.ops) + 1,
                    [op |-> op, tried |-> {}, going |-> TRUE]).op
    IN  Rewrite(LAMBDA p, op : Keep(p, Packed(p, op)), prog)
-----------------------------------------------------------------------------
(* Known bits, as triples <<register, bit, value>>. *)
KnownCell(op, entry, c, known) ==
    LET k == entry.srcs[c][1]
        b == entry.srcs[c][2]
        v == {x \in {0, 1} : ~op.src[k].lit /\ <<op.src[k].v, b, x>> \in known}
    IN  IF v = {} THEN <<k, b>> ELSE <<0, CHOOSE x \in v : TRUE>>

ConstantBits(op) ==
    {<<op.dst, i, 0>> : i \in {j \in 0..(op.w - 1) : op.arg[j + 1].table = {}}}
    \cup {<<op.dst, i, 1>> : i \in {j \in 0..(op.w - 1) :
              /\ Len(op.arg[j + 1].srcs) <= 1
              /\ op.arg[j + 1].table = [DOMAIN op.arg[j + 1].srcs -> {0, 1}]}}

(* The highest bit of an operand of an addition that may be 1. *)
MaxNonZeroBit(o, w, known) ==
    LET Zero(i) == IF o.lit THEN Bit(LitInteger(o), i) = 0
                   ELSE IF i < o.w THEN <<o.v, i, 0>> \in known
                   ELSE ~o.s \/ <<o.v, o.w - 1, 0>> \in known
    IN  Max({0} \cup {i \in 0..(w - 1) : ~Zero(i)})

MutFirstZeroDstBit(op, known) ==
    Max({MaxNonZeroBit(op.src[1], op.w, known), MaxNonZeroBit(op.src[2], op.w, known)}) + 1

(* One carry above the operands, and the first zero is one beyond that. *)
FirstZeroDstBit(op, known) ==
    Max({MaxNonZeroBit(op.src[1], op.w, known), MaxNonZeroBit(op.src[2], op.w, known)}) + 2

BitConstantPropagation(prog) ==
    LET BakedEntry(lut, e, known) ==
            Rewire(e, [c \in DOMAIN e.srcs |-> KnownCell(lut, e, c, known)])
        Baked(lut, known) ==
            [lut EXCEPT !.arg = [i \in DOMAIN @ |-> BakedEntry(lut, @[i], known)]]
        Step(s, op) ==
            LET luts == LowerToLut(op)
                lut == CHOOSE l \in luts : TRUE
                baked == Baked(lut, s.known)
                zeros == IF op.op # "Add" THEN {}
                         ELSE {<<op.dst, i, 0>> : i \in FirstZeroDstBit(op, s.known)..(op.w - 1)}
            IN  IF luts = {} THEN [p |-> Keep(s.p, op), known |-> s.known \cup zeros]
                ELSE [p |-> Keep(s.p, IF baked = lut THEN op ELSE baked),
                      known |-> s.known \cup ConstantBits(baked)]
    IN  Iterate(LAMBDA s, i : Step(s, prog.ops[i]), Len(prog.ops),
                [p |-> [prog EXCEPT !.ops = <<>>], known |-> {}]).p
-----------------------------------------------------------------------------
(* ReduceBinaryOp: the And or Or of all bits of a register, by a tree of   *)
(* small LUTs.                                                             *)
ReducedEntry(first, n, type) ==
    MakeEntry([b \in 1..n |-> <<1, first + b - 1>>],
              LAMBDA x : Iterate(LAMBDA r, i : BitwiseBit(type, r, x[i + 1]), n - 1, x[1]))

ReduceBinaryOp(p, src, type) ==
    LET Level(q, o) ==
            LET w == (o.w + SmallLutSize - 1) \div SmallLutSize
            IN  Emit(q, "Lut", <<Unsigned(o)>>, w,
                     [g \in 1..w |-> ReducedEntry((g - 1) * SmallLutSize,
                                         Min({SmallLutSize, o.w - (g - 1) * SmallLutSize}), type)])
    IN  Iterate(LAMBDA q, i : IF i = 1 THEN Level(q, src)
                              ELSE IF LastResult(q).w = 1 THEN q ELSE Level(q, LastResult(q)),
                src.w, p)
=============================================================================
