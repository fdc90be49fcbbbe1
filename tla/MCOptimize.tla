----------------------------- MODULE MCOptimize -----------------------------
EXTENDS Optimize

MCValues(w) == IF w <= 3 THEN 0..(2^w - 1)
               ELSE {0, 1, 2, 2^(w-1) - 1, 2^(w-1), 2^w - 2, 2^w - 1}

U(w) == Type(w, FALSE)
S(w) == Type(w, TRUE)

Node(op, args) == [op |-> op, args |-> args]

(* A program with one node, or with two that are both read elsewhere. *)
One(in, op, args) == [in |-> in, body |-> <<Node(op, args)>>, out |-> {1}]

Small == {U(1), U(2), U(3), S(2), S(3)}

RegReg ==
    {One(<<x, y>>, op, <<Var(1), Var(2)>>) :
        x \in Small, y \in Small, op \in Bitwise \cup Compare \cup {"Add", "Sub"}}
    \cup {One(<<x, y>>, op, <<Var(1), Var(2)>>) :
        x \in Small, y \in {U(1), U(2)}, op \in {"Shl", "Shr"}}

Literals == {Lit(v, w, FALSE) : v \in 0..3, w \in {2, 4}} \cup {Lit(v, 2, TRUE) : v \in 0..3}
              \cup {Lit(6, 3, TRUE), Lit(7, 3, FALSE)}

RegLit ==
    {One(<<x>>, op, args) :
        x \in Small, op \in {"And", "Or", "Xor", "Add", "Sub", "Mul"} \cup Compare,
        args \in {<<Var(1), l>> : l \in Literals}
                   \cup {<<l, Var(1)>> : l \in {k \in Literals : k.w = 2}}}
    \cup {One(<<x>>, op, <<Var(1), Lit(v, w, FALSE)>>) :
             x \in Small, op \in {"Shl", "Shr"}, v \in 0..3, w \in {2, 3}}
    \cup {One(<<x>>, op, <<Var(1), Lit(v, 3, FALSE)>>) :
             x \in Small, op \in {"Div", "Mod"}, v \in {1, 2, 4}}

Unary == {One(<<x>>, op, <<Var(1)>>) : x \in Small, op \in {"Invert", "Negate"}}

(* Two nodes, the second on the first and an input, a literal or itself. *)
Two(in, one, two, out) == [in |-> in, body |-> <<one, two>>, out |-> out]

Chains ==
    LET first  == {Node(op, <<Var(1), Var(2)>>) : op \in Bitwise \cup {"Add", "Sub", "EQ", "LT"}}
                     \cup {Node("Shl", <<Var(1), Lit(2, 2, FALSE)>>), Node("Invert", <<Var(2)>>)}
        second == {Node(op, args) : op \in Bitwise \cup {"Add", "Sub", "NE", "GE"},
                      args \in {<<Var(3), Var(1)>>, <<Var(2), Var(3)>>, <<Var(3), Var(3)>>}}
                     \cup {Node("Shr", <<Var(3), Lit(1, 1, FALSE)>>), Node("Negate", <<Var(3)>>)}
    IN  {Two(<<U(2), y>>, one, two, out) :
            y \in {U(1), S(2)}, one \in first, two \in second, out \in {{2}, {1, 2}}}

(* The same expression twice, and the selects. *)
Twice == {Two(<<U(2), S(2)>>, n, n, {1, 2}) :
             n \in {Node(op, <<Var(1), Var(2)>>) : op \in {"And", "Add", "NE", "LE"}}}

Muxes ==
    LET zero == Lit(0, 1, FALSE)
        ones == Lit(3, 2, TRUE)
    IN  {One(<<U(1), x, y>>, "Mux", <<Var(1), Var(2), Var(3)>>) : x \in Small, y \in Small}
        \cup {One(<<U(1), x>>, "Mux", args) : x \in {U(2), S(2)},
               args \in {<<Var(1), Var(2), Var(2)>>, <<Var(1), Var(2), ones>>,
                         <<Var(1), zero, Lit(1, 1, FALSE)>>, <<Var(1), Lit(1, 1, FALSE), zero>>,
                         <<Var(1), ones, ones>>, <<Lit(1, 1, FALSE), zero, Var(2)>>}}
        \cup {One(<<U(2), x, S(2)>>, "Mux", <<Var(1), Var(2), Var(3), Var(2), c>>) :
               x \in Small, c \in {Var(1), zero, ones}}
        \cup {Two(<<U(1), x>>, Node(op, <<Var(1), o>>), Node("Mux", <<Var(1), Var(3), Var(2)>>),
                  out) :
               x \in {U(2), S(2)}, op \in {"Add", "Sub", "Xor"},
               o \in {Lit(1, 1, FALSE), Var(2)}, out \in {{2}, {1, 2}}}
        \cup {Two(<<U(1), x>>, Node("Mux", <<Var(1), Var(1), Var(2)>>),
                  Node("Mux", <<Var(1), Var(2), Var(3)>>), {2}) : x \in {U(1), U(2), S(2)}}
        \cup {Two(<<U(1), x>>, Node(op, <<Var(1), l>>),
                  Node("Mux", <<Var(3), Var(1), Var(2), zero, Var(2)>>), {2}) :
               x \in {U(2), S(2)},
               <<op, l>> \in {<<"Shl", Lit(1, 1, FALSE)>>, <<"Or", Lit(2, 2, FALSE)>>}}

(* Concatenations of registers and literals, read as they are or changed. *)
Concats ==
    LET elements == {<<Var(1)>>, <<Var(1), Var(2)>>, <<Var(2), Var(1), Var(1)>>,
                     <<Var(2), Lit(2, 2, TRUE)>>, <<Lit(1, 1, FALSE), Var(1), Lit(0, 2, FALSE)>>}
    IN  {One(<<x, y>>, "Concat", args) : x \in Small, y \in {U(2), S(2)}, args \in elements}
        \cup {Two(<<U(2), S(2)>>, Node("Concat", args), Node(op, <<Var(3), o>>), {2}) :
                 args \in elements, op \in {"And", "Add", "EQ", "LT"}, o \in {Var(1), Var(2)}}
        \cup {Two(<<U(2), S(2)>>, Node("Concat", args), Node("Shr", <<Var(3), Lit(2, 2, FALSE)>>),
                  {2}) : args \in elements}

(* Casts that widen, narrow or change the sign, and nodes that are known   *)
(* because their operands are.                                             *)
Cast(o, to) == [op |-> "Cast", args |-> <<o>>, to |-> to]

Casts ==
    LET types == {U(1), U(2), U(4), S(2), S(4)}
        known == {Cast(Lit(6, 3, s), to) : s \in BOOLEAN, to \in {U(2), S(4)}}
                    \cup {Node(op, <<Lit(2, 2, s)>>) : op \in {"Invert", "Negate"}, s \in BOOLEAN}
                    \cup {Node("Mux", <<Lit(1, 1, FALSE), Var(1), Lit(2, 2, TRUE)>>)}
    IN  {[in |-> <<x>>, body |-> <<Cast(Var(1), to)>>, out |-> {1}] : x \in Small, to \in types}
        \cup {Two(<<U(2), S(2)>>, Cast(Var(k), to), Node(op, <<Var(3), Var(o)>>), {2}) :
                 k \in {1, 2}, o \in {1, 2}, to \in types, op \in {"And", "Sub", "NE", "GE"}}
        \cup {Two(<<U(2), S(2)>>, Node(op, <<Var(1), Var(2)>>), Cast(Var(3), to), {2}) :
                 to \in types, op \in {"Or", "Add", "Sub"}}
        \cup {Two(<<U(2), S(2)>>, n, Node(op, <<Var(2), Var(3)>>), {1, 2}) :
                 n \in known, op \in {"And", "Add", "Mul", "LT", "EQ"}}

(* ~(x & y) and ~x | ~y, which are found to be the same only as LUTs. *)
DeMorgan ==
    LET body(op) ==
            <<Node("And", <<Var(1), Var(2)>>), Node("Invert", <<Var(3)>>),
              Node("Invert", <<Var(1)>>), Node("Invert", <<Var(2)>>),
              Node("Or", <<Var(5), Var(6)>>), Node(op, <<Var(4), Var(7)>>),
              Node("Xor", <<Var(8), Var(1)>>),
              Node("And", <<Var(4), Var(7)>>)>>
    IN  {[in |-> <<U(2), U(2)>>, body |-> body(op), out |-> out] :
            op \in {"Xor", "Or", "Add"}, out \in {{7, 8}, {2, 5, 7}}}

(* Sums and comparisons that are split into words, and wide equalities. *)
Wide ==
    {One(<<x, y>>, op, <<Var(1), Var(2)>>) :
        x \in {U(4), S(5), U(6)}, y \in {U(2), S(4), U(6)},
        op \in {"Add", "Sub", "GT", "GE", "LT", "LE", "EQ", "NE"}}
    \cup {One(<<x, y>>, op, <<Var(1), Var(2)>>) :
        x \in {U(8)}, y \in {U(8), S(7)}, op \in {"Add", "Sub", "LT"}}

(* x | literal where the literal is taken for all ones and is not. *)
OrIsFolded(s) ==
    \E i \in DOMAIN s.body : \E k \in {1, 2} :
        LET l == s.body[i].args[k]
            o == s.body[i].args[3 - k]
        IN  /\ s.body[i].op = "Or" /\ l.lit /\ ~o.lit
            /\ IsPow2(l.v + 1) /\ l.v # 0
            /\ l.v # 2^l.w - 1 \/ o.v > Len(s.in) \/ l.s # s.in[o.v].s

(* x ^ literal with a result wider than x. *)
XorIsInverted(s) ==
    \E i \in DOMAIN s.body : \E k \in {1, 2} :
        LET l == s.body[i].args[k]
            o == s.body[i].args[3 - k]
        IN  /\ s.body[i].op = "Xor" /\ l.lit /\ ~o.lit /\ o.v <= Len(s.in)
            /\ infer("Xor", <<l, s.in[o.v]>>).w > s.in[o.v].w

AllSources == RegReg \cup RegLit \cup Unary \cup Chains \cup Twice \cup DeMorgan \cup Muxes
                \cup Concats \cup Casts \cup Wide

(* The two cases left out here are what the runs known_or and xor_all_ones are about. *)
MCSources == {s \in AllSources : ~OrIsFolded(s) /\ ~XorIsInverted(s)}

KnownOrSources == {s \in RegLit : OrIsFolded(s)}

XorAllOnesSources == {s \in RegLit : XorIsInverted(s)}
=============================================================================
