--------------------------- MODULE RuntimeLemmas ---------------------------
(***************************************************************************)
(* Lemmas the proofs about the runtime library share: what a clock edge    *)
(* does to the pulses under way in a flip-flop chain, remainders of        *)
(* counters that wrap, powers of two, which the widths of counters rest    *)
(* on, and what puts and takes do to rows of sequences.                    *)
(***************************************************************************)
EXTENDS FlipFlopChain, Sequences, FiniteSetTheorems, FunctionTheorems,
        SequenceTheorems, WellFoundedInduction, TLAPS

(* A shifted chain is a chain. *)
LEMMA ChainShiftType ==
    ASSUME NEW S, NEW depth \in Nat, NEW chain \in Chains(depth, S), NEW in \in S
    PROVE  /\ ChainShift(chain, depth, in) \in Chains(depth, S)
           /\ ChainOut(chain, depth, in) \in S
  BY DEF Chains, ChainShift, ChainOut

(* The number of pulses in a part of a chain is a natural number. *)
LEMMA PulsesType ==
    ASSUME NEW depth \in Nat, NEW chain, NEW k \in Nat
    PROVE  /\ IsFiniteSet(PulseStages(chain, depth, k))
           /\ Pulses(chain, depth, k) \in Nat
           /\ Pulses(chain, depth, k) <= depth
  <1>1. /\ IsFiniteSet(1..depth)
        /\ Cardinality(1..depth) = depth
    BY FS_Interval
  <1>2. PulseStages(chain, depth, k) \subseteq 1..depth
    BY DEF PulseStages
  <1> QED
    BY <1>1, <1>2, FS_Subset, FS_CardinalityType DEF Pulses

(* Beyond the last stage there is no pulse. *)
LEMMA PulsesNone ==
    ASSUME NEW depth \in Nat, NEW chain
    PROVE  Pulses(chain, depth, depth) = 0
  <1>1. PulseStages(chain, depth, depth) = {}
    BY DEF PulseStages
  <1> QED
    BY <1>1, FS_EmptySet DEF Pulses

(* An empty chain holds no pulse. *)
LEMMA PulsesInit ==
    ASSUME NEW depth \in Nat, NEW k \in Nat
    PROVE  Pulses([i \in 1..depth |-> FALSE], depth, k) = 0
  <1>1. PulseStages([i \in 1..depth |-> FALSE], depth, k) = {}
    BY DEF PulseStages
  <1> QED
    BY <1>1, FS_EmptySet DEF Pulses

(* The pulses beyond stage k are those beyond stage k+1 and stage k+1. *)
LEMMA PulsesSplit ==
    ASSUME NEW depth \in Nat, NEW chain \in Chains(depth, BOOLEAN),
           NEW k \in 0..(depth - 1)
    PROVE  Pulses(chain, depth, k)
             = Pulses(chain, depth, k + 1) + Bit(chain[k + 1])
  <1> DEFINE T == PulseStages(chain, depth, k + 1)
  <1>1. IsFiniteSet(T) /\ Cardinality(T) \in Nat
    BY PulsesType, FS_CardinalityType
  <1>2. k + 1 \notin T
    BY DEF PulseStages
  <1>3. PulseStages(chain, depth, k)
          = IF chain[k + 1] THEN T \cup {k + 1} ELSE T
    BY DEF PulseStages
  <1>4. Cardinality(T \cup {k + 1}) = Cardinality(T) + 1
    BY <1>1, <1>2, FS_AddElement
  <1> QED
    BY <1>1, <1>3, <1>4 DEF Pulses, Bit

(* At a clock edge the pulses beyond stage k move beyond stage k+1, except *)
(* the one that leaves the chain.                                          *)
LEMMA PulsesShift ==
    ASSUME NEW depth \in Nat, NEW chain \in Chains(depth, BOOLEAN),
           NEW in \in BOOLEAN, NEW k \in 0..(depth - 1)
    PROVE  Pulses(ChainShift(chain, depth, in), depth, k + 1)
             = Pulses(chain, depth, k) - Bit(chain[depth])
  <1> DEFINE S == PulseStages(chain, depth, k)
             T == PulseStages(ChainShift(chain, depth, in), depth, k + 1)
             R == S \ {depth}
             f == [i \in R |-> i + 1]
  <1>1. IsFiniteSet(S) /\ IsFiniteSet(T) /\ Cardinality(S) \in Nat
    BY PulsesType, FS_CardinalityType
  <1>2. IsFiniteSet(R) /\ Cardinality(R) = Cardinality(S) - Bit(chain[depth])
    <2>1. depth \in S <=> chain[depth]
      BY DEF PulseStages
    <2>2. CASE chain[depth]
      BY <1>1, <2>1, <2>2, FS_RemoveElement DEF Bit
    <2>3. CASE ~chain[depth]
      BY <1>1, <2>1, <2>3, FS_RemoveElement DEF Bit
    <2> QED BY <2>2, <2>3
  <1>3. f \in Bijection(R, T)
    <2>1. \A i \in R : i \in Nat /\ i \in (k + 1)..(depth - 1) /\ chain[i]
      BY DEF PulseStages
    <2>2. \A i \in R : i + 1 \in T
      BY <2>1 DEF PulseStages, ChainShift
    <2>3. \A j \in T : j - 1 \in R /\ j = (j - 1) + 1
      BY DEF PulseStages, ChainShift
    <2>4. f \in [R -> T]
      BY <2>2
    <2>5. \A i, j \in R : f[i] = f[j] => i = j
      BY <2>1
    <2>6. \A j \in T : \E i \in R : f[i] = j
      BY <2>3
    <2> QED BY <2>4, <2>5, <2>6, Fun_IsBij
  <1>4. Cardinality(R) = Cardinality(T)
    BY <1>2, <1>3, FS_Bijection DEF ExistsBijection
  <1> QED
    BY <1>2, <1>4 DEF Pulses

(* A clock edge adds the pulse that enters and drops the one that leaves;  *)
(* this also holds of a chain of depth 0, which is a wire.                 *)
LEMMA PulsesEdge ==
    ASSUME NEW depth \in Nat, NEW chain \in Chains(depth, BOOLEAN), NEW in \in BOOLEAN
    PROVE  Pulses(ChainShift(chain, depth, in), depth, 0)
             = Pulses(chain, depth, 0) + Bit(in) - Bit(ChainOut(chain, depth, in))
  <1> DEFINE c == ChainShift(chain, depth, in)
  <1>1. CASE depth = 0
    <2>1. Pulses(c, depth, 0) = 0 /\ Pulses(chain, depth, 0) = 0
      BY <1>1, PulsesNone
    <2> QED BY <1>1, <2>1 DEF ChainOut, Bit
  <1>2. CASE depth # 0
    <2>1. c \in Chains(depth, BOOLEAN)
      BY ChainShiftType
    <2>2. Pulses(c, depth, 0) = Pulses(c, depth, 0 + 1) + Bit(c[0 + 1])
      BY <1>2, <2>1, PulsesSplit
    <2>3. Pulses(c, depth, 0 + 1) = Pulses(chain, depth, 0) - Bit(chain[depth])
      BY <1>2, PulsesShift
    <2>4. c[0 + 1] = in
      BY <1>2 DEF ChainShift
    <2>5. Pulses(chain, depth, 0) \in Nat
      BY PulsesType
    <2> QED BY <1>2, <2>2, <2>3, <2>4, <2>5 DEF ChainOut, Bit
  <1> QED BY <1>1, <1>2
-----------------------------------------------------------------------------
(* A remainder within two periods, and the quotient that goes with it. *)
LEMMA Remainder ==
    ASSUME NEW d \in Nat, d > 0, NEW n \in 0..(2 * d - 1)
    PROVE  /\ n % d = IF n < d THEN n ELSE n - d
           /\ n \div d = IF n < d THEN 0 ELSE 1
  <1>1. CASE n < d
    BY <1>1
  <1>2. CASE n >= d
    <2> DEFINE c == n \div d
               r == n % d
    <2>1. c \in Int /\ r \in 0..(d - 1) /\ n = d * c + r
      OBVIOUS
    <2> HIDE DEF c, r
    <2>2. c >= 1
      <3> SUFFICES ASSUME c <= 0 PROVE FALSE
        BY <2>1
      <3>1. d * c <= 0
        BY <2>1
      <3> QED BY <1>2, <2>1, <3>1
    <2>3. c <= 1
      <3> SUFFICES ASSUME c >= 2 PROVE FALSE
        BY <2>1
      <3>1. d * c >= 2 * d
        BY <2>1
      <3> QED BY <2>1, <3>1
    <2>4. c = 1
      BY <2>1, <2>2, <2>3
    <2>5. r = n - d
      BY <2>1, <2>4
    <2> QED BY <1>2, <2>4, <2>5 DEF c, r
  <1> QED BY <1>1, <1>2

(* The remainder of a negative number within one period. *)
LEMMA NegRemainder ==
    ASSUME NEW d \in Nat, d > 0, NEW n \in (-d)..(-1)
    PROVE  n % d = n + d
  <1> DEFINE c == n \div d
             r == n % d
  <1>1. c \in Int /\ r \in 0..(d - 1) /\ n = d * c + r
    OBVIOUS
  <1> HIDE DEF c, r
  <1>2. c >= -1
    <2> SUFFICES ASSUME c <= -2 PROVE FALSE
      BY <1>1
    <2>1. d * c <= -2 * d
      BY <1>1
    <2> QED BY <1>1, <2>1
  <1>3. c <= -1
    <2> SUFFICES ASSUME c >= 0 PROVE FALSE
      BY <1>1
    <2>1. d * c >= 0
      BY <1>1
    <2> QED BY <1>1, <2>1
  <1>4. r = n + d
    BY <1>1, <1>2, <1>3
  <1> QED BY <1>4 DEF r
-----------------------------------------------------------------------------

(* A set of naturals has a least element.  Arguments by induction go       *)
(* through this lemma: the least counterexample has a predecessor.         *)
LEMMA Least ==
    ASSUME NEW T \in SUBSET Nat, T # {}
    PROVE  \E x \in T : \A y \in T : x <= y
  <1> DEFINE less == {pair \in Nat \X Nat : pair[1] < pair[2]}
  <1>1. IsWellFoundedOn(less, Nat)
    BY NatLessThanWellFounded DEF OpToRel
  <1> HIDE DEF less
  <1>2. PICK x \in T : \A y \in T : <<y, x>> \notin less
    BY <1>1, WFMin
  <1>3. \A y \in T : ~(y < x)
    BY <1>2 DEF less
  <1> QED BY <1>3

(* The definition of 2^k, which the provers do not have. *)
PowersOfTwo == 2^0 = 1 /\ \A k \in Nat : 2^(k + 1) = 2 * 2^k

LEMMA PowerExceeds ==
    ASSUME PowersOfTwo, NEW n \in Nat
    PROVE  2^n \in Nat /\ 2^n > n
  <1> DEFINE f == [k \in Nat |-> 2^k]
             T == {k \in Nat : ~(f[k] \in Nat /\ f[k] > k)}
  <1>1. f[0] = 1 /\ \A k \in Nat : f[k + 1] = 2 * f[k]
    BY DEF PowersOfTwo
  <1> HIDE DEF f
  <1>2. SUFFICES ASSUME T # {} PROVE FALSE
    <2>1. f[n] \in Nat /\ f[n] > n
      BY <1>2
    <2> QED BY <2>1 DEF f
  <1>3. PICK x \in T : \A y \in T : x <= y
    BY <1>2, Least
  <1>4. x # 0
    BY <1>1, <1>3
  <1>5. x - 1 \in Nat /\ x - 1 \notin T
    BY <1>3, <1>4
  <1>6. f[x - 1] \in Nat /\ f[x - 1] > x - 1 /\ f[(x - 1) + 1] = 2 * f[x - 1]
    BY <1>1, <1>5
  <1> QED BY <1>4, <1>6

(* Every number is below a power of two, and there is a least exponent. *)
LEMMA LeastPower ==
    ASSUME PowersOfTwo, NEW n \in Nat
    PROVE  \E b \in 0..n : 2^b >= n /\ \A c \in 0..(b - 1) : 2^c < n
  <1> DEFINE f == [k \in Nat |-> 2^k]
             T == {k \in Nat : f[k] >= n}
  <1>1. \A k \in Nat : f[k] \in Nat /\ f[k] > k
    BY PowerExceeds
  <1>2. \A k \in Nat : f[k] = 2^k
    OBVIOUS
  <1> HIDE DEF f
  <1>3. n \in T
    BY <1>1
  <1>4. PICK b \in T : \A c \in T : b <= c
    BY <1>3, Least
  <1>5. b \in 0..n /\ \A c \in 0..(b - 1) : f[c] < n
    BY <1>1, <1>3, <1>4
  <1> QED BY <1>2, <1>4, <1>5

(* The power of a sum. *)
LEMMA PowerSum ==
    ASSUME PowersOfTwo, NEW a \in Nat, NEW b \in Nat
    PROVE  2^(a + b) = 2^a * 2^b
  <1> DEFINE f == [k \in Nat |-> 2^k]
             T == {k \in Nat : f[a + k] # f[a] * f[k]}
  <1>1. f[0] = 1 /\ \A k \in Nat : f[k + 1] = 2 * f[k]
    BY DEF PowersOfTwo
  <1>2. \A k \in Nat : f[k] \in Nat
    BY PowerExceeds
  <1>3. f[a + b] = 2^(a + b) /\ f[a] = 2^a /\ f[b] = 2^b
    OBVIOUS
  <1> HIDE DEF f
  <1>4. T = {}
    <2> SUFFICES ASSUME T # {} PROVE FALSE
      OBVIOUS
    <2>1. PICK x \in T : \A y \in T : x <= y
      <3>1. T \in SUBSET Nat
        OBVIOUS
      <3> HIDE DEF T
      <3> QED BY <3>1, Least
    <2>2. x \in Nat /\ f[a + x] # f[a] * f[x]
      BY <2>1
    <2>3. x # 0
      <3> SUFFICES ASSUME x = 0 PROVE FALSE
        OBVIOUS
      <3>1. a + 0 = a /\ f[a] * 1 = f[a]
        BY <1>2
      <3> QED BY <1>1, <2>2, <3>1
    <2> DEFINE y == x - 1
    <2>4. y \in Nat /\ y \notin T /\ x = y + 1 /\ a + y \in Nat /\ a + x = (a + y) + 1
      <3>1. y \in Nat /\ ~(x <= y)
        BY <2>2, <2>3
      <3>2. y \notin T
        <4> HIDE DEF T, y
        <4> QED BY <2>1, <3>1
      <3> QED BY <2>2, <3>1, <3>2
    <2>5. f[a + y] = f[a] * f[y]
      BY <2>4
    <2> HIDE DEF y, T
    <2>6. f[a + x] = 2 * f[a + y] /\ f[x] = 2 * f[y]
      BY <1>1, <2>4
    <2> DEFINE p == f[a]
               q == f[y]
    <2>7. p \in Nat /\ q \in Nat
      BY <1>2, <2>4
    <2>8. 2 * (p * q) = p * (2 * q)
      <3> HIDE DEF p, q
      <3> QED BY <2>7
    <2> QED BY <2>2, <2>5, <2>6, <2>8
  <1>5. f[a + b] = f[a] * f[b]
    BY <1>4
  <1> QED BY <1>3, <1>5
-----------------------------------------------------------------------------
(* What an item that is put in and one that is taken out do to a sequence. *)
After(items, take, put, item) ==
    (IF take THEN Tail(items) ELSE items) \o (IF put THEN <<item>> ELSE <<>>)

(* Sequences of at most two items. *)
LEMMA Short ==
    ASSUME NEW x, NEW y
    PROVE  /\ Tail(<<x>>) = <<>> /\ Tail(<<x, y>>) = <<y>>
           /\ <<>> \o <<x>> = <<x>> /\ <<x>> \o <<y>> = <<x, y>>
           /\ <<>> \o <<>> = <<>> /\ <<x>> \o <<>> = <<x>> /\ <<x, y>> \o <<>> = <<x, y>>
  <1>1. Tail(<<x>>) = <<>>
    OBVIOUS
  <1>2. Tail(<<x, y>>) = <<y>>
    OBVIOUS
  <1>3. <<>> \o <<x>> = <<x>>
    OBVIOUS
  <1>4. <<x>> \o <<y>> = <<x, y>>
    <2> DEFINE s == <<x>> \o <<y>>
               t == <<x, y>>
    <2>1. s \in Seq({x, y}) /\ Len(s) = 2 /\ s[1] = x /\ s[2] = y
      OBVIOUS
    <2>2. t \in Seq({x, y}) /\ Len(t) = 2 /\ t[1] = x /\ t[2] = y
      OBVIOUS
    <2> HIDE DEF s, t
    <2>3. \A i \in 1..Len(s) : s[i] = t[i]
      BY <2>1, <2>2
    <2>4. s = t
      BY <2>1, <2>2, <2>3, SeqEqual
    <2> QED BY <2>4 DEF s, t
  <1>5. <<>> \o <<>> = <<>>
    OBVIOUS
  <1>6. <<x>> \o <<>> = <<x>>
    OBVIOUS
  <1>7. <<x, y>> \o <<>> = <<x, y>>
    OBVIOUS
  <1> QED BY <1>1, <1>2, <1>3, <1>4, <1>5, <1>6, <1>7

(* n sequences joined, as FlattenSeq does it; f[i] are the first i of them. *)
Joint(items, n) ==
    LET f[i \in 1..n] == IF i = 1 THEN items[i] ELSE f[i - 1] \o items[i]
    IN  f[n]

Joined(f, items, n, S) ==
    /\ f \in [1..n -> Seq(S)]
    /\ f[1] = items[1]
    /\ \A i \in 2..n : f[i] = f[i - 1] \o items[i]
    /\ Joint(items, n) = f[n]

LEMMA Joins ==
    ASSUME NEW S, NEW n \in Nat, n > 0, NEW items \in [1..n -> Seq(S)]
    PROVE  \E f : Joined(f, items, n, S)
  <1> DEFINE Upto(g, m) == /\ g \in [1..m -> Seq(S)]
                            /\ g[1] = items[1]
                            /\ \A i \in 2..m : g[i] = g[i - 1] \o items[i]
             T == {m \in 1..n : ~\E g : Upto(g, m)}
  <1> HIDE DEF Upto
  <1>1. T = {}
    <2> SUFFICES ASSUME T # {} PROVE FALSE
      OBVIOUS
    <2>1. PICK m \in T : \A k \in T : m <= k
      <3>1. T \in SUBSET Nat
        OBVIOUS
      <3> HIDE DEF T
      <3> QED BY <3>1, Least
    <2>2. m # 1
      <3> DEFINE g == [i \in 1..1 |-> items[1]]
      <3>1. Upto(g, 1)
        BY DEF Upto
      <3> QED BY <2>1, <3>1
    <2>3. m - 1 \in 1..n /\ m - 1 \notin T /\ m \in 2..n
      <3>1. m \in 1..n
        BY <2>1
      <3> HIDE DEF T
      <3> QED BY <2>1, <2>2, <3>1
    <2>4. PICK g : Upto(g, m - 1)
      BY <2>3
    <2>5. m - 1 \in 1..(m - 1) /\ g[m - 1] \in Seq(S) /\ items[m] \in Seq(S)
      BY <2>3, <2>4 DEF Upto
    <2>6. g[m - 1] \o items[m] \in Seq(S)
      BY <2>5
    <2> DEFINE last == g[m - 1] \o items[m]
               h == [i \in 1..m |-> IF i = m THEN last ELSE g[i]]
    <2>7. last \in Seq(S)
      BY <2>6
    <2> HIDE DEF last
    <2>8. h \in [1..m -> Seq(S)]
      <3>1. \A i \in 1..m : i # m => i \in 1..(m - 1)
        BY <2>3
      <3> QED BY <2>4, <2>7, <3>1 DEF Upto
    <2>9. h[1] = items[1]
      BY <2>3, <2>4 DEF Upto
    <2>10. \A i \in 2..m : h[i] = h[i - 1] \o items[i]
      <3> SUFFICES ASSUME NEW i \in 2..m PROVE h[i] = h[i - 1] \o items[i]
        OBVIOUS
      <3>1. i - 1 \in 1..m /\ i - 1 # m /\ h[i - 1] = g[i - 1]
        BY <2>3
      <3>2. CASE i = m
        BY <3>1, <3>2, SMTT(30) DEF last
      <3>3. CASE i # m
        <4>1. i \in 2..(m - 1) /\ h[i] = g[i]
          BY <2>3, <3>3
        <4> QED BY <2>4, <3>1, <4>1 DEF Upto
      <3> QED BY <3>2, <3>3
    <2>11. Upto(h, m)
      BY <2>8, <2>9, <2>10 DEF Upto
    <2> QED BY <2>1, <2>11
  <1>2. PICK g : Upto(g, n)
    <2>1. n \in 1..n
      OBVIOUS
    <2> QED BY <1>1, <2>1
  <1>3. g = [i \in 1..n |-> IF i = 1 THEN items[i] ELSE g[i - 1] \o items[i]]
    <2>1. \A i \in 1..n : i # 1 => i \in 2..n
      OBVIOUS
    <2> QED BY <1>2, <2>1 DEF Upto
  <1> DEFINE f == CHOOSE h : h = [i \in 1..n |-> IF i = 1 THEN items[i]
                                                 ELSE h[i - 1] \o items[i]]
  <1>4. f = [i \in 1..n |-> IF i = 1 THEN items[i] ELSE f[i - 1] \o items[i]]
    BY <1>3
  <1>6. Joint(items, n) = f[n]
    BY DEF Joint
  <1> HIDE DEF f
  <1>7. f[1] = items[1] /\ \A i \in 2..n : f[i] = f[i - 1] \o items[i]
    <2>1. \A i \in 1..n : f[i] = IF i = 1 THEN items[i] ELSE f[i - 1] \o items[i]
      BY <1>4
    <2>2. 1 \in 1..n /\ \A i \in 2..n : i \in 1..n /\ i # 1
      OBVIOUS
    <2> QED BY <2>1, <2>2
  <1> DEFINE U == {i \in 1..n : f[i] \notin Seq(S)}
  <1>8. U = {}
    <2> SUFFICES ASSUME U # {} PROVE FALSE
      OBVIOUS
    <2>1. PICK m \in U : \A k \in U : m <= k
      <3>1. U \in SUBSET Nat
        OBVIOUS
      <3> HIDE DEF U
      <3> QED BY <3>1, Least
    <2>2. m \in 2..n /\ m - 1 \in 1..n /\ m - 1 \notin U
      BY <1>7, <2>1
    <2>3. f[m - 1] \in Seq(S) /\ items[m] \in Seq(S)
      BY <2>2
    <2>4. f[m] = f[m - 1] \o items[m]
      BY <1>7, <2>2
    <2>5. f[m] \in Seq(S)
      BY <2>3, <2>4
    <2> QED BY <2>1, <2>5
  <1>9. f \in [1..n -> Seq(S)]
    BY <1>4, <1>8
  <1> QED BY <1>6, <1>7, <1>9 DEF Joined

(* Taking the head off, and putting it back. *)
LEMMA HeadTail ==
    ASSUME NEW S, NEW s \in Seq(S), s # <<>>, NEW t \in Seq(S)
    PROVE  /\ s \o t # <<>> /\ Head(s \o t) = Head(s)
           /\ Tail(s \o t) = Tail(s) \o t
           /\ <<Head(s)>> \o Tail(s) = s
  <1>1. Len(s) \in Nat /\ Len(s) > 0 /\ Len(t) \in Nat /\ Head(s) = s[1] /\ Head(s) \in S
    OBVIOUS
  <1>2. /\ s \o t \in Seq(S) /\ Len(s \o t) = Len(s) + Len(t)
        /\ (s \o t)[1] = s[1]
    BY <1>1
  <1>3. s \o t # <<>> /\ Head(s \o t) = Head(s)
    BY <1>1, <1>2
  <1>4. Tail(s \o t) = Tail(s) \o t
    <2> DEFINE a == Tail(s \o t)
               b == Tail(s) \o t
    <2>1. /\ a \in Seq(S) /\ Len(a) = Len(s) + Len(t) - 1
          /\ \A i \in 1..(Len(s) + Len(t) - 1) : a[i] = (s \o t)[i + 1]
      BY <1>1, <1>2
    <2>2. /\ b \in Seq(S) /\ Len(b) = Len(s) - 1 + Len(t)
          /\ \A i \in 1..(Len(s) - 1 + Len(t)) :
                b[i] = IF i <= Len(s) - 1 THEN s[i + 1] ELSE t[i - (Len(s) - 1)]
      <3>1. /\ Tail(s) \in Seq(S) /\ Len(Tail(s)) = Len(s) - 1
            /\ \A i \in 1..(Len(s) - 1) : Tail(s)[i] = s[i + 1]
        BY <1>1
      <3>2. \A i \in 1..(Len(Tail(s)) + Len(t)) :
               b[i] = IF i <= Len(Tail(s)) THEN Tail(s)[i] ELSE t[i - Len(Tail(s))]
        BY <3>1, ConcatProperties
      <3>3. b \in Seq(S) /\ Len(b) = Len(Tail(s)) + Len(t)
        BY <3>1, ConcatProperties
      <3> QED BY <1>1, <3>1, <3>2, <3>3
    <2>3. \A i \in 1..(Len(s) + Len(t)) :
             (s \o t)[i] = IF i <= Len(s) THEN s[i] ELSE t[i - Len(s)]
      BY ConcatProperties
    <2> HIDE DEF a, b
    <2>4. \A i \in 1..Len(a) : a[i] = b[i]
      <3> SUFFICES ASSUME NEW i \in 1..(Len(s) + Len(t) - 1) PROVE a[i] = b[i]
        BY <2>1
      <3>1. a[i] = IF i + 1 <= Len(s) THEN s[i + 1] ELSE t[(i + 1) - Len(s)]
        BY <1>1, <2>1, <2>3
      <3>2. b[i] = IF i <= Len(s) - 1 THEN s[i + 1] ELSE t[i - (Len(s) - 1)]
        BY <1>1, <2>2
      <3>3. i - (Len(s) - 1) = (i + 1) - Len(s) /\ (i <= Len(s) - 1 <=> i + 1 <= Len(s))
        BY <1>1
      <3> QED BY <3>1, <3>2, <3>3
    <2>5. a = b
      BY <1>1, <2>1, <2>2, <2>4, SeqEqual
    <2> QED BY <2>5 DEF a, b
  <1>5. <<Head(s)>> \o Tail(s) = s
    <2> DEFINE a == <<Head(s)>> \o Tail(s)
    <2>1. /\ <<Head(s)>> \in Seq(S) /\ Len(<<Head(s)>>) = 1 /\ <<Head(s)>>[1] = s[1]
          /\ Tail(s) \in Seq(S) /\ Len(Tail(s)) = Len(s) - 1
          /\ \A i \in 1..(Len(s) - 1) : Tail(s)[i] = s[i + 1]
      BY <1>1
    <2>2. a \in Seq(S) /\ Len(a) = 1 + (Len(s) - 1)
      BY <2>1, ConcatProperties
    <2>3. \A i \in 1..(1 + (Len(s) - 1)) :
             a[i] = IF i <= 1 THEN <<Head(s)>>[i] ELSE Tail(s)[i - 1]
      BY <2>1, ConcatProperties
    <2> HIDE DEF a
    <2>4. \A i \in 1..Len(a) : a[i] = s[i]
      <3> SUFFICES ASSUME NEW i \in 1..Len(s) PROVE a[i] = s[i]
        BY <1>1, <2>2
      <3>1. CASE i = 1
        BY <1>1, <2>1, <2>3, <3>1
      <3>2. CASE i # 1
        <4>1. /\ i - 1 \in 1..(Len(s) - 1) /\ (i - 1) + 1 = i /\ ~(i <= 1)
              /\ i \in 1..(1 + (Len(s) - 1))
          BY <1>1, <3>2
        <4>2. a[i] = Tail(s)[i - 1]
          BY <2>3, <4>1
        <4>3. Tail(s)[i - 1] = s[(i - 1) + 1]
          BY <2>1, <4>1
        <4> QED BY <4>1, <4>2, <4>3
      <3> QED BY <3>1, <3>2
    <2>5. Len(a) = Len(s)
      BY <1>1, <2>2
    <2>6. a = s
      BY <2>2, <2>4, <2>5, SeqEqual
    <2> QED BY <2>6 DEF a
  <1> QED BY <1>3, <1>4, <1>5

(* Brackets do not matter. *)
Regroups(a, h, b, e) == (a \o h) \o (b \o e) = (a \o (h \o b)) \o e

LEMMA Regroup ==
    ASSUME NEW S, NEW a \in Seq(S), NEW h \in Seq(S), NEW b \in Seq(S), NEW e \in Seq(S)
    PROVE  Regroups(a, h, b, e)
  <1> DEFINE ah == a \o h
  <1>1. ah \in Seq(S)
    OBVIOUS
  <1>2. ah \o b = a \o (h \o b)
    BY ConcatAssociative, SMTT(30)
  <1> HIDE DEF ah
  <1>3. (ah \o b) \o e = ah \o (b \o e)
    BY <1>1, ConcatAssociative, SMTT(30)
  <1> QED BY <1>2, <1>3 DEF ah, Regroups

(* Of two sequences in a row the back one hands its head over to the front *)
(* one: together they change as one sequence.                              *)
HandedOver(front, back, take, mid, put, x) ==
    After(front, take, mid, Head(back)) \o After(back, mid, put, x)
      = After(front \o back, take, put, x)

LEMMA HandOver ==
    ASSUME NEW S, NEW front \in Seq(S), NEW back \in Seq(S),
           NEW take \in BOOLEAN, NEW mid \in BOOLEAN, NEW put \in BOOLEAN, NEW x,
           take => front # <<>>, mid => back # <<>>, put => x \in S
    PROVE  HandedOver(front, back, take, mid, put, x)
  <1> DEFINE A == IF take THEN Tail(front) ELSE front
             H == IF mid THEN <<Head(back)>> ELSE <<>>
             B == IF mid THEN Tail(back) ELSE back
             E == IF put THEN <<x>> ELSE <<>>
  <1>1. A \in Seq(S) /\ B \in Seq(S) /\ E \in Seq(S) /\ H \in Seq(S)
    OBVIOUS
  <1>2. H \o B = back
    <2>1. CASE mid
      BY <2>1, HeadTail
    <2>2. CASE ~mid
      BY <2>2, ConcatEmptySeq
    <2> QED BY <2>1, <2>2
  <1>3. A \o back = IF take THEN Tail(front \o back) ELSE front \o back
    <2>1. CASE take
      BY <2>1, HeadTail, SMTT(30)
    <2>2. CASE ~take
      BY <2>2
    <2> QED BY <2>1, <2>2
  <1>4. /\ After(front, take, mid, Head(back)) = A \o H
        /\ After(back, mid, put, x) = B \o E
        /\ After(front \o back, take, put, x)
             = (IF take THEN Tail(front \o back) ELSE front \o back) \o E
    BY DEF After
  <1> HIDE DEF A, B, E, H
  <1>5. Regroups(A, H, B, E)
    BY <1>1, Regroup
  <1>6. (A \o H) \o (B \o E) = (A \o back) \o E
    BY <1>2, <1>5 DEF Regroups
  <1> QED BY <1>3, <1>4, <1>6 DEF HandedOver

(* A row of sequences in which every one hands on to the one in front of   *)
(* it at the same time.                                                    *)
HandsOn(items, new, take, put, item, n, S) ==
    /\ items \in [1..n -> Seq(S)] /\ new \in [1..n -> Seq(S)]
    /\ take \in [1..n -> BOOLEAN] /\ put \in [1..n -> BOOLEAN]
    /\ \A k \in 1..n : /\ take[k] => items[k] # <<>>
                       /\ put[k] => item[k] \in S
                       /\ new[k] = After(items[k], take[k], put[k], item[k])
    /\ \A k \in 2..n : /\ put[k - 1] = take[k]
                       /\ put[k - 1] => item[k - 1] = Head(items[k])

(* The row as a whole loses what the first one gives away and gains what   *)
(* the last one is given.                                                  *)
RowChanges(items, new, take, put, item, n, S) ==
    /\ Joint(items, n) \in Seq(S)
    /\ Joint(new, n) = After(Joint(items, n), take[1], put[n], item[n])
    /\ take[1] => /\ Joint(items, n) # <<>>
                  /\ Head(Joint(items, n)) = Head(items[1])

LEMMA Row ==
    ASSUME NEW S, NEW n \in Nat, n > 0,
           NEW items, NEW new, NEW take, NEW put, NEW item,
           HandsOn(items, new, take, put, item, n, S)
    PROVE  RowChanges(items, new, take, put, item, n, S)
  <1> USE DEF HandsOn
  <1>0. PICK f : Joined(f, items, n, S)
    BY Joins
  <1>1. /\ f \in [1..n -> Seq(S)]
        /\ f[1] = items[1]
        /\ \A i \in 2..n : f[i] = f[i - 1] \o items[i]
        /\ Joint(items, n) = f[n]
    BY <1>0 DEF Joined
  <1> PICK g : Joined(g, new, n, S)
    BY Joins
  <1>2. /\ g \in [1..n -> Seq(S)]
        /\ g[1] = new[1]
        /\ \A i \in 2..n : g[i] = g[i - 1] \o new[i]
        /\ Joint(new, n) = g[n]
    BY DEF Joined
  <1> DEFINE Good(k) == /\ g[k] = After(f[k], take[1], put[k], item[k])
                        /\ take[1] => f[k] # <<>> /\ Head(f[k]) = Head(items[1])
             T == {k \in 1..n : ~Good(k)}
  <1> HIDE DEF Good
  <1>3. T = {}
    <2> SUFFICES ASSUME T # {} PROVE FALSE
      OBVIOUS
    <2>1. PICK m \in T : \A k \in T : m <= k
      <3>1. T \in SUBSET Nat
        OBVIOUS
      <3> HIDE DEF T
      <3> QED BY <3>1, Least
    <2>2. m \in 1..n /\ ~Good(m)
      BY <2>1
    <2>3. m # 1
      <3>1. 1 \in 1..n
        OBVIOUS
      <3>2. Good(1)
        BY <1>1, <1>2, <3>1 DEF Good
      <3> QED BY <2>2, <3>2
    <2> DEFINE l == m - 1
    <2>4. l \in 1..n /\ l \notin T /\ m \in 2..n
      <3> HIDE DEF T
      <3> QED BY <2>1, <2>2, <2>3
    <2>5. Good(l)
      BY <2>4
    <2>6. /\ f[m] = f[l] \o items[m] /\ g[m] = g[l] \o new[m]
          /\ put[l] = take[m] /\ (put[l] => item[l] = Head(items[m]))
      BY <1>1, <1>2, <2>4
    <2> HIDE DEF l
    <2>7. /\ f[l] \in Seq(S) /\ items[m] \in Seq(S)
          /\ take[1] \in BOOLEAN /\ take[m] \in BOOLEAN /\ put[m] \in BOOLEAN
          /\ (take[m] => items[m] # <<>>) /\ (put[m] => item[m] \in S)
          /\ new[m] = After(items[m], take[m], put[m], item[m])
      <3>1. f[l] \in Seq(S) /\ items[m] \in Seq(S)
        BY <1>1, <2>2, <2>4
      <3>2. take[1] \in BOOLEAN
        <4>1. 1 \in 1..n
          OBVIOUS
        <4> QED BY <4>1, Zenon
      <3>3. take[m] \in BOOLEAN /\ put[m] \in BOOLEAN
        BY <2>2, Zenon
      <3>4. /\ (take[m] => items[m] # <<>>) /\ (put[m] => item[m] \in S)
            /\ new[m] = After(items[m], take[m], put[m], item[m])
        BY <2>2, Zenon
      <3> QED BY <3>1, <3>2, <3>3, <3>4, Zenon
    <2>8. /\ g[l] = After(f[l], take[1], put[l], item[l])
          /\ take[1] => f[l] # <<>> /\ Head(f[l]) = Head(items[1])
      BY <2>5 DEF Good
    <2>9. After(f[l], take[1], put[l], item[l])
            = After(f[l], take[1], take[m], Head(items[m]))
      BY <2>6 DEF After
    <2>10. g[m] = After(f[l] \o items[m], take[1], put[m], item[m])
      <3> DEFINE front == f[l]
                 back == items[m]
                 t == take[1]
                 h == take[m]
                 p == put[m]
                 x == item[m]
      <3>1. /\ front \in Seq(S) /\ back \in Seq(S)
            /\ t \in BOOLEAN /\ h \in BOOLEAN /\ p \in BOOLEAN
            /\ t => front # <<>>
            /\ h => back # <<>>
            /\ p => x \in S
        BY <2>7, <2>8
      <3>2. g[m] = After(front, t, h, Head(back)) \o After(back, h, p, x)
        BY <2>6, <2>7, <2>8, <2>9, ZenonT(60)
      <3> HIDE DEF front, back, t, h, p, x
      <3>3. HandedOver(front, back, t, h, p, x)
        BY ONLY <3>1, HandOver
      <3>4. g[m] = After(front \o back, t, p, x)
        BY <3>2, <3>3 DEF HandedOver
      <3> QED BY <3>4 DEF front, back, t, p, x
    <2>11. take[1] => f[l] \o items[m] # <<>> /\ Head(f[l] \o items[m]) = Head(items[1])
      BY <2>7, <2>8, HeadTail
    <2>12. Good(m)
      BY <2>6, <2>10, <2>11 DEF Good
    <2> QED BY <2>2, <2>12
  <1>4. n \in 1..n
    OBVIOUS
  <1>5. Good(n)
    BY <1>3, <1>4
  <1> QED BY <1>1, <1>2, <1>4, <1>5 DEF Good, RowChanges

(* A row of n sequences of at most c items has at most c * n items. *)
LEMMA RowLength ==
    ASSUME NEW S, NEW n \in Nat, n > 0, NEW items \in [1..n -> Seq(S)],
           NEW c \in Nat, \A k \in 1..n : Len(items[k]) <= c
    PROVE  Joint(items, n) \in Seq(S) /\ Len(Joint(items, n)) <= c * n
  <1>0. PICK f : Joined(f, items, n, S)
    BY Joins
  <1>1. /\ f \in [1..n -> Seq(S)]
        /\ f[1] = items[1]
        /\ \A i \in 2..n : f[i] = f[i - 1] \o items[i]
        /\ Joint(items, n) = f[n]
    BY <1>0 DEF Joined
  <1> DEFINE T == {k \in 1..n : ~(Len(f[k]) <= c * k)}
  <1>2. T = {}
    <2> SUFFICES ASSUME T # {} PROVE FALSE
      OBVIOUS
    <2>1. PICK m \in T : \A k \in T : m <= k
      <3>1. T \in SUBSET Nat
        OBVIOUS
      <3> HIDE DEF T
      <3> QED BY <3>1, Least
    <2>2. m \in 1..n /\ ~(Len(f[m]) <= c * m)
      BY <2>1
    <2>3. m # 1
      BY <1>1, <2>2
    <2> DEFINE l == m - 1
    <2>4. l \in 1..n /\ l \notin T /\ m \in 2..n
      <3> HIDE DEF T
      <3> QED BY <2>1, <2>2, <2>3
    <2>5. Len(f[l]) <= c * l
      BY <2>4
    <2>6. f[m] = f[l] \o items[m]
      BY <1>1, <2>4
    <2>7. Len(f[m]) = Len(f[l]) + Len(items[m]) /\ Len(f[l]) \in Nat /\ Len(items[m]) \in Nat
      BY <2>2, <2>4, <2>6, ConcatProperties, LenProperties
    <2>8. Len(items[m]) <= c
      BY <2>2
    <2>9. l = m - 1 /\ m \in Nat
      BY <2>2
    <2> HIDE DEF l
    <2>10. c * m = c * l + c
      <3>1. m = l + 1 /\ l \in Nat
        BY <2>4, <2>9
      <3>2. c * (l + 1) = c * l + c
        BY <3>1
      <3> QED BY <3>1, <3>2
    <2>11. c * l \in Nat /\ c * m \in Nat
      BY <2>4, <2>9
    <2> QED BY <2>2, <2>5, <2>7, <2>8, <2>10, <2>11
  <1>3. n \in 1..n
    OBVIOUS
  <1> QED BY <1>1, <1>2, <1>3

(* Empty sequences at the end of a row add nothing to it. *)
Pads(more, m, items, n, S) ==
    /\ n \in Nat /\ m \in Nat /\ m >= n /\ m > 0
    /\ items \in [1..n -> Seq(S)] /\ more \in [1..m -> Seq(S)]
    /\ \A k \in 1..m : more[k] = IF k <= n THEN items[k] ELSE <<>>

LEMMA Padded ==
    ASSUME NEW S, NEW n, NEW m, NEW items, NEW more, Pads(more, m, items, n, S)
    PROVE  Joint(more, m) = IF n = 0 THEN <<>> ELSE Joint(items, n)
  <1> USE DEF Pads
  <1>0. PICK g : Joined(g, more, m, S)
    BY Joins
  <1>1. /\ g \in [1..m -> Seq(S)]
        /\ g[1] = more[1]
        /\ \A i \in 2..m : g[i] = g[i - 1] \o more[i]
        /\ Joint(more, m) = g[m]
    BY <1>0 DEF Joined
  <1>2. m \in 1..m /\ 1 \in 1..m
    OBVIOUS
  <1>3. CASE n = 0
    <2> DEFINE T == {k \in 1..m : g[k] # <<>>}
    <2>1. T = {}
      <3> SUFFICES ASSUME T # {} PROVE FALSE
        OBVIOUS
      <3>1. PICK x \in T : \A k \in T : x <= k
        <4>1. T \in SUBSET Nat
          OBVIOUS
        <4> HIDE DEF T
        <4> QED BY <4>1, Least
      <3>2. x \in 1..m /\ g[x] # <<>>
        OBVIOUS
      <3>3. more[x] = <<>> /\ x # 1
        BY <1>1, <1>2, <1>3, <3>2
      <3>4. x - 1 \in 1..m /\ x \in 2..m /\ x - 1 \notin T
        <4> HIDE DEF T
        <4> QED BY <3>1, <3>2, <3>3
      <3>5. g[x - 1] = <<>> /\ g[x] = g[x - 1] \o more[x]
        BY <1>1, <3>4
      <3>6. <<>> \o <<>> = <<>>
        OBVIOUS
      <3> QED BY <3>2, <3>3, <3>5, <3>6
    <2> QED BY <1>1, <1>2, <1>3, <2>1
  <1>4. CASE n # 0
    <2>0. PICK f : Joined(f, items, n, S)
      BY <1>4, Joins
    <2>1. /\ f \in [1..n -> Seq(S)]
          /\ f[1] = items[1]
          /\ \A i \in 2..n : f[i] = f[i - 1] \o items[i]
          /\ Joint(items, n) = f[n]
      BY <2>0 DEF Joined
    <2> DEFINE T == {k \in 1..m : g[k] # f[IF k <= n THEN k ELSE n]}
    <2>2. T = {}
      <3> SUFFICES ASSUME T # {} PROVE FALSE
        OBVIOUS
      <3>1. PICK x \in T : \A k \in T : x <= k
        <4>1. T \in SUBSET Nat
          OBVIOUS
        <4> HIDE DEF T
        <4> QED BY <4>1, Least
      <3>2. x \in 1..m /\ g[x] # f[IF x <= n THEN x ELSE n]
        OBVIOUS
      <3>3. x # 1
        BY <1>1, <1>2, <1>4, <2>1, <3>2
      <3>4. x - 1 \in 1..m /\ x \in 2..m /\ x - 1 \notin T
        <4> HIDE DEF T
        <4> QED BY <3>1, <3>2, <3>3
      <3>5. /\ g[x - 1] = f[IF x - 1 <= n THEN x - 1 ELSE n]
            /\ g[x] = g[x - 1] \o more[x]
        BY <1>1, <3>4
      <3>6. CASE x <= n
        <4>1. x \in 2..n /\ x - 1 <= n /\ more[x] = items[x]
          BY <3>2, <3>4, <3>6
        <4>2. f[x] = f[x - 1] \o items[x]
          BY <2>1, <4>1
        <4> QED BY <3>2, <3>5, <3>6, <4>1, <4>2
      <3>7. CASE ~(x <= n)
        <4>0. (IF x - 1 <= n THEN x - 1 ELSE n) = n /\ n \in 1..n
          BY <1>4, <3>2, <3>7
        <4>1. more[x] = <<>> /\ g[x - 1] = f[n] /\ f[n] \in Seq(S)
          BY <2>1, <3>2, <3>5, <3>7, <4>0
        <4>2. f[n] \o <<>> = f[n]
          BY <4>1, ConcatEmptySeq
        <4> QED BY <3>2, <3>5, <3>7, <4>1, <4>2
      <3> QED BY <3>6, <3>7
    <2>3. g[m] = f[n]
      BY <1>2, <2>2
    <2> QED BY <1>1, <1>4, <2>1, <2>3
  <1> QED BY <1>3, <1>4

(* The length of a sequence after a put and a take. *)
LEMMA AfterLength ==
    ASSUME NEW S, NEW s \in Seq(S), NEW take \in BOOLEAN, NEW put \in BOOLEAN, NEW x,
           take => s # <<>>, put => x \in S
    PROVE  /\ After(s, take, put, x) \in Seq(S)
           /\ Len(After(s, take, put, x)) = Len(s) + Bit(put) - Bit(take)
  <1> DEFINE a == IF take THEN Tail(s) ELSE s
             e == IF put THEN <<x>> ELSE <<>>
  <1>1. a \in Seq(S) /\ Len(a) = Len(s) - Bit(take)
    BY DEF Bit
  <1>2. e \in Seq(S) /\ Len(e) = Bit(put)
    BY DEF Bit
  <1>3. After(s, take, put, x) = a \o e
    BY DEF After
  <1> HIDE DEF a, e
  <1>4. a \o e \in Seq(S) /\ Len(a \o e) = Len(a) + Len(e)
    BY <1>1, <1>2, ConcatProperties
  <1>5. Len(s) \in Nat /\ Bit(put) \in {0, 1} /\ Bit(take) \in {0, 1}
    BY DEF Bit
  <1> QED BY <1>1, <1>2, <1>3, <1>4, <1>5

(* A sequence after a put and a take: what stays moves up, what is put     *)
(* comes last.                                                             *)
MovesUp(s, t, take, put, x) ==
    /\ Len(t) = Len(s) + Bit(put) - Bit(take)
    /\ \A k \in 1..(Len(s) - Bit(take)) : t[k] = s[k + Bit(take)]
    /\ put => t[Len(s) - Bit(take) + 1] = x

LEMMA AfterShows ==
    ASSUME NEW S, NEW s \in Seq(S), NEW take \in BOOLEAN, NEW put \in BOOLEAN, NEW x,
           take => s # <<>>, put => x \in S, NEW t, t = After(s, take, put, x)
    PROVE  MovesUp(s, t, take, put, x)
  <1> DEFINE a == IF take THEN Tail(s) ELSE s
             e == IF put THEN <<x>> ELSE <<>>
  <1>1. /\ a \in Seq(S) /\ Len(a) = Len(s) - Bit(take)
        /\ \A k \in 1..Len(a) : a[k] = s[k + Bit(take)]
    BY DEF Bit
  <1>2. e \in Seq(S) /\ Len(e) = Bit(put) /\ (put => Len(e) = 1 /\ e[1] = x)
    BY DEF Bit
  <1>3. t = a \o e
    BY DEF After
  <1>4. Len(t) = Len(s) + Bit(put) - Bit(take)
    BY AfterLength
  <1> HIDE DEF a, e
  <1>5. \A k \in 1..(Len(a) + Len(e)) :
            (a \o e)[k] = IF k <= Len(a) THEN a[k] ELSE e[k - Len(a)]
    BY <1>1, <1>2, ConcatProperties
  <1>6. Len(a) \in Nat /\ Len(e) \in Nat
    BY <1>1, <1>2
  <1>7. \A k \in 1..Len(a) : t[k] = a[k]
    BY <1>3, <1>5, <1>6
  <1>8. put => t[Len(a) + 1] = x
    <2> SUFFICES ASSUME put PROVE t[Len(a) + 1] = x
      OBVIOUS
    <2>1. Len(a) + 1 \in 1..(Len(a) + Len(e)) /\ ~(Len(a) + 1 <= Len(a))
          /\ (Len(a) + 1) - Len(a) = 1
      <3>1. Len(e) = 1
        BY <1>2
      <3> QED BY ONLY <1>6, <3>1
    <2>2. t[Len(a) + 1] = e[1]
      BY <1>3, <1>5, <2>1
    <2> QED BY <1>2, <2>2
  <1> QED BY <1>1, <1>4, <1>7, <1>8 DEF MovesUp

(* A row begins with the head of its first sequence. *)
LEMMA RowHead ==
    ASSUME NEW S, NEW n \in Nat, n > 0, NEW items \in [1..n -> Seq(S)], items[1] # <<>>
    PROVE  Joint(items, n) # <<>> /\ Head(Joint(items, n)) = Head(items[1])
  <1> DEFINE take == [k \in 1..n |-> k = 1]
             put == [k \in 1..n |-> FALSE]
             item == [k \in 1..n |-> 0]
             new == [k \in 1..n |-> After(items[k], k = 1, FALSE, 0)]
  <1>1. ASSUME NEW k \in 1..n
        PROVE  (k = 1 => items[k] # <<>>) /\ After(items[k], k = 1, FALSE, 0) \in Seq(S)
    <2>1. items[k] \in Seq(S) /\ (k = 1 => items[k] # <<>>)
      OBVIOUS
    <2> DEFINE first == k = 1
    <2>2. first \in BOOLEAN /\ (first => items[k] # <<>>)
      BY <2>1
    <2> HIDE DEF first
    <2>3. After(items[k], first, FALSE, 0) \in Seq(S)
      BY <2>1, <2>2, AfterLength
    <2> QED BY <2>1, <2>3 DEF first
  <1>2. 1 \in 1..n /\ \A k \in 2..n : k \in 1..n /\ k - 1 \in 1..n /\ k # 1
    OBVIOUS
  <1>3. HandsOn(items, new, take, put, item, n, S)
    <2>1. new \in [1..n -> Seq(S)]
      BY <1>1
    <2>2. \A k \in 1..n : /\ take[k] = (k = 1) /\ put[k] = FALSE /\ item[k] = 0
                          /\ new[k] = After(items[k], k = 1, FALSE, 0)
      OBVIOUS
    <2>3. take \in [1..n -> BOOLEAN] /\ put \in [1..n -> BOOLEAN]
      OBVIOUS
    <2> HIDE DEF take, put, item, new
    <2>4. \A k \in 1..n : /\ take[k] => items[k] # <<>>
                          /\ put[k] => item[k] \in S
                          /\ new[k] = After(items[k], take[k], put[k], item[k])
      BY <1>1, <2>2, Zenon
    <2>5. \A k \in 2..n : /\ put[k - 1] = take[k]
                          /\ put[k - 1] => item[k - 1] = Head(items[k])
      BY <1>2, <2>2
    <2> QED BY <2>1, <2>3, <2>4, <2>5 DEF HandsOn
  <1>4. take[1]
    BY <1>2
  <1> HIDE DEF take, put, item, new
  <1>5. RowChanges(items, new, take, put, item, n, S)
    BY <1>3, Row
  <1> QED BY <1>4, <1>5 DEF RowChanges

(* A side track in front of a queue keeps what was taken from the queue    *)
(* but could not go on: the two are one sequence.                          *)
HasSideTrack(front, back, front2, go, taken, put, x, S) ==
    /\ front \in Seq(S) /\ Len(front) <= 1 /\ back \in Seq(S)
    /\ go \in BOOLEAN /\ taken \in BOOLEAN /\ put \in BOOLEAN
    /\ put => x \in S
    /\ taken => back # <<>> /\ front = <<>>
    /\ go => taken \/ front # <<>>
    /\ front2 = IF go THEN <<>> ELSE IF taken THEN <<Head(back)>> ELSE front

SideTracked(front, back, front2, go, taken, put, x) ==
    /\ front2 \o After(back, taken, put, x) = After(front \o back, go, put, x)
    /\ go => /\ front \o back # <<>>
             /\ Head(front \o back) = IF front # <<>> THEN Head(front) ELSE Head(back)

LEMMA SideTrack ==
    ASSUME NEW S, NEW front, NEW back, NEW front2, NEW go, NEW taken, NEW put, NEW x,
           HasSideTrack(front, back, front2, go, taken, put, x, S)
    PROVE  SideTracked(front, back, front2, go, taken, put, x)
  <1> USE DEF HasSideTrack
  <1>1. CASE front = <<>> /\ go
    <2>1. front \o back = back /\ taken
      BY <1>1, ConcatEmptySeq
    <2>2. After(back, taken, put, x) \in Seq(S)
      BY AfterLength
    <2>3. front2 \o After(back, taken, put, x) = After(back, taken, put, x)
      <3> DEFINE b == After(back, taken, put, x)
      <3> HIDE DEF b
      <3>1. <<>> \o b = b
        BY <2>2, ConcatEmptySeq DEF b
      <3> QED BY <1>1, <3>1 DEF b
    <2>4. After(back, taken, put, x) = After(back, go, put, x)
      BY <1>1, <2>1 DEF After
    <2> QED BY <1>1, <2>1, <2>3, <2>4 DEF SideTracked
  <1>2. CASE ~(front = <<>> /\ go)
    <2>1. go => front # <<>>
      BY <1>2
    <2>2. HandedOver(front, back, go, taken, put, x)
      BY <2>1, HandOver
    <2>3. front2 = After(front, go, taken, Head(back))
      <3>1. CASE go
        <4>1. front # <<>> /\ ~taken
          BY <2>1, <3>1
        <4>2. Tail(front) = <<>>
          <5>0. Len(front) \in Nat \ {0}
            BY <4>1, EmptySeq
          <5>1. Len(front) = 1
            <6> DEFINE l == Len(front)
            <6>1. l \in Nat \ {0} /\ l <= 1
              BY <5>0
            <6> HIDE DEF l
            <6>2. l = 1
              BY <6>1
            <6> QED BY <6>2 DEF l
          <5>2. Tail(front) \in Seq(S) /\ Len(Tail(front)) = 0
            BY <4>1, <5>1
          <5> QED BY <5>2, EmptySeq
        <4>3. <<>> \o <<>> = <<>>
          OBVIOUS
        <4> QED BY <3>1, <4>1, <4>2, <4>3 DEF After
      <3>2. CASE ~go /\ taken
        <4>1. <<>> \o <<Head(back)>> = <<Head(back)>>
          BY Short
        <4> QED BY <3>2, <4>1 DEF After
      <3>3. CASE ~go /\ ~taken
        BY <3>3, ConcatEmptySeq DEF After
      <3> QED BY <3>1, <3>2, <3>3
    <2>4. go => front \o back # <<>> /\ Head(front \o back) = Head(front)
      BY <2>1, HeadTail
    <2> QED BY <2>1, <2>2, <2>3, <2>4 DEF SideTracked, HandedOver
  <1> QED BY <1>1, <1>2

(* The four things a clock edge can do to a FIFO. *)
LEMMA AfterCases ==
    ASSUME NEW S, NEW s \in Seq(S), NEW x
    PROVE  /\ After(s, TRUE, TRUE, x) = Append(Tail(s), x)
           /\ s # <<>> => After(s, TRUE, FALSE, x) = Tail(s)
           /\ After(s, FALSE, TRUE, x) = Append(s, x)
           /\ After(s, FALSE, FALSE, x) = s
  <1>1. s \o <<>> = s /\ (s # <<>> => Tail(s) \in Seq(S) /\ Tail(s) \o <<>> = Tail(s))
    BY ConcatEmptySeq
  <1>2. s \o <<x>> = Append(s, x)
    OBVIOUS
  <1>3. Tail(s) \o <<x>> = Append(Tail(s), x)
    OBVIOUS
  <1> QED BY <1>1, <1>2, <1>3 DEF After

-----------------------------------------------------------------------------
(* The registers of a two-entry register FIFO agree: both copies of empty, *)
(* full with the overflow register, and what they hold are items.          *)
RegistersAgree(s, S) ==
    /\ s.full \in BOOLEAN /\ s.empty \in BOOLEAN
    /\ s.overflow = s.full /\ s.internal_empty = s.empty
    /\ s.overflow => ~s.empty /\ s.overflow_data \in S
    /\ ~s.empty => s.output_data \in S

Entries(s) ==
    IF s.empty THEN <<>>
    ELSE IF s.overflow THEN <<s.output_data, s.overflow_data>>
    ELSE <<s.output_data>>

(* What the logic in front of the registers computes, copy by copy. *)
RegisterEdge(s, e, wrreq, data, rdreq) ==
    LET direct == wrreq /\ (rdreq \/ s.internal_empty)
        spill  == wrreq /\ ~direct
    IN  /\ e.full = (spill \/ (s.full /\ ~rdreq))
        /\ e.overflow = (spill \/ (s.overflow /\ ~rdreq))
        /\ e.empty = (~wrreq /\ ((rdreq /\ ~s.overflow) \/ s.empty))
        /\ e.internal_empty = (~wrreq /\ ((rdreq /\ ~s.overflow) \/ s.internal_empty))
        /\ e.output_data = IF direct THEN data
                           ELSE IF rdreq /\ s.overflow THEN s.overflow_data
                           ELSE s.output_data
        /\ e.overflow_data = IF wrreq THEN data ELSE s.overflow_data

LEMMA EntriesType ==
    ASSUME NEW S, NEW s, RegistersAgree(s, S)
    PROVE  /\ Entries(s) \in Seq(S) /\ Len(Entries(s)) <= 2
           /\ ~s.empty => Entries(s) # <<>> /\ Head(Entries(s)) = s.output_data
  BY DEF RegistersAgree, Entries

(* One clock edge of a register FIFO. *)
LEMMA RegisterStep ==
    ASSUME NEW S, NEW s, RegistersAgree(s, S),
           NEW wrreq \in BOOLEAN, NEW rdreq \in BOOLEAN, NEW data,
           wrreq => ~s.full /\ data \in S, rdreq => ~s.empty,
           NEW e, RegisterEdge(s, e, wrreq, data, rdreq)
    PROVE  /\ RegistersAgree(e, S)
           /\ Entries(e) = After(Entries(s), rdreq, wrreq, data)
  <1>1. /\ s.full \in BOOLEAN /\ s.overflow \in BOOLEAN /\ s.empty \in BOOLEAN
        /\ s.internal_empty = s.empty /\ s.full = s.overflow
        /\ s.overflow => ~s.empty /\ s.overflow_data \in S
        /\ ~s.empty => s.output_data \in S
    BY DEF RegistersAgree
  <1> DEFINE direct == wrreq /\ (rdreq \/ s.empty)
             spill == wrreq /\ ~direct
  <1>3. /\ e.full = (spill \/ (s.full /\ ~rdreq))
        /\ e.overflow = (spill \/ (s.overflow /\ ~rdreq))
        /\ e.empty = (~wrreq /\ ((rdreq /\ ~s.overflow) \/ s.empty))
        /\ e.internal_empty = e.empty
        /\ e.output_data = IF direct THEN data
                           ELSE IF rdreq /\ s.overflow THEN s.overflow_data
                           ELSE s.output_data
        /\ e.overflow_data = IF wrreq THEN data ELSE s.overflow_data
    BY <1>1 DEF RegisterEdge
  <1>5. RegistersAgree(e, S)
    BY <1>1, <1>3 DEF RegistersAgree
  <1>6. Entries(s) = IF s.empty THEN <<>>
                       ELSE IF s.overflow THEN <<s.output_data, s.overflow_data>>
                       ELSE <<s.output_data>>
    BY DEF Entries
  <1>7. Entries(e) = IF e.empty THEN <<>>
                       ELSE IF e.overflow THEN <<e.output_data, e.overflow_data>>
                       ELSE <<e.output_data>>
    BY DEF Entries
  <1>8. Entries(e) = After(Entries(s), rdreq, wrreq, data)
    <2>1. CASE rdreq /\ wrreq
      <3>1. ~s.empty /\ ~s.overflow /\ ~e.empty /\ ~e.overflow /\ e.output_data = data
        BY <1>1, <1>3, <2>1
      <3>2. Entries(s) = <<s.output_data>> /\ Entries(e) = <<data>>
        BY <1>6, <1>7, <3>1
      <3> QED BY <2>1, <3>2, Short, Zenon DEF After
    <2>2. CASE rdreq /\ ~wrreq
      <3>1. CASE s.overflow
        <4>1. ~s.empty /\ ~e.empty /\ ~e.overflow /\ e.output_data = s.overflow_data
          BY <1>1, <1>3, <2>2, <3>1
        <4>2. Entries(s) = <<s.output_data, s.overflow_data>>
              /\ Entries(e) = <<s.overflow_data>>
          BY <1>6, <1>7, <3>1, <4>1
        <4> QED BY <2>2, <4>2, Short, Zenon DEF After
      <3>2. CASE ~s.overflow
        <4>1. ~s.empty /\ e.empty
          BY <1>1, <1>3, <2>2, <3>2
        <4>2. Entries(s) = <<s.output_data>> /\ Entries(e) = <<>>
          BY <1>6, <1>7, <3>2, <4>1
        <4> QED BY <2>2, <4>2, Short, Zenon DEF After
      <3> QED BY <3>1, <3>2
    <2>3. CASE ~rdreq /\ wrreq
      <3>1. CASE s.empty
        <4>1. ~e.empty /\ ~e.overflow /\ e.output_data = data
          BY <1>1, <1>3, <2>3, <3>1
        <4>2. Entries(s) = <<>> /\ Entries(e) = <<data>>
          BY <1>6, <1>7, <3>1, <4>1
        <4> QED BY <2>3, <4>2, Short, Zenon DEF After
      <3>2. CASE ~s.empty
        <4>1. /\ ~s.overflow /\ ~e.empty /\ e.overflow
              /\ e.output_data = s.output_data /\ e.overflow_data = data
          BY <1>1, <1>3, <2>3, <3>2
        <4>2. Entries(s) = <<s.output_data>> /\ Entries(e) = <<s.output_data, data>>
          BY <1>6, <1>7, <3>2, <4>1
        <4> QED BY <2>3, <4>2, Short, Zenon DEF After
      <3> QED BY <3>1, <3>2
    <2>4. CASE ~rdreq /\ ~wrreq
      <3>1. /\ e.empty = s.empty /\ e.overflow = s.overflow
            /\ e.output_data = s.output_data /\ e.overflow_data = s.overflow_data
        BY <1>1, <1>3, <2>4
      <3>2. Entries(e) = Entries(s)
        BY <1>6, <1>7, <3>1
      <3>3. Entries(s) \o <<>> = Entries(s)
        <4>1. CASE s.empty
          BY <1>6, <4>1, Short, Zenon
        <4>2. CASE ~s.empty /\ s.overflow
          BY <1>6, <4>2, Short, Zenon
        <4>3. CASE ~s.empty /\ ~s.overflow
          BY <1>6, <4>3, Short, Zenon
        <4> QED BY <4>1, <4>2, <4>3
      <3> QED BY <2>4, <3>2, <3>3, Zenon DEF After
    <2> QED BY <2>1, <2>2, <2>3, <2>4
  <1> QED BY <1>5, <1>8
-----------------------------------------------------------------------------
(* A row of one sequence. *)
LEMMA JoinsOne ==
    ASSUME NEW S, NEW items \in [1..1 -> Seq(S)]
    PROVE  Joint(items, 1) = items[1]
  <1> DEFINE n == 1
  <1>1. n \in Nat /\ n > 0 /\ items \in [1..n -> Seq(S)]
    OBVIOUS
  <1>2. n = 1
    OBVIOUS
  <1> HIDE DEF n
  <1>3. PICK f : Joined(f, items, n, S)
    BY <1>1, Joins
  <1> QED BY <1>2, <1>3 DEF Joined

(* Brackets do not matter. *)
Brackets(a, b, c) == (a \o b) \o c = a \o (b \o c)

LEMMA Associates ==
    ASSUME NEW S, NEW a \in Seq(S), NEW b \in Seq(S), NEW c \in Seq(S)
    PROVE  Brackets(a, b, c)
  BY ConcatAssociative, SMTT(30) DEF Brackets

(* A row that gains a sequence at its end. *)
LEMMA RowAppend ==
    ASSUME NEW S, NEW n \in Nat, n > 0, NEW items \in [1..n -> Seq(S)],
           NEW more \in [1..(n + 1) -> Seq(S)], \A k \in 1..n : more[k] = items[k]
    PROVE  Joint(more, n + 1) = Joint(items, n) \o more[n + 1]
  <1>0. PICK f : Joined(f, items, n, S)
    BY Joins
  <1>1. /\ f[1] = items[1] /\ \A i \in 2..n : f[i] = f[i - 1] \o items[i]
        /\ Joint(items, n) = f[n]
    BY <1>0 DEF Joined
  <1>2. PICK g : Joined(g, more, n + 1, S)
    BY Joins
  <1>3. /\ g[1] = more[1] /\ \A i \in 2..(n + 1) : g[i] = g[i - 1] \o more[i]
        /\ Joint(more, n + 1) = g[n + 1]
    BY <1>2 DEF Joined
  <1> DEFINE T == {k \in 1..n : g[k] # f[k]}
  <1>4. T = {}
    <2> SUFFICES ASSUME T # {} PROVE FALSE
      OBVIOUS
    <2>1. PICK m \in T : \A k \in T : m <= k
      <3>1. T \in SUBSET Nat
        OBVIOUS
      <3> HIDE DEF T
      <3> QED BY <3>1, Least
    <2>2. m \in 1..n /\ g[m] # f[m]
      BY <2>1
    <2>3. m # 1
      <3>1. 1 \in 1..n
        OBVIOUS
      <3> QED BY <1>1, <1>3, <2>2, <3>1
    <2>4. m - 1 \in 1..n /\ m - 1 \notin T /\ m \in 2..n /\ m \in 2..(n + 1)
      <3> HIDE DEF T
      <3> QED BY <2>1, <2>2, <2>3
    <2>5. g[m - 1] = f[m - 1] /\ more[m] = items[m]
      BY <2>2, <2>4
    <2>6. g[m] = g[m - 1] \o more[m] /\ f[m] = f[m - 1] \o items[m]
      BY <1>1, <1>3, <2>4
    <2> QED BY <2>2, <2>5, <2>6
  <1>5. n \in 1..n /\ n + 1 \in 2..(n + 1) /\ (n + 1) - 1 = n
    OBVIOUS
  <1>6. g[n] = f[n]
    BY <1>4, <1>5
  <1>7. g[n + 1] = g[(n + 1) - 1] \o more[n + 1]
    BY <1>3, <1>5
  <1> QED BY <1>1, <1>3, <1>5, <1>6, <1>7

(* A row begins with its first sequence. *)
LEMMA RowFirst ==
    ASSUME NEW S, NEW n \in Nat, n > 0, NEW rest \in [1..n -> Seq(S)],
           NEW items \in [1..(n + 1) -> Seq(S)], \A k \in 1..n : rest[k] = items[k + 1]
    PROVE  Joint(items, n + 1) = items[1] \o Joint(rest, n)
  <1>0. PICK f : Joined(f, rest, n, S)
    BY Joins
  <1>1. /\ f \in [1..n -> Seq(S)]
        /\ f[1] = rest[1] /\ \A i \in 2..n : f[i] = f[i - 1] \o rest[i]
        /\ Joint(rest, n) = f[n]
    BY <1>0 DEF Joined
  <1> DEFINE m1 == n + 1
  <1>10. m1 \in Nat /\ m1 > 0 /\ items \in [1..m1 -> Seq(S)]
    OBVIOUS
  <1> HIDE DEF m1
  <1>11. \E g : Joined(g, items, m1, S)
    BY <1>10, Joins
  <1>2. PICK g : Joined(g, items, n + 1, S)
    BY <1>11 DEF m1
  <1>3. /\ g[1] = items[1] /\ \A i \in 2..(n + 1) : g[i] = g[i - 1] \o items[i]
        /\ Joint(items, n + 1) = g[n + 1]
    BY <1>2 DEF Joined
  <1> DEFINE h == items[1]
             T == {k \in 1..n : g[k + 1] # h \o f[k]}
  <1>4. h \in Seq(S)
    OBVIOUS
  <1> HIDE DEF h
  <1>5. T = {}
    <2> SUFFICES ASSUME T # {} PROVE FALSE
      OBVIOUS
    <2>1. PICK m \in T : \A k \in T : m <= k
      <3>1. T \in SUBSET Nat
        OBVIOUS
      <3> HIDE DEF T
      <3> QED BY <3>1, Least
    <2>2. m \in 1..n /\ g[m + 1] # h \o f[m]
      BY <2>1
    <2>3. /\ m + 1 \in 2..(n + 1) /\ (m + 1) - 1 = m
          /\ g[m + 1] = g[m] \o items[m + 1] /\ rest[m] = items[m + 1]
      <3>1. m + 1 \in 2..(n + 1) /\ (m + 1) - 1 = m
        BY <2>2
      <3>2. g[m + 1] = g[(m + 1) - 1] \o items[m + 1]
        BY <1>3, <3>1
      <3>3. rest[m] = items[m + 1]
        BY <2>2
      <3> QED BY <3>1, <3>2, <3>3
    <2>4. m # 1
      <3> SUFFICES ASSUME m = 1 PROVE FALSE
        OBVIOUS
      <3>1. m + 1 = 2
        OBVIOUS
      <3>2. g[2] = g[1] \o items[2] /\ rest[1] = items[2] /\ g[2] # h \o f[1]
        BY <2>2, <2>3, <3>1
      <3> QED BY <1>1, <1>3, <3>2 DEF h
    <2>5. m - 1 \in 1..n /\ m - 1 \notin T /\ m \in 2..n /\ (m - 1) + 1 = m
      <3> HIDE DEF T
      <3> QED BY <2>1, <2>2, <2>4
    <2>6. g[m] = h \o f[m - 1]
      BY <2>5
    <2>7. f[m] = f[m - 1] \o rest[m] /\ f[m - 1] \in Seq(S) /\ rest[m] \in Seq(S)
      BY <1>1, <2>2, <2>5
    <2>8. (h \o f[m - 1]) \o rest[m] = h \o (f[m - 1] \o rest[m])
      <3> DEFINE x == f[m - 1]
                 y == rest[m]
      <3>1. x \in Seq(S) /\ y \in Seq(S)
        BY <2>7
      <3> HIDE DEF x, y, T
      <3>2. Brackets(h, x, y)
        BY <1>4, <3>1, Associates
      <3> QED BY <3>2 DEF x, y, Brackets
    <2> QED BY <2>2, <2>3, <2>6, <2>7, <2>8
  <1>6. n \in 1..n
    OBVIOUS
  <1>7. g[n + 1] = h \o f[n]
    BY <1>5, <1>6
  <1> QED BY <1>1, <1>3, <1>7 DEF h

(* The sequences of a row, joined. *)
Flat(row) == IF Len(row) = 0 THEN <<>> ELSE Joint(row, Len(row))

(* A joined row is a sequence of the same items. *)
LEMMA FlatType ==
    ASSUME NEW S, NEW row \in Seq(Seq(S))
    PROVE  Flat(row) \in Seq(S)
  <1>1. CASE Len(row) = 0
    BY <1>1 DEF Flat
  <1>2. CASE Len(row) # 0
    <2> DEFINE n == Len(row)
    <2>1. n \in Nat /\ n > 0 /\ row \in [1..n -> Seq(S)] /\ n \in 1..n
      BY <1>2, LenProperties
    <2> HIDE DEF n
    <2>2. PICK f : Joined(f, row, n, S)
      BY <2>1, Joins
    <2>3. Joint(row, n) \in Seq(S)
      BY <2>1, <2>2 DEF Joined
    <2> QED BY <1>2, <2>3 DEF Flat, n
  <1> QED BY <1>1, <1>2

(* A sequence added to a row comes last. *)
LEMMA FlatAppend ==
    ASSUME NEW S, NEW row \in Seq(Seq(S)), NEW s \in Seq(S)
    PROVE  Flat(row \o <<s>>) = Flat(row) \o s
  <1> DEFINE n == Len(row)
             more == row \o <<s>>
  <1>1. /\ n \in Nat /\ row \in [1..n -> Seq(S)] /\ more \in Seq(Seq(S))
        /\ Len(more) = n + 1
        /\ \A k \in 1..n : more[k] = row[k]
        /\ more[n + 1] = s
    <2>1. /\ n \in Nat /\ row \in [1..n -> Seq(S)] /\ <<s>> \in Seq(Seq(S))
          /\ Len(<<s>>) = 1 /\ <<s>>[1] = s
      BY LenProperties
    <2>2. /\ more \in Seq(Seq(S)) /\ Len(more) = n + 1
          /\ \A k \in 1..(n + 1) : more[k] = IF k <= n THEN row[k] ELSE <<s>>[k - n]
      BY <2>1, ConcatProperties
    <2>3. /\ \A k \in 1..n : k \in 1..(n + 1) /\ k <= n
          /\ n + 1 \in 1..(n + 1) /\ ~(n + 1 <= n) /\ (n + 1) - n = 1
      BY <2>1
    <2> HIDE DEF n, more
    <2> QED BY <2>1, <2>2, <2>3
  <1>2. more \in [1..(n + 1) -> Seq(S)]
    BY <1>1, LenProperties
  <1> HIDE DEF n, more
  <1>3. Flat(more) = Joint(more, n + 1)
    BY <1>1 DEF Flat
  <1>4. CASE n = 0
    <2>1. Flat(row) = <<>>
      BY <1>4 DEF Flat, n
    <2>2. 0 + 1 = 1 /\ more \in [1..1 -> Seq(S)] /\ more[1] = s
      BY <1>1, <1>2, <1>4
    <2>3. Joint(more, 1) = s
      BY <2>2, JoinsOne
    <2>4. <<>> \o s = s
      BY ConcatEmptySeq
    <2> QED BY <1>3, <1>4, <2>1, <2>2, <2>3, <2>4 DEF more
  <1>5. CASE n # 0
    <2>1. Flat(row) = Joint(row, n)
      BY <1>5 DEF Flat, n
    <2>2. Joint(more, n + 1) = Joint(row, n) \o more[n + 1]
      <3>1. n \in Nat /\ n > 0 /\ row \in [1..n -> Seq(S)]
        BY <1>1, <1>5
      <3>2. \A k \in 1..n : more[k] = row[k]
        BY <1>1
      <3> QED BY ONLY <1>2, <3>1, <3>2, RowAppend
    <2> QED BY <1>1, <1>3, <2>1, <2>2 DEF more
  <1> QED BY <1>4, <1>5

(* The first sequence of a row comes first. *)
LEMMA FlatTail ==
    ASSUME NEW S, NEW row \in Seq(Seq(S)), row # <<>>
    PROVE  /\ Head(row) \in Seq(S) /\ Tail(row) \in Seq(Seq(S))
           /\ Flat(row) = Head(row) \o Flat(Tail(row))
  <1> DEFINE n == Len(row) - 1
             rest == Tail(row)
  <1>1. /\ n \in Nat /\ Len(row) = n + 1 /\ row \in [1..(n + 1) -> Seq(S)]
        /\ rest \in Seq(Seq(S)) /\ Len(rest) = n
        /\ \A k \in 1..n : rest[k] = row[k + 1]
        /\ Head(row) = row[1] /\ row[1] \in Seq(S)
    <2>1. Len(row) \in Nat /\ Len(row) > 0 /\ row \in [1..Len(row) -> Seq(S)]
      BY LenProperties, EmptySeq
    <2>2. rest \in Seq(Seq(S)) /\ Len(rest) = Len(row) - 1 /\ Head(row) \in Seq(S)
      BY HeadTailProperties
    <2>3. \A k \in 1..(Len(row) - 1) : rest[k] = row[k + 1]
      BY <2>1
    <2>4. Head(row) = row[1]
      BY <2>1
    <2> QED BY <2>1, <2>2, <2>3, <2>4
  <1>2. rest \in [1..n -> Seq(S)]
    BY <1>1, LenProperties
  <1> HIDE DEF n, rest
  <1>3. Flat(row) = Joint(row, n + 1)
    BY <1>1 DEF Flat
  <1>4. CASE n = 0
    <2>1. Flat(rest) = <<>>
      BY <1>1, <1>4 DEF Flat
    <2>2. 0 + 1 = 1 /\ row \in [1..1 -> Seq(S)]
      BY <1>1, <1>4
    <2>3. Joint(row, 1) = row[1]
      BY <2>2, JoinsOne
    <2>4. row[1] \o <<>> = row[1]
      BY <1>1, ConcatEmptySeq
    <2> QED BY <1>1, <1>3, <1>4, <2>1, <2>2, <2>3, <2>4 DEF rest
  <1>5. CASE n # 0
    <2>1. Flat(rest) = Joint(rest, n)
      BY <1>1, <1>5 DEF Flat
    <2>2. Joint(row, n + 1) = row[1] \o Joint(rest, n)
      <3>1. n \in Nat /\ n > 0 /\ row \in [1..(n + 1) -> Seq(S)]
        BY <1>1, <1>5
      <3>2. \A k \in 1..n : rest[k] = row[k + 1]
        BY <1>1
      <3> QED BY ONLY <1>2, <3>1, <3>2, RowFirst
    <2> QED BY <1>1, <1>3, <2>1, <2>2 DEF rest
  <1> QED BY <1>4, <1>5

(* A row of sequences of at most c items each. *)
LEMMA FlatLength ==
    ASSUME NEW S, NEW row \in Seq(Seq(S)), NEW c \in Nat,
           \A k \in 1..Len(row) : Len(row[k]) <= c
    PROVE  Len(Flat(row)) <= c * Len(row)
  <1> DEFINE n == Len(row)
  <1>1. n \in Nat /\ row \in [1..n -> Seq(S)] /\ \A k \in 1..n : Len(row[k]) <= c
    BY LenProperties
  <1>2. CASE n = 0
    <2>1. Flat(row) = <<>> /\ Len(<<>>) = 0
      BY <1>2 DEF Flat
    <2>2. c * 0 = 0
      OBVIOUS
    <2> QED BY <1>2, <2>1, <2>2
  <1>3. CASE n # 0
    <2>1. n > 0 /\ Flat(row) = Joint(row, n)
      BY <1>1, <1>3 DEF Flat
    <2> HIDE DEF n
    <2>2. Len(Joint(row, n)) <= c * n
      BY <1>1, <2>1, RowLength
    <2> QED BY <2>1, <2>2 DEF n
  <1> QED BY <1>2, <1>3

(* What the entries of a queue stand for, each for a sequence, in a row. *)
RowOf(l, f) == [i \in 1..Len(l) |-> f[l[i]]]
Stream(l, f) == Flat(RowOf(l, f))

IsRow(r, l, f, S) ==
    /\ r \in Seq(Seq(S)) /\ Len(r) = Len(l)
    /\ \A i \in 1..Len(l) : r[i] = f[l[i]]

(* The row of a queue has one sequence for each entry. *)
LEMMA RowOfType ==
    ASSUME NEW S, NEW E, NEW f \in [E -> Seq(S)], NEW l \in Seq(E)
    PROVE  IsRow(RowOf(l, f), l, f, S) /\ Stream(l, f) \in Seq(S)
  <1>1. Len(l) \in Nat /\ \A i \in 1..Len(l) : l[i] \in E /\ f[l[i]] \in Seq(S)
    BY LenProperties
  <1>2. /\ RowOf(l, f) \in Seq(Seq(S)) /\ Len(RowOf(l, f)) = Len(l)
        /\ \A i \in 1..Len(l) : RowOf(l, f)[i] = f[l[i]]
    BY <1>1 DEF RowOf
  <1>3. Stream(l, f) \in Seq(S)
    BY <1>2, FlatType DEF Stream
  <1> QED BY <1>2, <1>3 DEF IsRow

StreamGains(t, s, y) == t = s \o y

(* An entry put into the queue adds to the end of its stream. *)
LEMMA StreamPut ==
    ASSUME NEW S, NEW E, NEW f \in [E -> Seq(S)], NEW l \in Seq(E), NEW x \in E
    PROVE  StreamGains(Stream(l \o <<x>>, f), Stream(l, f), f[x])
  <1> DEFINE n == Len(l)
             m == l \o <<x>>
             r == RowOf(l, f)
             rm == RowOf(m, f)
             y == f[x]
  <1>1. /\ n \in Nat /\ <<x>> \in Seq(E) /\ Len(<<x>>) = 1 /\ <<x>>[1] = x
        /\ y \in Seq(S) /\ <<y>> \in Seq(Seq(S)) /\ Len(<<y>>) = 1 /\ <<y>>[1] = y
    BY LenProperties
  <1>2. /\ m \in Seq(E) /\ Len(m) = n + 1
        /\ \A k \in 1..(n + 1) : m[k] = IF k <= n THEN l[k] ELSE <<x>>[k - n]
    BY <1>1, ConcatProperties
  <1>9. IsRow(r, l, f, S)
    BY RowOfType
  <1>3. /\ r \in Seq(Seq(S)) /\ Len(r) = n /\ \A i \in 1..n : r[i] = f[l[i]]
    BY <1>9 DEF IsRow
  <1> HIDE DEF m
  <1>10. IsRow(rm, m, f, S)
    BY <1>2, RowOfType
  <1>4. /\ rm \in Seq(Seq(S)) /\ Len(rm) = n + 1 /\ \A i \in 1..(n + 1) : rm[i] = f[m[i]]
    BY <1>2, <1>10 DEF IsRow
  <1> DEFINE ry == r \o <<y>>
  <1> HIDE DEF r, rm, y, n
  <1>5. /\ ry \in Seq(Seq(S)) /\ Len(ry) = n + 1
        /\ \A k \in 1..(n + 1) : ry[k] = IF k <= n THEN r[k] ELSE <<y>>[k - n]
    BY <1>1, <1>3, ConcatProperties
  <1> HIDE DEF ry
  <1>6. ASSUME NEW k \in 1..(n + 1) PROVE rm[k] = ry[k]
    <2>1. CASE k <= n
      <3>1. k \in 1..n
        BY <1>1, <2>1
      <3>2. rm[k] = f[m[k]] /\ m[k] = l[k]
        BY <1>2, <1>4, <2>1
      <3>3. ry[k] = r[k] /\ r[k] = f[l[k]]
        BY <1>3, <1>5, <2>1, <3>1
      <3> QED BY <3>2, <3>3
    <2>2. CASE ~(k <= n)
      <3>1. k = n + 1 /\ k - n = 1
        BY <1>1, <2>2
      <3>2. m[k] = x /\ ry[k] = y
        BY <1>1, <1>2, <1>5, <2>2, <3>1
      <3> QED BY <1>4, <3>2 DEF y
    <2> QED BY <2>1, <2>2
  <1>7. rm = ry
    BY <1>4, <1>5, <1>6, SeqEqual
  <1>8. Flat(r \o <<y>>) = Flat(r) \o y
    BY <1>1, <1>3, FlatAppend
  <1> QED BY <1>7, <1>8 DEF Stream, StreamGains, m, r, rm, ry, y

(* The stream of a queue begins with the sequence of its head. *)
LEMMA StreamTake ==
    ASSUME NEW S, NEW E, NEW f \in [E -> Seq(S)], NEW l \in Seq(E), l # <<>>
    PROVE  /\ Head(l) \in E /\ Tail(l) \in Seq(E)
           /\ Stream(l, f) = f[Head(l)] \o Stream(Tail(l), f)
  <1> DEFINE m == Tail(l)
             n == Len(m)
             r == RowOf(l, f)
             rm == RowOf(m, f)
  <1>1. /\ Head(l) \in E /\ m \in Seq(E) /\ n = Len(l) - 1
        /\ \A i \in 1..n : m[i] = l[i + 1]
    BY HeadTailProperties
  <1>2. n \in Nat /\ Len(l) \in Nat /\ Len(l) = n + 1 /\ Head(l) = l[1]
    <2>1. n \in Nat /\ Len(l) \in Nat
      BY <1>1, LenProperties
    <2> QED BY <1>1, <2>1
  <1>12. IsRow(r, l, f, S)
    BY RowOfType
  <1>13. IsRow(rm, m, f, S)
    BY <1>1, RowOfType
  <1>14. n = Len(m)
    OBVIOUS
  <1> HIDE DEF m, n, r, rm
  <1>3. /\ r \in Seq(Seq(S)) /\ Len(r) = n + 1 /\ \A i \in 1..(n + 1) : r[i] = f[l[i]]
    BY <1>2, <1>12 DEF IsRow
  <1>4. /\ rm \in Seq(Seq(S)) /\ Len(rm) = n /\ \A i \in 1..n : rm[i] = f[m[i]]
    BY <1>13, <1>14 DEF IsRow
  <1>5. r # <<>>
    BY <1>2, <1>3
  <1>6. /\ Flat(r) = Head(r) \o Flat(Tail(r)) /\ Tail(r) \in Seq(Seq(S))
        /\ Len(Tail(r)) = Len(r) - 1 /\ \A i \in 1..Len(Tail(r)) : Tail(r)[i] = r[i + 1]
    BY <1>3, <1>5, FlatTail, HeadTailProperties
  <1>7. Head(r) = r[1] /\ 1 \in 1..(n + 1)
    BY <1>2, <1>3, <1>5
  <1>8. Head(r) = f[Head(l)]
    BY <1>2, <1>3, <1>7
  <1> DEFINE t == Tail(r)
  <1>9. t \in Seq(Seq(S)) /\ Len(t) = n /\ \A i \in 1..n : t[i] = r[i + 1]
    BY <1>2, <1>3, <1>6
  <1> HIDE DEF t
  <1>10. ASSUME NEW i \in 1..n PROVE rm[i] = t[i]
    <2>1. i + 1 \in 1..(n + 1)
      BY <1>2
    <2>2. rm[i] = f[m[i]] /\ m[i] = l[i + 1] /\ t[i] = r[i + 1]
      BY <1>1, <1>4, <1>9
    <2>3. r[i + 1] = f[l[i + 1]]
      BY <1>3, <2>1
    <2> QED BY <2>2, <2>3
  <1>11. rm = t
    BY <1>4, <1>9, <1>10, SeqEqual
  <1> QED BY <1>1, <1>6, <1>8, <1>11 DEF Stream, m, r, rm, t

(* A clock edge on the queue takes the head's sequence from the front of   *)
(* the stream and puts the new entry's at its end.                         *)
StreamMoves(s, t, take, h, put, y, S) ==
    \E mid \in Seq(S) : /\ s = (IF take THEN h ELSE <<>>) \o mid
                        /\ t = mid \o (IF put THEN y ELSE <<>>)

LEMMA StreamEdge ==
    ASSUME NEW S, NEW E, NEW f \in [E -> Seq(S)], NEW l \in Seq(E),
           NEW take \in BOOLEAN, NEW put \in BOOLEAN, NEW x,
           take => l # <<>>, put => x \in E
    PROVE  /\ After(l, take, put, x) \in Seq(E)
           /\ StreamMoves(Stream(l, f), Stream(After(l, take, put, x), f),
                          take, f[Head(l)], put, f[x], S)
  <1> DEFINE m == IF take THEN Tail(l) ELSE l
             h == f[Head(l)]
             y == f[x]
  <1>1. m \in Seq(E)
    BY HeadTailProperties
  <1>2. Stream(l, f) = (IF take THEN h ELSE <<>>) \o Stream(m, f)
    <2>1. CASE take
      BY <2>1, StreamTake
    <2>2. CASE ~take
      <3>1. Stream(l, f) \in Seq(S)
        BY RowOfType
      <3>2. <<>> \o Stream(l, f) = Stream(l, f)
        BY <3>1, ConcatEmptySeq
      <3> QED BY <2>2, <3>2
    <2> QED BY <2>1, <2>2
  <1> DEFINE p == IF put THEN <<x>> ELSE <<>>
  <1> HIDE DEF m
  <1>3. m \o p \in Seq(E) /\ Stream(m \o p, f) = Stream(m, f) \o (IF put THEN y ELSE <<>>)
    <2>1. CASE put
      <3>1. p = <<x>> /\ p \in Seq(E)
        BY <2>1
      <3>2. m \o p \in Seq(E)
        BY <1>1, <3>1, ConcatProperties
      <3>3. StreamGains(Stream(m \o <<x>>, f), Stream(m, f), f[x])
        BY <1>1, <2>1, StreamPut
      <3> QED BY <2>1, <3>1, <3>2, <3>3 DEF StreamGains
    <2>2. CASE ~put
      <3>1. Stream(m, f) \in Seq(S)
        BY <1>1, RowOfType
      <3>2. Stream(m, f) \o <<>> = Stream(m, f) /\ m \o <<>> = m
        BY <1>1, <3>1, ConcatEmptySeq
      <3> QED BY <1>1, <2>2, <3>2
    <2> QED BY <2>1, <2>2
  <1>4. After(l, take, put, x) = m \o p
    BY DEF After, m
  <1>5. Stream(m, f) \in Seq(S)
    BY <1>1, RowOfType
  <1> HIDE DEF p, h, y
  <1>6. StreamMoves(Stream(l, f), Stream(m \o p, f), take, h, put, y, S)
    BY <1>2, <1>3, <1>5 DEF StreamMoves
  <1> QED BY <1>3, <1>4, <1>6 DEF h, y

(* A sequence without its first c items. *)
Drop(s, c) == SubSeq(s, c + 1, Len(s))

Dropped(d, s, c, S) ==
    /\ d \in Seq(S) /\ Len(d) = Len(s) - c
    /\ \A i \in 1..(Len(s) - c) : d[i] = s[i + c]

(* What is dropped are the first items, and no more. *)
LEMMA DropType ==
    ASSUME NEW S, NEW s \in Seq(S), NEW c \in 0..Len(s)
    PROVE  Dropped(Drop(s, c), s, c, S)
  <1>1. Len(s) \in Nat /\ \A i \in (c + 1)..Len(s) : s[i] \in S
    BY LenProperties
  <1>2. c + 1 \in Int /\ Len(s) \in Int /\ c \in Nat
    BY <1>1
  <1> DEFINE a == c + 1
             b == Len(s)
             d == SubSeq(s, a, b)
  <1>5. /\ SubSeq(s, a, b) \in Seq(S)
        /\ Len(SubSeq(s, a, b)) = IF a <= b THEN b - a + 1 ELSE 0
        /\ \A i \in 1..(b - a + 1) : SubSeq(s, a, b)[i] = s[a + i - 1]
    <2>1. a \in Int /\ b \in Int /\ \A i \in a..b : s[i] \in S
      BY <1>1, <1>2
    <2> HIDE DEF a, b
    <2> QED BY ONLY <2>1, SubSeqProperties
  <1>3. Len(d) = Len(s) - c
    BY <1>1, <1>2, <1>5
  <1>4. ASSUME NEW i \in 1..(Len(s) - c) PROVE d[i] = s[i + c]
    <2>1. i \in 1..(b - a + 1) /\ a + i - 1 = i + c
      BY <1>1, <1>2
    <2> QED BY <1>5, <2>1
  <1> QED BY <1>3, <1>4, <1>5 DEF Dropped, Drop

(* A sequence without its first items is the only one of its kind. *)
LEMMA DropUnique ==
    ASSUME NEW S, NEW s, NEW c, NEW d, NEW e, Dropped(d, s, c, S), Dropped(e, s, c, S)
    PROVE  d = e
  <1>1. d \in Seq(S) /\ e \in Seq(S) /\ Len(d) = Len(e) /\ \A i \in 1..Len(d) : d[i] = e[i]
    BY DEF Dropped
  <1> QED BY <1>1, SeqEqual

(* Nothing dropped. *)
LEMMA DropNone ==
    ASSUME NEW S, NEW s \in Seq(S)
    PROVE  Drop(s, 0) = s
  <1>1. Len(s) \in Nat /\ 0 \in 0..Len(s) /\ Len(s) - 0 = Len(s)
    BY LenProperties
  <1>2. Dropped(Drop(s, 0), s, 0, S)
    BY <1>1, DropType
  <1>3. Dropped(s, s, 0, S)
    <2>1. ASSUME NEW i \in 1..(Len(s) - 0) PROVE s[i] = s[i + 0]
      <3>1. i + 0 = i
        BY <1>1
      <3> QED BY <3>1
    <2> QED BY <1>1, <2>1 DEF Dropped
  <1> QED BY <1>2, <1>3, DropUnique

(* What is dropped from the front does not touch the end. *)
LEMMA DropConcat ==
    ASSUME NEW S, NEW s \in Seq(S), NEW t \in Seq(S), NEW c \in 0..Len(s)
    PROVE  Drop(s \o t, c) = Drop(s, c) \o t
  <1> DEFINE st == s \o t
             d == Drop(s, c)
             dt == d \o t
  <1>1. Len(s) \in Nat /\ Len(t) \in Nat /\ c \in Nat
    BY LenProperties
  <1>2. /\ st \in Seq(S) /\ Len(st) = Len(s) + Len(t)
        /\ \A i \in 1..(Len(s) + Len(t)) : st[i] = IF i <= Len(s) THEN s[i] ELSE t[i - Len(s)]
    BY ConcatProperties
  <1>3. Dropped(d, s, c, S)
    BY DropType
  <1>4. /\ d \in Seq(S) /\ Len(d) = Len(s) - c
        /\ \A i \in 1..(Len(s) - c) : d[i] = s[i + c]
    BY <1>3 DEF Dropped
  <1> HIDE DEF st, d
  <1>5. /\ dt \in Seq(S) /\ Len(dt) = Len(d) + Len(t)
        /\ \A i \in 1..(Len(d) + Len(t)) : dt[i] = IF i <= Len(d) THEN d[i] ELSE t[i - Len(d)]
    BY <1>4, ConcatProperties
  <1> HIDE DEF dt
  <1> DEFINE ls == Len(s)
             lt == Len(t)
  <1>6. ASSUME NEW i \in 1..(Len(st) - c) PROVE dt[i] = st[i + c]
    <2>1. i \in 1..(Len(d) + Len(t)) /\ i + c \in 1..(Len(s) + Len(t)) /\ i \in Nat
      BY <1>1, <1>2, <1>4
    <2>2. CASE i <= Len(d)
      <3>1. i \in 1..(Len(s) - c) /\ i + c <= Len(s)
        BY <1>1, <1>4, <2>1, <2>2
      <3> QED BY <1>2, <1>4, <1>5, <2>1, <2>2, <3>1
    <2>3. CASE ~(i <= Len(d))
      <3>1. ~(i + c <= Len(s)) /\ i - Len(d) = (i + c) - Len(s)
        BY <1>1, <1>4, <2>1, <2>3
      <3>2. dt[i] = t[i - Len(d)]
        BY <1>5, <2>1, <2>3
      <3>3. st[i + c] = t[(i + c) - Len(s)]
        BY <1>2, <2>1, <3>1
      <3> QED BY <3>1, <3>2, <3>3
    <2> QED BY <2>2, <2>3
  <1>7. Len(dt) = Len(st) - c /\ c \in 0..Len(st)
    BY <1>1, <1>2, <1>4, <1>5
  <1>8. Dropped(dt, st, c, S)
    BY <1>5, <1>6, <1>7 DEF Dropped
  <1>9. Dropped(Drop(st, c), st, c, S)
    BY <1>2, <1>7, DropType
  <1>10. Drop(st, c) = dt
    BY <1>8, <1>9, DropUnique
  <1> QED BY <1>10 DEF st, d, dt

(* The first of two sequences dropped. *)
LEMMA DropAll ==
    ASSUME NEW S, NEW s \in Seq(S), NEW t \in Seq(S)
    PROVE  Drop(s \o t, Len(s)) = t
  <1>1. Len(s) \in Nat /\ Len(s) \in 0..Len(s)
    BY LenProperties
  <1>2. Drop(s \o t, Len(s)) = Drop(s, Len(s)) \o t
    BY <1>1, DropConcat
  <1> DEFINE d == Drop(s, Len(s))
  <1>3. Dropped(d, s, Len(s), S)
    BY <1>1, DropType
  <1>4. d = <<>>
    <2>1. d \in Seq(S) /\ Len(d) = 0
      BY <1>1, <1>3 DEF Dropped
    <2> HIDE DEF d
    <2> QED BY <2>1, EmptySeq
  <1>5. <<>> \o t = t
    BY ConcatEmptySeq
  <1> QED BY <1>2, <1>4, <1>5

(* One item more is dropped. *)
LEMMA DropNext ==
    ASSUME NEW S, NEW s \in Seq(S), NEW c \in 0..(Len(s) - 1)
    PROVE  Drop(s, c) = <<s[c + 1]>> \o Drop(s, c + 1)
  <1> DEFINE d == Drop(s, c + 1)
             x == s[c + 1]
             e == <<x>> \o d
  <1>1. Len(s) \in Nat /\ c \in Nat /\ c \in 0..Len(s) /\ c + 1 \in 0..Len(s) /\ c + 1 \in 1..Len(s)
    BY LenProperties
  <1>2. Dropped(d, s, c + 1, S)
    BY <1>1, DropType
  <1>3. /\ d \in Seq(S) /\ Len(d) = Len(s) - (c + 1)
        /\ \A i \in 1..(Len(s) - (c + 1)) : d[i] = s[i + (c + 1)]
    BY <1>2 DEF Dropped
  <1>4. <<x>> \in Seq(S) /\ Len(<<x>>) = 1 /\ <<x>>[1] = x
    BY <1>1
  <1> HIDE DEF d
  <1>5. /\ e \in Seq(S) /\ Len(e) = 1 + Len(d)
        /\ \A i \in 1..(1 + Len(d)) : e[i] = IF i <= 1 THEN <<x>>[i] ELSE d[i - 1]
    BY <1>3, <1>4, ConcatProperties
  <1> HIDE DEF e
  <1>6. ASSUME NEW i \in 1..(Len(s) - c) PROVE e[i] = s[i + c]
    <2>1. i \in 1..(1 + Len(d)) /\ i \in Nat
      BY <1>1, <1>3
    <2>2. CASE i = 1
      <3>1. e[1] = x /\ 1 + c = c + 1
        BY <1>1, <1>4, <1>5, <2>1, <2>2
      <3> QED BY <2>2, <3>1
    <2>3. CASE i # 1
      <3>1. ~(i <= 1) /\ i - 1 \in 1..(Len(s) - (c + 1)) /\ (i - 1) + (c + 1) = i + c
        BY <1>1, <1>3, <2>1, <2>3
      <3>2. d[i - 1] = s[(i - 1) + (c + 1)]
        BY <1>3, <3>1
      <3>3. e[i] = d[i - 1]
        BY <1>5, <2>1, <3>1
      <3> QED BY <3>1, <3>2, <3>3
    <2> QED BY <2>2, <2>3
  <1>7. Len(e) = Len(s) - c
    BY <1>1, <1>3, <1>5
  <1>8. Dropped(e, s, c, S)
    BY <1>5, <1>6, <1>7 DEF Dropped
  <1>9. Dropped(Drop(s, c), s, c, S)
    BY <1>1, DropType
  <1>10. Drop(s, c) = e
    BY <1>8, <1>9, DropUnique
  <1> QED BY <1>10 DEF e, d

(* Two ways to cut the same stream: without its first part, which is not   *)
(* the longer one, both have the same rest.                                *)
SameStream(u, v, p, m) == u \o v = p \o m
CutsOff(u, v, p, m) ==
    /\ Drop(u, Len(p)) \o v = m
    /\ \A i \in 1..Len(p) : u[i] = p[i]

LEMMA CutOff ==
    ASSUME NEW S, NEW u \in Seq(S), NEW v \in Seq(S), NEW p \in Seq(S), NEW m \in Seq(S),
           SameStream(u, v, p, m), Len(p) <= Len(u)
    PROVE  CutsOff(u, v, p, m)
  <1>1. Len(p) \in Nat /\ Len(u) \in Nat /\ Len(v) \in Nat /\ Len(m) \in Nat
    BY LenProperties
  <1>2. Len(p) \in 0..Len(u)
    BY <1>1
  <1>3. Drop(u \o v, Len(p)) = Drop(u, Len(p)) \o v
    BY <1>2, DropConcat
  <1>4. Drop(p \o m, Len(p)) = m
    BY DropAll
  <1>5. ASSUME NEW i \in 1..Len(p) PROVE u[i] = p[i]
    <2>1. i \in 1..(Len(u) + Len(v)) /\ i \in 1..(Len(p) + Len(m)) /\ i <= Len(u) /\ i <= Len(p)
      BY <1>1
    <2>2. (u \o v)[i] = u[i]
      BY <2>1, ConcatProperties
    <2>3. (p \o m)[i] = p[i]
      BY <2>1, ConcatProperties
    <2> QED BY <2>2, <2>3 DEF SameStream
  <1> QED BY <1>3, <1>4, <1>5 DEF SameStream, CutsOff
=============================================================================
