------------------------- MODULE ArbitrationProofs -------------------------
(***************************************************************************)
(* What a chain of KanagawaArbitrationChainNodes does for every length of  *)
(* the chain, every mix of transactions and every back-pressure: how long  *)
(* a port waits, how much every source gets, and that the chain is a       *)
(* merger.                                                                 *)
(*                                                                         *)
(* For the first a node is looked at alone: all it needs to know of its    *)
(* surroundings is whether each port shows an item and whether that item   *)
(* is the last of its transaction.                                         *)
(***************************************************************************)
EXTENDS MCArbitration, RuntimeLemmas

(* The nodes and the ratios. *)
LEMMA Nodes ==
    ASSUME NEW i \in Busy!Node
    PROVE  i \in Nat /\ Busy!THRESH(i) \in Nat /\ Busy!THRESH(i) > 0
  BY BusyAssumption DEF BusyChain!ArbitrationAssumption, Busy!Node, Busy!THRESH

(* A node that moves an item has chosen one of the ports it may read.      *)
LEMMA Selected ==
    ASSUME NEW i \in Busy!Node, NEW full_in \in BOOLEAN, Busy!wren_out(i, full_in)
    PROVE  /\ Busy!selected_input(i) \in Busy!Eligible(i)
           /\ Busy!selected_input(i) \in Busy!Port
           /\ Busy!Eligible(i) = Busy!Port => Busy!selected_input(i) = Busy!Preferred(i)
  <1>1. Busy!Eligible(i) # {} /\ Busy!Eligible(i) \subseteq Busy!Port
    BY DEF Busy!wren_out, Busy!Eligible
  <1>2. CASE Busy!Eligible(i) = Busy!Port
    BY <1>1, <1>2 DEF Busy!selected_input, Busy!Preferred, Busy!Port
  <1>3. CASE Busy!Eligible(i) # Busy!Port
    <2>1. Busy!selected_input(i) = CHOOSE j \in Busy!Eligible(i) : TRUE
      BY <1>3 DEF Busy!selected_input
    <2>2. Busy!selected_input(i) \in Busy!Eligible(i)
      BY <1>1, <2>1
    <2> QED BY <1>1, <1>3, <2>2
  <1> QED BY <1>2, <1>3

(* One clock edge of one node. *)
LEMMA NodeStep ==
    ASSUME Busy!IInv, NEW full_in \in BOOLEAN, Busy!Arbitrate(full_in), Busy!CountShares(full_in),
           NEW i \in Busy!Node
    PROVE  /\ priority_ff'[i] \in Nat /\ priority_ff'[i] <= Busy!THRESH(i)
           /\ transaction_state_ff'[i] \in
                 {Busy!TS_NO_TRANSACTION, Busy!TS_TRANSACTION_PORT(0), Busy!TS_TRANSACTION_PORT(1)}
           /\ overtaken'[i] \in [Busy!Port -> Nat]
           /\ Busy!Port0Waits(i)' /\ Busy!Port1Waits(i)'
  <1> DEFINE p == priority_ff[i]
             t == transaction_state_ff[i]
             v0 == overtaken[i][0]
             v1 == overtaken[i][1]
             pn == priority_ff'[i]
             tn == transaction_state_ff'[i]
             n0 == overtaken'[i][0]
             n1 == overtaken'[i][1]
             wren == Busy!wren_out(i, full_in)
             sel == Busy!selected_input(i)
             last == Busy!data_out(i).last = TRUE
             h == Busy!THRESH(i)
             has0 == Busy!data_in(i, 0) # NoItem
             has1 == Busy!data_in(i, 1) # NoItem
  <1>1. /\ h \in Nat /\ h > 0
    BY Nodes
  <1>2. /\ p \in Nat /\ p <= h /\ t \in {0, 1, 2} /\ v0 \in Nat /\ v1 \in Nat
        /\ overtaken[i] \in [Busy!Port -> Nat]
    BY DEF Busy!IInv, Busy!NodesTypeOK, Busy!Port, Busy!TS_NO_TRANSACTION,
        Busy!TS_TRANSACTION_PORT
  <1>3. /\ t = 0 => v0 <= p
        /\ t = 1 => v0 = 0
        /\ t = 2 => v0 <= p + 1 /\ (p = h => v0 = 0)
        /\ v1 <= 1
        /\ t = 0 /\ v1 = 1 => p = 0
        /\ t = 1 /\ v1 = 1 => p = h
        /\ t = 2 => v1 # 1
    BY <1>2 DEF Busy!IInv, Busy!Port0Waits, Busy!Port1Waits, Busy!TS_NO_TRANSACTION,
        Busy!TS_TRANSACTION_PORT
  <1>4. /\ pn = IF wren /\ last THEN (IF p = h THEN 0 ELSE p + 1) ELSE p
        /\ tn = IF wren THEN (IF last THEN 0 ELSE 1 + sel) ELSE t
    BY DEF Busy!Arbitrate, Busy!priority_next, Busy!transaction_state_next,
        Busy!TS_NO_TRANSACTION,
           Busy!TS_TRANSACTION_PORT
  <1>5. /\ overtaken'[i] = [j \in Busy!Port |->
              IF Busy!data_in(i, j) = NoItem \/ Busy!rden_out(i, j, full_in) THEN 0
              ELSE overtaken[i][j] + (IF Busy!Begins(i, full_in) THEN 1 ELSE 0)]
        /\ overtaken'[i] \in [Busy!Port -> Nat]
        /\ n0 = IF ~has0 \/ (wren /\ sel = 0) THEN 0
                ELSE v0 + (IF wren /\ t = 0 THEN 1 ELSE 0)
        /\ n1 = IF ~has1 \/ (wren /\ sel = 1) THEN 0
                ELSE v1 + (IF wren /\ t = 0 THEN 1 ELSE 0)
    <2>1. overtaken'[i] = [j \in Busy!Port |->
              IF Busy!data_in(i, j) = NoItem \/ Busy!rden_out(i, j, full_in) THEN 0
              ELSE overtaken[i][j] + (IF Busy!Begins(i, full_in) THEN 1 ELSE 0)]
      BY DEF Busy!CountShares
    <2>2. overtaken'[i] \in [Busy!Port -> Nat]
      BY <1>2, <2>1
    <2> QED BY <2>1, <2>2 DEF Busy!Port, Busy!rden_out, Busy!Begins, Busy!TS_NO_TRANSACTION
  (* What the choice of a port depends on. *)
  <1>6. wren => /\ sel \in {0, 1}
                /\ sel = 0 => has0 /\ t \in {0, 1}
                /\ sel = 1 => has1 /\ t \in {0, 2}
                /\ t = 0 /\ has0 /\ has1 => (sel = 0 <=> p = h)
    <2> SUFFICES ASSUME wren
                 PROVE  /\ sel \in {0, 1}
                        /\ sel = 0 => has0 /\ t \in {0, 1}
                        /\ sel = 1 => has1 /\ t \in {0, 2}
                        /\ t = 0 /\ has0 /\ has1 => (sel = 0 <=> p = h)
      OBVIOUS
    <2>1. sel \in Busy!Eligible(i) /\ sel \in Busy!Port /\ (Busy!Eligible(i) = Busy!Port => sel = Busy!Preferred(i))
      BY Selected
    <2>2. t = 0 /\ has0 /\ has1 => Busy!Eligible(i) = Busy!Port
      BY DEF Busy!Eligible, Busy!Port, Busy!TS_NO_TRANSACTION
    <2>3. Busy!Preferred(i) = IF p = h THEN 0 ELSE 1
      BY DEF Busy!Preferred
    <2> HIDE DEF sel
    <2>4. Busy!data_in(i, sel) # NoItem /\ t \in {0, 1 + sel} /\ sel \in {0, 1}
      BY <2>1 DEF Busy!Eligible, Busy!Port, Busy!TS_NO_TRANSACTION, Busy!TS_TRANSACTION_PORT
    <2> QED BY <2>1, <2>2, <2>3, <2>4
  <1>7. last \in BOOLEAN /\ wren \in BOOLEAN /\ has0 \in BOOLEAN /\ has1 \in BOOLEAN
    BY DEF Busy!wren_out
  <1> HIDE DEF p, t, v0, v1, pn, tn, n0, n1, wren, sel, last, h, has0, has1
  <1>8. pn \in Nat /\ pn <= h /\ tn \in {0, 1, 2} /\ n0 \in Nat /\ n1 \in Nat
    BY <1>1, <1>2, <1>4, <1>5, <1>6
  <1>9. /\ tn = 0 => n0 <= pn
        /\ tn = 1 => n0 = 0
        /\ tn = 2 => n0 <= pn + 1 /\ (pn = h => n0 = 0)
    BY <1>1, <1>2, <1>3, <1>4, <1>5, <1>6, <1>7
  <1>10. /\ n1 <= 1
         /\ tn = 0 /\ n1 = 1 => pn = 0
         /\ tn = 1 /\ n1 = 1 => pn = h
         /\ tn = 2 => n1 # 1
    BY <1>1, <1>2, <1>3, <1>4, <1>5, <1>6, <1>7
  <1>11. Busy!Port0Waits(i)'
    BY <1>8, <1>9 DEF Busy!Port0Waits, tn, n0, pn, h, Busy!TS_NO_TRANSACTION,
        Busy!TS_TRANSACTION_PORT, Busy!THRESH
  <1>12. Busy!Port1Waits(i)'
    BY <1>8, <1>10 DEF Busy!Port1Waits, tn, n1, pn, h, Busy!TS_NO_TRANSACTION,
        Busy!TS_TRANSACTION_PORT, Busy!THRESH
  <1> QED BY <1>5, <1>8, <1>11, <1>12
          DEF pn, tn, h, Busy!TS_NO_TRANSACTION, Busy!TS_TRANSACTION_PORT

(* The inductive invariant of the nodes: at the start, *)
LEMMA InitIInv == Busy!ShareInit => Busy!IInv
  <1> SUFFICES ASSUME Busy!ShareInit PROVE Busy!IInv
    OBVIOUS
  <1>1. /\ priority_ff = [i \in Busy!Node |-> 0]
        /\ transaction_state_ff = [i \in Busy!Node |-> 0]
        /\ overtaken = [i \in Busy!Node |-> [j \in Busy!Port |-> 0]]
    BY DEF Busy!ShareInit, Busy!Init, Busy!TS_NO_TRANSACTION
  <1>2. Busy!NodesTypeOK
    BY <1>1, Nodes DEF Busy!NodesTypeOK, Busy!TS_NO_TRANSACTION
  <1>3. ASSUME NEW i \in Busy!Node PROVE Busy!Port0Waits(i) /\ Busy!Port1Waits(i)
    BY <1>1 DEF Busy!Port0Waits, Busy!Port1Waits, Busy!Port, Busy!TS_NO_TRANSACTION
  <1> QED BY <1>2, <1>3 DEF Busy!IInv

(* and at every clock edge. *)
LEMMA StepIInv == Busy!IInv /\ [Busy!ShareNext]_(Busy!shareVars) => Busy!IInv'
  <1> SUFFICES ASSUME Busy!IInv, [Busy!ShareNext]_(Busy!shareVars) PROVE Busy!IInv'
    OBVIOUS
  <1>1. CASE Busy!ShareNext
    <2>1. PICK full_in \in BOOLEAN : Busy!Arbitrate(full_in) /\ Busy!CountShares(full_in)
      BY <1>1 DEF Busy!ShareNext
    <2>2. ASSUME NEW i \in Busy!Node
          PROVE  /\ priority_ff'[i] \in Nat /\ priority_ff'[i] <= Busy!THRESH(i)
                 /\ transaction_state_ff'[i] \in
                       {Busy!TS_NO_TRANSACTION, Busy!TS_TRANSACTION_PORT(0),
                        Busy!TS_TRANSACTION_PORT(1)}
                 /\ overtaken'[i] \in [Busy!Port -> Nat]
                 /\ Busy!Port0Waits(i)' /\ Busy!Port1Waits(i)'
      BY <2>1, NodeStep
    <2>3. /\ priority_ff' = [i \in Busy!Node |-> priority_ff'[i]]
          /\ transaction_state_ff' = [i \in Busy!Node |-> transaction_state_ff'[i]]
          /\ overtaken' = [i \in Busy!Node |-> overtaken'[i]]
      BY <2>1 DEF Busy!Arbitrate, Busy!CountShares
    <2>4. Busy!NodesTypeOK'
      BY <2>2, <2>3 DEF Busy!NodesTypeOK, Busy!THRESH, Busy!Node, Busy!Port,
                        Busy!TS_NO_TRANSACTION, Busy!TS_TRANSACTION_PORT
    <2> QED BY <2>2, <2>4 DEF Busy!IInv, Busy!Node
  <1>2. CASE UNCHANGED Busy!shareVars
    BY <1>2 DEF Busy!shareVars, Busy!vars, Busy!IInv, Busy!NodesTypeOK, Busy!Port0Waits,
                Busy!Port1Waits
  <1> QED BY <1>1, <1>2

(* In a merger of any number of sources a waiting port 0 of node i is      *)
(* passed over by at most RATIO - 1 = i + 1 transactions, and a waiting    *)
(* port 1 by one, however long the transactions are.                       *)
THEOREM BoundedOvertakingHolds == MCSpec => []BoundedOvertaking
  <1> DEFINE Shares == watched = "shares"
  <1>1. ASSUME Busy!IInv PROVE Busy!BoundedOvertaking
    <2> SUFFICES ASSUME NEW i \in Busy!Node
                 PROVE  overtaken[i][0] <= Busy!THRESH(i) /\ overtaken[i][1] <= 1
      BY DEF Busy!BoundedOvertaking
    <2> DEFINE p == priority_ff[i]
               t == transaction_state_ff[i]
               v == overtaken[i][0]
               h == Busy!THRESH(i)
    <2>1. /\ p \in Nat /\ p <= h /\ t \in {0, 1, 2} /\ v \in Nat /\ h \in Nat
      BY <1>1, Nodes DEF Busy!IInv, Busy!NodesTypeOK, Busy!Port, Busy!TS_NO_TRANSACTION,
                         Busy!TS_TRANSACTION_PORT
    <2>2. /\ t = 0 => v <= p
          /\ t = 1 => v = 0
          /\ t = 2 => v <= p + 1 /\ (p = h => v = 0)
      BY <1>1, <2>1 DEF Busy!IInv, Busy!Port0Waits, Busy!TS_NO_TRANSACTION,
                        Busy!TS_TRANSACTION_PORT
    <2> HIDE DEF p, t, v, h
    <2>3. v <= h
      BY <2>1, <2>2
    <2>4. overtaken[i][1] <= 1
      BY <1>1 DEF Busy!IInv, Busy!Port1Waits
    <2> QED BY <2>3, <2>4 DEF v, h
  <1>2. MCInit => (Shares => Busy!IInv)
    BY InitIInv DEF MCInit
  <1>3. (Shares => Busy!IInv) /\ [MCNext]_mcVars => (Shares => Busy!IInv)'
    <2> SUFFICES ASSUME Shares => Busy!IInv, [MCNext]_mcVars, Shares'
                 PROVE  Busy!IInv'
      OBVIOUS
    <2>1. watched' = watched
      BY DEF MCNext, mcVars
    <2>2. [Busy!ShareNext]_(Busy!shareVars)
      BY <2>1 DEF MCNext, mcVars, mergeVars, vars, Busy!shareVars, Busy!vars
    <2> QED BY <2>1, <2>2, StepIInv
  <1>4. (Shares => Busy!IInv) => BoundedOvertaking
    BY <1>1 DEF BoundedOvertaking
  <1> HIDE DEF Shares
  <1> QED BY <1>2, <1>3, <1>4, PTL DEF MCSpec
-----------------------------------------------------------------------------
(* The shares of busy sources.  Each node goes through rounds of turns,    *)
(* and the turn a transaction has at one node says which turn it had at    *)
(* the node before: what has been begun at the destination determines what *)
(* every source has had.                                                   *)

(* The nodes and sources of the busy chain. *)
LEMMA BusyPlaces ==
    /\ BusyN \in Nat /\ BusyN > 1 /\ Busy!LastNode \in Nat /\ Busy!LastNode \in Busy!Node
    /\ \A i \in Busy!Node : i \in Nat /\ i <= Busy!LastNode
                       /\ (i # Busy!LastNode
                             => i + 1 \in Busy!Node /\ i \in Busy!Node \ {Busy!LastNode})
                       /\ (i > 0 => i - 1 \in Busy!Node \ {Busy!LastNode})
  BY BusyAssumption DEF BusyChain!ArbitrationAssumption, Busy!Node, Busy!LastNode

(* NoItem is not an item. *)
LEMMA NoItemIsNone == NoItem \notin Busy!Item /\ NoItem \notin Busy!Offered
  BY BusyAssumption DEF BusyChain!ArbitrationAssumption, BusyChain!Item, BusyChain!Offered,
      BusyChain!Source, BusyChain!LastBit, Busy!Item, Busy!Offered, Busy!Source, Busy!LastBit

(* The positions node i can be at. *)
Positions(i) == {p \in Busy!Position : p.slot <= i + 1}

LEMMA SamePosition ==
    ASSUME NEW p \in Busy!Position, NEW q \in Busy!Position
    PROVE  /\ p = q <=> p.round = q.round /\ p.slot = q.slot
           /\ p = Busy!First <=> p.round = 0 /\ p.slot = 0
           /\ p.round \in Nat /\ p.slot \in Nat /\ Busy!First \in Busy!Position
  BY DEF Busy!Position, Busy!First

(* The next position. *)
LEMMA SuccIs ==
    ASSUME NEW i \in Nat, NEW p \in Positions(i)
    PROVE  LET q == Busy!Succ(i, p)
           IN  /\ q \in Positions(i) /\ q # Busy!First
               /\ q.round = IF p.slot = i + 1 THEN p.round + 1 ELSE p.round
               /\ q.slot = IF p.slot = i + 1 THEN 0 ELSE p.slot + 1
  BY DEF Positions, Busy!Position, Busy!Succ, Busy!First

(* What node i sees of node i - 1. *)
LEMMA DownIs ==
    ASSUME NEW late \in BOOLEAN, NEW i \in Nat, i > 0, NEW p \in Positions(i)
    PROVE  LET q == Busy!Down(late, i, p)
               early == p = Busy!First \/ ~Busy!Forced(late, i)
           IN  /\ q \in Positions(i - 1)
               /\ early /\ p.slot = i + 1 => q.round = p.round + 1 /\ q.slot = 0
               /\ early /\ p.slot # i + 1 => q.round = p.round /\ q.slot = p.slot
               /\ ~early /\ p.slot = 0 => q.round = p.round - 1 /\ q.slot = i
               /\ ~early /\ p.slot # 0 => q.round = p.round /\ q.slot = p.slot - 1
  <1>1. p.round \in Nat /\ p.slot \in Nat /\ p.slot <= i + 1 /\ p \in Busy!Position
        /\ (p = Busy!First <=> p.round = 0 /\ p.slot = 0)
    BY SamePosition DEF Positions
  <1> DEFINE early == p = Busy!First \/ ~Busy!Forced(late, i)
  <1>2. CASE early
    BY <1>1, <1>2 DEF Busy!Down, Positions, Busy!Position
  <1>3. CASE ~early
    BY <1>1, <1>3 DEF Busy!Down, Positions, Busy!Position
  <1> QED BY <1>2, <1>3

(* A transaction of port 0 leaves what is next on port 1 where it is; one  *)
(* of port 1 is the next one there.                                        *)
LEMMA DownSucc ==
    ASSUME NEW late \in BOOLEAN, NEW i \in Nat, i > 0, NEW p \in Positions(i)
    PROVE  Busy!Down(late, i, Busy!Succ(i, p)) =
              IF Busy!Own(late, i, p)
                 THEN Busy!Down(late, i, p) ELSE Busy!Succ(i - 1, Busy!Down(late, i, p))
  <1> DEFINE s == Busy!Succ(i, p)
             d == Busy!Down(late, i, p)
             e == Busy!Down(late, i, s)
             t == Busy!Succ(i - 1, d)
             forced == Busy!Forced(late, i)
  <1>1. p.round \in Nat /\ p.slot \in Nat /\ p.slot <= i + 1 /\ p \in Busy!Position
        /\ (p = Busy!First <=> p.round = 0 /\ p.slot = 0)
    BY SamePosition DEF Positions
  <1>2. /\ s \in Positions(i) /\ s # Busy!First
        /\ s.round = IF p.slot = i + 1 THEN p.round + 1 ELSE p.round
        /\ s.slot = IF p.slot = i + 1 THEN 0 ELSE p.slot + 1
    BY SuccIs
  <1>3. /\ d \in Positions(i - 1)
        /\ (p = Busy!First \/ ~forced) /\ p.slot = i + 1 => d.round = p.round + 1 /\ d.slot = 0
        /\ (p = Busy!First \/ ~forced) /\ p.slot # i + 1 => d.round = p.round /\ d.slot = p.slot
        /\ ~(p = Busy!First \/ ~forced) /\ p.slot = 0 => d.round = p.round - 1 /\ d.slot = i
        /\ ~(p = Busy!First \/ ~forced) /\ p.slot # 0 => d.round = p.round /\ d.slot = p.slot - 1
    BY DownIs
  <1>4. /\ e \in Positions(i - 1)
        /\ ~forced /\ s.slot = i + 1 => e.round = s.round + 1 /\ e.slot = 0
        /\ ~forced /\ s.slot # i + 1 => e.round = s.round /\ e.slot = s.slot
        /\ forced /\ s.slot = 0 => e.round = s.round - 1 /\ e.slot = i
        /\ forced /\ s.slot # 0 => e.round = s.round /\ e.slot = s.slot - 1
    BY <1>2, DownIs
  <1>5. /\ t \in Positions(i - 1)
        /\ t.round = IF d.slot = (i - 1) + 1 THEN d.round + 1 ELSE d.round
        /\ t.slot = IF d.slot = (i - 1) + 1 THEN 0 ELSE d.slot + 1
    BY <1>3, SuccIs
  <1>6. Busy!Own(late, i, p) <=> p.slot = i + 1 \/ (p = Busy!First /\ forced)
    BY DEF Busy!Own
  <1>7. d \in Busy!Position /\ e \in Busy!Position /\ t \in Busy!Position
    BY <1>3, <1>4, <1>5 DEF Positions
  <1>8. forced \in BOOLEAN
    BY DEF Busy!Forced
  <1> HIDE DEF s, d, e, t, forced
  <1>9. CASE Busy!Own(late, i, p)
    <2>1. e.round = d.round /\ e.slot = d.slot
      BY <1>1, <1>2, <1>3, <1>4, <1>6, <1>8, <1>9
    <2>2. e = d
      BY <1>7, <2>1, SamePosition
    <2> QED BY <1>9, <2>2 DEF e, d, s
  <1>10. CASE ~Busy!Own(late, i, p)
    <2>1. e.round = t.round /\ e.slot = t.slot
      <3>1. CASE forced
        BY <1>1, <1>2, <1>3, <1>4, <1>5, <1>6, <1>10, <3>1
      <3>2. CASE ~forced
        BY <1>1, <1>2, <1>3, <1>4, <1>5, <1>6, <1>10, <3>2
      <3> QED BY <3>1, <3>2
    <2>2. e = t
      BY <1>7, <2>1, SamePosition
    <2> QED BY <1>10, <2>2 DEF e, d, s, t
  <1> QED BY <1>9, <1>10

(* The turns of port 0 are counted. *)
LEMMA OwnsSucc ==
    ASSUME NEW late \in BOOLEAN, NEW i \in Nat, NEW p \in Positions(i)
    PROVE  /\ Busy!Owns(late, i, p) \in Nat
           /\ Busy!Owns(late, i, Busy!Succ(i, p))
                 = Busy!Owns(late, i, p) + (IF Busy!Own(late, i, p) THEN 1 ELSE 0)
  <1>1. p.round \in Nat /\ p.slot \in Nat /\ p.slot <= i + 1 /\ p \in Busy!Position
        /\ (p = Busy!First <=> p.round = 0 /\ p.slot = 0)
    BY SamePosition DEF Positions
  <1>2. /\ Busy!Succ(i, p) \in Positions(i) /\ Busy!Succ(i, p) # Busy!First
        /\ Busy!Succ(i, p).round = IF p.slot = i + 1 THEN p.round + 1 ELSE p.round
    BY SuccIs
  <1>3. Busy!Forced(late, i) \in BOOLEAN
    BY DEF Busy!Forced
  <1>4. Busy!Owns(late, i, p)
           = p.round + (IF p # Busy!First /\ Busy!Forced(late, i) THEN 1 ELSE 0)
    BY DEF Busy!Owns
  <1>5. Busy!Owns(late, i, Busy!Succ(i, p))
           = Busy!Succ(i, p).round + (IF Busy!Forced(late, i) THEN 1 ELSE 0)
    BY <1>2 DEF Busy!Owns
  <1>6. Busy!Own(late, i, p) <=> p.slot = i + 1 \/ (p = Busy!First /\ Busy!Forced(late, i))
    BY DEF Busy!Own
  <1> QED BY <1>1, <1>2, <1>3, <1>4, <1>5, <1>6
-----------------------------------------------------------------------------
(* The rounds that are complete at node i, as all nodes before it see      *)
(* them.                                                                   *)
Base(i, p) == IF p.slot >= i \/ p.round = 0 THEN p.round ELSE p.round - 1

LEMMA BaseDown ==
    ASSUME NEW late \in BOOLEAN, NEW i \in Nat, Busy!Forced(late, i), NEW p \in Positions(i)
    PROVE  Base(i - 1, Busy!Down(late, i, p)) = Base(i, p)
  <1> DEFINE d == Busy!Down(late, i, p)
  <1>0. i > 0
    BY DEF Busy!Forced
  <1>1. p.round \in Nat /\ p.slot \in Nat /\ p.slot <= i + 1
        /\ (p = Busy!First <=> p.round = 0 /\ p.slot = 0)
    BY SamePosition DEF Positions
  <1>2. /\ p = Busy!First => d.round = p.round /\ d.slot = p.slot
        /\ p # Busy!First /\ p.slot = 0 => d.round = p.round - 1 /\ d.slot = i
        /\ p # Busy!First /\ p.slot # 0 => d.round = p.round /\ d.slot = p.slot - 1
    BY <1>0, <1>1, DownIs
  <1> HIDE DEF d
  <1>3. Base(i - 1, d) = Base(i, p)
    BY <1>0, <1>1, <1>2 DEF Base
  <1> QED BY <1>3 DEF d

(* What the sources that enter at node i have had lies in a window of two. *)
LEMMA Window ==
    ASSUME NEW late \in BOOLEAN, NEW back \in [Busy!Node -> Busy!Position],
           \A i \in Busy!Node : back[i].slot <= i + 1, NEW s \in Busy!Source
    PROVE  LET i == Busy!Entry(s)
               b == Base(i, back[i])
           IN  /\ i \in Busy!Node /\ Busy!HasHad(late, s, back) \in Nat /\ b \in Nat
               /\ i = 0 \/ Busy!Forced(late, i) => Busy!HasHad(late, s, back) \in b..(b + 2)
               /\ i = 0 => Busy!HasHad(late, s, back) <= b + 1
               /\ i > 0 /\ ~Busy!Forced(late, i) => Busy!HasHad(late, s, back) = back[i].round
  <1> DEFINE i == Busy!Entry(s)
             p == back[i]
             h == Busy!HasHad(late, s, back)
  <1>1. s \in Nat /\ s <= BusyN - 1 /\ i \in Nat /\ i \in Busy!Node /\ (s = 1 => i = 0)
    BY BusyPlaces DEF Busy!Source, Busy!Entry, Busy!Node
  <1>2. p \in Busy!Position /\ p.slot <= i + 1
    BY <1>1
  <1>3. p.round \in Nat /\ p.slot \in Nat /\ (p = Busy!First <=> p.round = 0 /\ p.slot = 0)
    BY <1>2, SamePosition
  <1>4. h = IF s = 1 THEN back[0].round + back[0].slot
            ELSE p.round + (IF p # Busy!First /\ Busy!Forced(late, i) THEN 1 ELSE 0)
    BY DEF Busy!HasHad, Busy!Owns
  <1>5. Busy!Forced(late, i) \in BOOLEAN /\ (Busy!Forced(late, i) => i > 0)
    BY DEF Busy!Forced
  <1>6. s = 1 => h = p.round + p.slot
    BY <1>1, <1>4
  <1>7. s # 1 => h = p.round + (IF p # Busy!First /\ Busy!Forced(late, i) THEN 1 ELSE 0)
    BY <1>4
  <1> HIDE DEF i, p, h
  <1>8. /\ h \in Nat /\ Base(i, p) \in Nat
        /\ i = 0 \/ Busy!Forced(late, i) => h \in Base(i, p)..(Base(i, p) + 2)
        /\ i = 0 => h <= Base(i, p) + 1
        /\ i > 0 /\ ~Busy!Forced(late, i) => h = p.round
    BY <1>1, <1>2, <1>3, <1>5, <1>6, <1>7 DEF Base
  <1> QED BY <1>1, <1>8 DEF i, p, h

(* All nodes up to m see the same complete rounds. *)
LEMMA SameBase ==
    ASSUME NEW late \in BOOLEAN, NEW back \in [Busy!Node -> Busy!Position],
           \A i \in Busy!Node : back[i].slot <= i + 1
                           /\ (i > 0 => back[i - 1] = Busy!Down(late, i, back[i])),
           NEW m \in Busy!Node, \A i \in 1..m : Busy!Forced(late, i), NEW k \in 0..m
    PROVE  Base(k, back[k]) = Base(m, back[m])
  <1> DEFINE T == {n \in 0..m : Base(m - n, back[m - n]) # Base(m, back[m])}
  <1>0. m \in Nat /\ m <= Busy!LastNode /\ k \in Nat
    BY BusyPlaces
  <1>1. SUFFICES ASSUME T # {} PROVE FALSE
    <2>1. m - k \in 0..m /\ m - (m - k) = k
      BY <1>0
    <2> HIDE DEF T
    <2>2. m - k \notin T
      BY <1>1
    <2> QED BY <2>1, <2>2 DEF T
  <1>2. T \in SUBSET Nat
    BY <1>0
  <1>3. PICK n \in T : \A y \in T : n <= y
    BY <1>1, <1>2, Least
  <1>4. n \in 0..m /\ n # 0
    BY <1>0, <1>3
  <1>5. n - 1 \in 0..m /\ n - 1 \notin T
    BY <1>0, <1>3, <1>4
  <1> DEFINE i == m - (n - 1)
  <1>6. i \in Nat /\ i \in 1..m /\ i > 0 /\ i \in Busy!Node /\ i - 1 = m - n
    BY <1>0, <1>4, BusyPlaces DEF Busy!Node, Busy!LastNode
  <1>7. Base(i, back[i]) = Base(m, back[m])
    BY <1>5
  <1> HIDE DEF i
  <1>8. back[i] \in Positions(i)
    BY <1>6 DEF Positions
  <1>9. back[i - 1] = Busy!Down(late, i, back[i])
    BY <1>6
  <1>10. Base(i - 1, back[i - 1]) = Base(i, back[i])
    BY <1>6, <1>8, <1>9, BaseDown
  <1> QED BY <1>3, <1>6, <1>7, <1>10

(* No source has had more than two transactions more than another. *)
LEMMA WithinTwo ==
    ASSUME NEW late \in BOOLEAN, NEW back \in [Busy!Node -> Busy!Position],
           \A i \in Busy!Node : back[i].slot <= i + 1
                           /\ (i > 0 => back[i - 1] = Busy!Down(late, i, back[i])),
           NEW s \in Busy!Source, NEW t \in Busy!Source
    PROVE  Busy!HasHad(late, s, back) <= Busy!HasHad(late, t, back) + 2
  <1> DEFINE L == Busy!LastNode
             has(u) == Busy!HasHad(late, u, back)
             base(i) == Base(i, back[i])
  <1>1. L \in Nat /\ L \in Busy!Node /\ (L > 0 => L - 1 \in Busy!Node)
    BY BusyPlaces
  <1>2. \A u \in Busy!Source :
           /\ Busy!Entry(u) \in Busy!Node /\ has(u) \in Nat /\ base(Busy!Entry(u)) \in Nat
           /\ Busy!Entry(u) = 0 \/ Busy!Forced(late, Busy!Entry(u))
                 => has(u) \in base(Busy!Entry(u))..(base(Busy!Entry(u)) + 2)
           /\ Busy!Entry(u) = 0 => has(u) <= base(Busy!Entry(u)) + 1
           /\ Busy!Entry(u) > 0 /\ ~Busy!Forced(late, Busy!Entry(u))
                 => has(u) = back[Busy!Entry(u)].round
    BY Window
  <1>3. \A i \in Busy!Node : Busy!Forced(late, i) <=> i > 0 /\ ~(late /\ i = L)
    BY DEF Busy!Forced
  <1>4. \A u \in Busy!Source : Busy!Entry(u) \in Nat /\ Busy!Entry(u) <= L
    BY <1>2, BusyPlaces
  <1> HIDE DEF has
  <1>5. CASE ~late \/ L = 0
    <2>1. \A i \in 1..L : i \in Busy!Node /\ Busy!Forced(late, i)
      BY <1>1, <1>3, <1>5 DEF Busy!Node, Busy!LastNode
    <2>2. \A k \in 0..L : base(k) = base(L)
      BY <1>1, <2>1, SameBase
    <2> HIDE DEF base
    <2>3. \A u \in Busy!Source : has(u) \in base(L)..(base(L) + 2) /\ base(L) \in Nat
      <3> SUFFICES ASSUME NEW u \in Busy!Source
                   PROVE has(u) \in base(L)..(base(L) + 2) /\ base(L) \in Nat
        OBVIOUS
      <3>1. Busy!Entry(u) \in 0..L /\ (Busy!Entry(u) = 0 \/ Busy!Entry(u) \in 1..L)
        BY <1>1, <1>4
      <3>2. base(Busy!Entry(u)) = base(L)
        BY <2>2, <3>1
      <3> QED BY <1>2, <2>1, <3>1, <3>2
    <2>4. has(s) \in base(L)..(base(L) + 2) /\ has(t) \in base(L)..(base(L) + 2)
             /\ base(L) \in Nat
      BY <2>3
    <2>5. has(s) <= has(t) + 2
      BY <2>4
    <2> QED BY <2>5 DEF has
  <1>6. CASE late /\ L > 0
    <2> DEFINE m == L - 1
               p == back[L]
    <2>1. m \in Nat /\ m \in Busy!Node /\ \A i \in 1..m : i \in Busy!Node /\ Busy!Forced(late, i)
      <3>1. m \in Nat /\ m \in Busy!Node
        BY <1>1, <1>6
      <3>2. ASSUME NEW i \in 1..m PROVE i \in Busy!Node /\ i > 0 /\ i # L
        BY <1>1, <1>6, <3>2 DEF Busy!Node, Busy!LastNode
      <3> QED BY <1>3, <3>1, <3>2
    <2>2. \A k \in 0..m : base(k) = base(m)
      BY <2>1, SameBase
    <2>3. p \in Positions(L) /\ ~Busy!Forced(late, L)
      BY <1>1, <1>3, <1>6 DEF Positions
    <2>4. /\ back[m] \in Positions(m)
          /\ p.slot = L + 1 => back[m].round = p.round + 1 /\ back[m].slot = 0
          /\ p.slot # L + 1 => back[m].round = p.round /\ back[m].slot = p.slot
      <3>1. back[m] = Busy!Down(late, L, p)
        BY <1>1, <1>6
      <3> HIDE DEF p, L
      <3>2. LET q == Busy!Down(late, L, p)
                early == p = Busy!First \/ ~Busy!Forced(late, L)
            IN  /\ q \in Positions(L - 1)
                /\ early /\ p.slot = L + 1 => q.round = p.round + 1 /\ q.slot = 0
                /\ early /\ p.slot # L + 1 => q.round = p.round /\ q.slot = p.slot
        BY <1>1, <1>6, <2>3, DownIs
      <3> QED BY <2>3, <3>1, <3>2
    <2>5. p.round \in Nat /\ p.slot \in Nat
      BY <2>3, SamePosition DEF Positions
    (* The last node begins in turn: its source is at most one behind the  *)
    (* rounds the others see, and that only if there are three sources.    *)
    <2>6. /\ p.round <= base(m) + 1
          /\ p.round >= base(m) \/ (m = 0 /\ p.round + 1 >= base(m))
          /\ base(m) \in Nat
      BY <1>1, <1>6, <2>1, <2>4, <2>5 DEF Base
    <2>7. \A u \in Busy!Source : \/ has(u) = p.round
                                 \/ /\ has(u) \in base(m)..(base(m) + 2)
                                    /\ m = 0 => has(u) <= base(m) + 1
      <3> SUFFICES ASSUME NEW u \in Busy!Source
                   PROVE  \/ has(u) = p.round
                          \/ has(u) \in base(m)..(base(m) + 2) /\ (m = 0 => has(u) <= base(m) + 1)
        OBVIOUS
      <3>1. CASE Busy!Entry(u) = L
        BY <1>1, <1>2, <1>6, <2>3, <3>1
      <3>2. CASE Busy!Entry(u) # L
        <4>1. Busy!Entry(u) \in 0..m /\ (Busy!Entry(u) = 0 \/ Busy!Entry(u) \in 1..m)
          BY <1>1, <1>4, <3>2
        <4>2. base(Busy!Entry(u)) = base(m)
          BY <2>2, <4>1
        <4>3. m = 0 => Busy!Entry(u) = 0
          BY <4>1
        <4>4. Busy!Entry(u) = 0 \/ Busy!Forced(late, Busy!Entry(u))
          BY <2>1, <4>1
        <4> HIDE DEF base, m
        <4>5. /\ has(u) \in base(Busy!Entry(u))..(base(Busy!Entry(u)) + 2)
              /\ Busy!Entry(u) = 0 => has(u) <= base(Busy!Entry(u)) + 1
          BY <1>2, <4>4
        <4> QED BY <4>2, <4>3, <4>5
      <3> QED BY <3>1, <3>2
    <2> HIDE DEF base, m, p
    <2>8. has(s) <= has(t) + 2
      BY <1>2, <2>5, <2>6, <2>7 DEF p
    <2> QED BY <2>8 DEF has
  <1> QED BY <1>1, <1>5, <1>6

(* The schedule is fair. *)
LEMMA SharedIsFair ==
    ASSUME NEW late \in BOOLEAN, NEW at,
           NEW back \in [Busy!Node -> Busy!Position], Busy!Shared(late, at, back)
    PROVE  Busy!FairShare
  <1>1. PICK t \in Busy!Source : share[t] = 0
    BY DEF Busy!Shared
  <1>2. PICK least \in Nat : \A s \in Busy!Source : Busy!HasHad(late, s, back) = share[s] + least
    BY DEF Busy!Shared
  <1>3. \A i \in Busy!Node : back[i].slot <= i + 1
                             /\ (i > 0 => back[i - 1] = Busy!Down(late, i, back[i]))
    BY DEF Busy!Shared
  <1>4. \A s \in Busy!Source : Busy!HasHad(late, s, back) <= Busy!HasHad(late, t, back) + 2
    BY <1>1, <1>3, WithinTwo
  <1>5. \A s \in Busy!Source : share[s] \in Nat
    BY DEF Busy!Shared
  <1> QED BY <1>1, <1>2, <1>4, <1>5 DEF Busy!FairShare
-----------------------------------------------------------------------------
(* A transaction of the source that enters at node i, *)
LEMMA IsOfEntry ==
    ASSUME NEW late \in BOOLEAN, NEW i \in Busy!Node, NEW p \in Busy!Position,
           NEW s \in Busy!Source,
           Busy!Entry(s) = i, Busy!Own(late, i, p) <=> s # 1
    PROVE  Busy!IsOf(late, i, p, s)
  <1> DEFINE way == [l \in 0..i |-> p]
  <1>1. i \in Nat
    BY BusyPlaces
  <1>2. way \in [0..i -> Busy!Position] /\ way[i] = p
    BY <1>1
  <1>3. (Busy!Entry(s) + 1)..i = {}
    BY <1>1
  <1> HIDE DEF way
  <1> QED BY <1>1, <1>2, <1>3 DEF Busy!IsOf

(* and one that comes from the node before. *)
LEMMA IsOfNext ==
    ASSUME NEW late \in BOOLEAN, NEW i \in Busy!Node, i > 0, NEW p \in Busy!Position, NEW s,
           ~Busy!Own(late, i, p), Busy!IsOf(late, i - 1, Busy!Down(late, i, p), s)
    PROVE  Busy!IsOf(late, i, p, s)
  <1> DEFINE e == Busy!Entry(s)
  <1>1. i \in Nat /\ s \in Busy!Source /\ e \in Nat /\ e <= i - 1
    BY BusyPlaces DEF Busy!IsOf, Busy!Entry, Busy!Source
  <1>2. PICK before \in [0..(i - 1) -> Busy!Position] :
          /\ before[i - 1] = Busy!Down(late, i, p)
          /\ \A l \in (e + 1)..(i - 1) :
                ~Busy!Own(late, l, before[l]) /\ before[l - 1] = Busy!Down(late, l, before[l])
          /\ Busy!Own(late, e, before[e]) <=> s # 1
    BY DEF Busy!IsOf
  <1> DEFINE way == [l \in 0..i |-> IF l = i THEN p ELSE before[l]]
  <1> HIDE DEF e
  <1>3. /\ way \in [0..i -> Busy!Position] /\ way[i] = p /\ way[e] = before[e]
        /\ \A l \in 0..(i - 1) : way[l] = before[l]
    BY <1>1
  <1> HIDE DEF way
  <1>4. ASSUME NEW l \in (e + 1)..i
        PROVE  ~Busy!Own(late, l, way[l]) /\ way[l - 1] = Busy!Down(late, l, way[l])
    <2>1. CASE l = i
      BY <1>1, <1>2, <1>3, <2>1
    <2>2. CASE l # i
      <3>1. l \in (e + 1)..(i - 1) /\ l \in 0..(i - 1) /\ l - 1 \in 0..(i - 1)
        BY <1>1, <2>2
      <3> QED BY <1>2, <1>3, <3>1
    <2> QED BY <2>1, <2>2
  <1>5. e <= i /\ (Busy!Own(late, e, way[e]) <=> s # 1)
    BY <1>1, <1>2, <1>3
  <1> QED BY <1>1, <1>3, <1>4, <1>5 DEF Busy!IsOf, e

(* A clock edge of a register FIFO moves reader and writer along. *)
LEMMA CarriesStep ==
    ASSUME NEW S, NEW f, RegistersAgree(f, S), NEW late, NEW i, NEW p, NEW w,
           Busy!Carries(late, i, f, p, w),
           NEW wr \in BOOLEAN, NEW rd \in BOOLEAN, NEW x,
           wr => ~f.full /\ Busy!IsOf(late, i, w, x.source), rd => ~f.empty,
           NEW e, RegisterEdge(f, e, wr, x, rd)
    PROVE  Busy!Carries(late, i, e, IF rd THEN Busy!PositionAfter(i, p, f.output_data) ELSE p,
                               IF wr THEN Busy!PositionAfter(i, w, x) ELSE w)
  <1>1. /\ f.full \in BOOLEAN /\ f.overflow \in BOOLEAN /\ f.empty \in BOOLEAN
        /\ f.internal_empty = f.empty /\ f.full = f.overflow
        /\ f.overflow => ~f.empty
    BY DEF RegistersAgree
  <1>2. /\ e.overflow = ((wr /\ ~rd /\ ~f.empty) \/ (f.overflow /\ ~rd))
        /\ e.empty = (~wr /\ ((rd /\ ~f.overflow) \/ f.empty))
        /\ e.output_data = IF wr /\ (rd \/ f.empty) THEN x
                           ELSE IF rd /\ f.overflow THEN f.overflow_data
                           ELSE f.output_data
        /\ e.overflow_data = IF wr THEN x ELSE f.overflow_data
    BY <1>1 DEF RegisterEdge
  <1>3. CASE rd /\ wr
    BY <1>1, <1>2, <1>3 DEF Busy!Carries
  <1>4. CASE rd /\ ~wr
    BY <1>1, <1>2, <1>4 DEF Busy!Carries
  <1>5. CASE ~rd /\ wr
    BY <1>1, <1>2, <1>5 DEF Busy!Carries
  <1>6. CASE ~rd /\ ~wr
    BY <1>1, <1>2, <1>6 DEF Busy!Carries
  <1> QED BY <1>3, <1>4, <1>5, <1>6

(* Followed back from the destination, a transaction is where its source   *)
(* says.                                                                   *)
LEMMA FollowedBack ==
    ASSUME NEW late \in BOOLEAN, NEW back \in [Busy!Node -> Busy!Position],
           \A i \in Busy!Node : i > 0 => back[i - 1] = Busy!Down(late, i, back[i]),
           NEW s, Busy!IsOf(late, Busy!LastNode, back[Busy!LastNode], s)
    PROVE  /\ \A l \in Busy!Node : l > Busy!Entry(s) => ~Busy!Own(late, l, back[l])
           /\ Busy!Own(late, Busy!Entry(s), back[Busy!Entry(s)]) <=> s # 1
  <1> DEFINE L == Busy!LastNode
             e == Busy!Entry(s)
  <1>1. L \in Nat /\ s \in Busy!Source /\ e \in Nat /\ e <= L /\ Busy!Node = 0..L
    BY BusyPlaces DEF Busy!IsOf, Busy!Entry, Busy!Source, Busy!Node, Busy!LastNode
  <1>2. PICK way \in [0..L -> Busy!Position] :
          /\ way[L] = back[L]
          /\ \A l \in (e + 1)..L :
                ~Busy!Own(late, l, way[l]) /\ way[l - 1] = Busy!Down(late, l, way[l])
          /\ Busy!Own(late, e, way[e]) <=> s # 1
    BY DEF Busy!IsOf
  <1> DEFINE T == {n \in 0..(L - e) : way[L - n] # back[L - n]}
  <1> HIDE DEF e, L
  <1>3. T = {}
    <2> SUFFICES ASSUME T # {} PROVE FALSE
      OBVIOUS
    <2>1. T \in SUBSET Nat
      BY <1>1
    <2>2. PICK n \in T : \A y \in T : n <= y
      BY <2>1, Least
    <2>3. n \in 0..(L - e) /\ n # 0 /\ way[L - n] # back[L - n]
      BY <1>1, <1>2, <2>2
    <2>4. n - 1 \in 0..(L - e) /\ n - 1 \notin T
      <3>1. n - 1 \in 0..(L - e) /\ ~(n <= n - 1)
        BY <1>1, <2>3
      <3> HIDE DEF T
      <3> QED BY <2>2, <3>1
    <2> DEFINE l == L - (n - 1)
    <2>5. l \in (e + 1)..L /\ l - 1 = L - n /\ l \in Busy!Node /\ l > 0
      BY <1>1, <2>3
    <2>6. way[l] = back[l]
      BY <2>4
    <2> HIDE DEF l, T
    <2>7. way[l - 1] = back[l - 1]
      BY <1>2, <2>5, <2>6
    <2> QED BY <2>3, <2>5, <2>7
  <1>4. \A l \in e..L : way[l] = back[l]
    <2> SUFFICES ASSUME NEW l \in e..L PROVE way[l] = back[l]
      OBVIOUS
    <2>1. L - l \in 0..(L - e) /\ L - (L - l) = l
      BY <1>1
    <2>2. L - l \notin T
      BY <1>3
    <2> QED BY <2>1, <2>2
  <1> HIDE DEF T
  <1>5. ASSUME NEW l \in Busy!Node, l > e PROVE ~Busy!Own(late, l, back[l])
    <2>1. l \in (e + 1)..L /\ l \in e..L
      BY <1>1, <1>5
    <2> QED BY <1>2, <1>4, <2>1
  <1>6. e \in e..L
    BY <1>1
  <1>7. Busy!Own(late, e, back[e]) <=> s # 1
    BY <1>2, <1>4, <1>6
  <1> QED BY <1>5, <1>7 DEF e
-----------------------------------------------------------------------------
(* Levelled shares differ as the shares do, and the smallest is zero. *)
LEMMA LevelledIs ==
    ASSUME NEW f \in [Busy!Source -> Nat]
    PROVE  /\ Busy!Levelled(f) \in [Busy!Source -> Nat]
           /\ \E s \in Busy!Source : Busy!Levelled(f)[s] = 0
           /\ \E least \in Nat : \A s \in Busy!Source : f[s] = Busy!Levelled(f)[s] + least
  <1> DEFINE T == {f[t] : t \in Busy!Source}
             m == Busy!Min(T)
  <1>1. T \in SUBSET Nat /\ f[0] \in T /\ 0 \in Busy!Source
    BY BusyPlaces DEF Busy!Source
  <1>2. m \in T /\ \A y \in T : m <= y
    <2>1. \E x \in T : \A y \in T : x <= y
      BY <1>1, Least
    <2> HIDE DEF T
    <2>2. m = CHOOSE x \in T : \A y \in T : x <= y
      BY DEF Busy!Min
    <2> HIDE DEF m
    <2> QED BY <2>1, <2>2
  <1>3. Busy!Levelled(f) = [s \in Busy!Source |-> f[s] - m]
    BY DEF Busy!Levelled
  <1> HIDE DEF m
  <1>4. m \in Nat /\ \A s \in Busy!Source : f[s] \in Nat /\ m <= f[s]
    BY <1>1, <1>2
  <1>5. PICK t \in Busy!Source : f[t] = m
    BY <1>2
  <1> HIDE DEF T
  <1>6. \A s \in Busy!Source : Busy!Levelled(f)[s] \in Nat /\ f[s] = Busy!Levelled(f)[s] + m
    BY <1>3, <1>4
  <1>7. Busy!Levelled(f)[t] = 0
    BY <1>3, <1>4, <1>5
  <1> QED BY <1>3, <1>4, <1>6, <1>7

(* A transaction of source s that begins at the destination: the nodes it  *)
(* has passed are one further, and source s alone has had one more.        *)
BackAfter(s, back) ==
    [i \in Busy!Node |-> IF i >= Busy!Entry(s) THEN Busy!Succ(i, back[i]) ELSE back[i]]

LEMMA BackStep ==
    ASSUME NEW late \in BOOLEAN, NEW back \in [Busy!Node -> Busy!Position],
           \A i \in Busy!Node : back[i].slot <= i + 1
                           /\ (i > 0 => back[i - 1] = Busy!Down(late, i, back[i])),
           NEW s, Busy!IsOf(late, Busy!LastNode, back[Busy!LastNode], s)
    PROVE  LET b == BackAfter(s, back)
           IN  /\ s \in Busy!Source /\ b \in [Busy!Node -> Busy!Position]
               /\ b[Busy!LastNode] = Busy!Succ(Busy!LastNode, back[Busy!LastNode])
               /\ \A i \in Busy!Node : b[i].slot <= i + 1
                                  /\ (i > 0 => b[i - 1] = Busy!Down(late, i, b[i]))
               /\ \A t \in Busy!Source : Busy!HasHad(late, t, b)
                     = Busy!HasHad(late, t, back) + (IF t = s THEN 1 ELSE 0)
  <1> DEFINE e == Busy!Entry(s)
             b == BackAfter(s, back)
  <1>1. /\ s \in Busy!Source /\ e \in Nat /\ e <= Busy!LastNode /\ e \in Busy!Node
        /\ Busy!LastNode \in Busy!Node /\ Busy!LastNode \in Nat
    BY BusyPlaces DEF Busy!IsOf, Busy!Entry, Busy!Source, Busy!Node
  <1>2. /\ \A l \in Busy!Node : l > e => ~Busy!Own(late, l, back[l])
        /\ Busy!Own(late, e, back[e]) <=> s # 1
    BY FollowedBack
  <1>3. \A i \in Busy!Node : /\ i \in Nat /\ back[i] \in Positions(i)
                             /\ Busy!Succ(i, back[i]) \in Positions(i)
    BY BusyPlaces, SuccIs DEF Positions
  <1>4. \A i \in Busy!Node : b[i] = IF i >= e THEN Busy!Succ(i, back[i]) ELSE back[i]
    BY DEF BackAfter
  <1>5. b \in [Busy!Node -> Busy!Position] /\ \A i \in Busy!Node : b[i] \in Positions(i)
    BY <1>3, <1>4 DEF BackAfter, Positions
  <1> HIDE DEF b
  <1>6. b[Busy!LastNode] = Busy!Succ(Busy!LastNode, back[Busy!LastNode])
    BY <1>1, <1>4
  <1>7. ASSUME NEW i \in Busy!Node, i > 0 PROVE b[i - 1] = Busy!Down(late, i, b[i])
    <2>1. i \in Nat /\ i - 1 \in Busy!Node /\ back[i] \in Positions(i)
      BY <1>3, <1>7, BusyPlaces
    <2>2. back[i - 1] = Busy!Down(late, i, back[i])
      BY <1>7
    <2>3. Busy!Down(late, i, Busy!Succ(i, back[i])) =
              IF Busy!Own(late, i, back[i]) THEN Busy!Down(late, i, back[i])
              ELSE Busy!Succ(i - 1, Busy!Down(late, i, back[i]))
      BY <1>7, <2>1, DownSucc
    <2>4. CASE i < e
      <3>1. b[i] = back[i] /\ b[i - 1] = back[i - 1]
        BY <1>1, <1>4, <2>1, <2>4
      <3> QED BY <2>2, <3>1
    <2>5. CASE i = e
      <3>1. b[i] = Busy!Succ(i, back[i]) /\ b[i - 1] = back[i - 1]
        BY <1>1, <1>4, <2>1, <2>5
      <3>2. s # 1
        BY <1>7, <2>5 DEF Busy!Entry
      <3> QED BY <1>2, <2>2, <2>3, <2>5, <3>1, <3>2
    <2>6. CASE i > e
      <3>1. b[i] = Busy!Succ(i, back[i]) /\ b[i - 1] = Busy!Succ(i - 1, back[i - 1])
        BY <1>1, <1>4, <2>1, <2>6
      <3> QED BY <1>2, <2>2, <2>3, <2>6, <3>1
    <2> QED BY <1>1, <2>1, <2>4, <2>5, <2>6
  <1>8. ASSUME NEW t \in Busy!Source
        PROVE  Busy!HasHad(late, t, b) = Busy!HasHad(late, t, back) + (IF t = s THEN 1 ELSE 0)
    <2> DEFINE k == Busy!Entry(t)
    <2>1. /\ t \in Nat /\ s \in Nat /\ k \in Nat /\ k \in Busy!Node /\ 0 \in Busy!Node
          /\ (t = 1 => k = 0) /\ (k = e => t = s \/ (e = 0 /\ t \in {0, 1} /\ s \in {0, 1}))
          /\ (t = s => k = e)
      BY <1>1, BusyPlaces DEF Busy!Entry, Busy!Source, Busy!Node
    <2>2. /\ Busy!Owns(late, k, back[k]) \in Nat
          /\ Busy!Owns(late, k, Busy!Succ(k, back[k]))
                = Busy!Owns(late, k, back[k]) + (IF Busy!Own(late, k, back[k]) THEN 1 ELSE 0)
      BY <1>3, <2>1, OwnsSucc
    <2>3. t # 1 => /\ Busy!HasHad(late, t, b) = Busy!Owns(late, k, b[k])
                   /\ Busy!HasHad(late, t, back) = Busy!Owns(late, k, back[k])
      BY DEF Busy!HasHad
    <2>4. t = 1 => /\ Busy!HasHad(late, t, b) = b[0].round + b[0].slot
                   /\ Busy!HasHad(late, t, back) = back[0].round + back[0].slot
      BY DEF Busy!HasHad
    <2>5. LET q == Busy!Succ(0, back[0])
              p == back[0]
          IN  /\ p.round \in Nat /\ p.slot \in Nat
              /\ q.round = IF p.slot = 0 + 1 THEN p.round + 1 ELSE p.round
              /\ q.slot = IF p.slot = 0 + 1 THEN 0 ELSE p.slot + 1
              /\ Busy!Own(late, 0, p) <=> p.slot = 1
      <3>1. back[0] \in Positions(0)
        BY <1>3, <2>1
      <3>2. Busy!Own(late, 0, back[0]) <=> back[0].slot = 1
        BY DEF Busy!Own, Busy!Forced
      <3>3. back[0].round \in Nat /\ back[0].slot \in Nat
        BY <3>1, SamePosition DEF Positions
      <3> QED BY <3>1, <3>2, <3>3, SuccIs
    <2> HIDE DEF k, e
    <2>6. CASE k < e
      <3>1. b[k] = back[k] /\ t # s
        BY <1>1, <1>4, <2>1, <2>6
      <3> QED BY <2>1, <2>2, <2>3, <2>4, <2>5, <3>1
    <2>7. CASE k > e
      <3>1. b[k] = Busy!Succ(k, back[k]) /\ t # s /\ t # 1 /\ ~Busy!Own(late, k, back[k])
        BY <1>1, <1>2, <1>4, <2>1, <2>7
      <3> QED BY <2>2, <2>3, <3>1
    <2>8. CASE k = e
      <3>1. b[k] = Busy!Succ(k, back[k]) /\ (Busy!Own(late, k, back[k]) <=> s # 1)
        BY <1>1, <1>2, <1>4, <2>1, <2>8
      <3>2. CASE t # 1
        <4>1. Busy!Own(late, k, back[k]) <=> t = s
          BY <2>1, <2>8, <3>1, <3>2
        <4> QED BY <2>2, <2>3, <3>1, <3>2, <4>1
      <3>3. CASE t = 1
        <4>1. k = 0 /\ b[0] = Busy!Succ(0, back[0]) /\ (back[0].slot = 1 <=> s # 1)
          BY <2>1, <2>5, <3>1, <3>3
        <4>2. CASE s = 1
          BY <2>4, <2>5, <3>3, <4>1, <4>2
        <4>3. CASE s # 1
          BY <2>4, <2>5, <3>3, <4>1, <4>3
        <4> QED BY <4>2, <4>3
      <3> QED BY <3>2, <3>3
    <2> QED BY <1>1, <2>1, <2>6, <2>7, <2>8
  <1>9. \A i \in Busy!Node : b[i].slot <= i + 1
    BY <1>5 DEF Positions
  <1> QED BY <1>1, <1>5, <1>6, <1>7, <1>8, <1>9 DEF b

(* What has been begun at the destination, at a clock edge. *)
LEMMA SharedStep ==
    ASSUME NEW late \in BOOLEAN, NEW at \in [Busy!Node -> Busy!Position],
           NEW back \in [Busy!Node -> Busy!Position],
           Busy!Shared(late, at, back), NEW full_in \in BOOLEAN, Busy!CountShares(full_in),
           NEW next,
           next[Busy!LastNode] = IF Busy!wren_out(Busy!LastNode, full_in)
                            THEN Busy!PositionAfter(Busy!LastNode, at[Busy!LastNode],
                                  Busy!data_out(Busy!LastNode))
                            ELSE at[Busy!LastNode],
           transaction_state_ff'[Busy!LastNode] = IF Busy!wren_out(Busy!LastNode, full_in)
                                             THEN Busy!transaction_state_next(Busy!LastNode)
                                             ELSE transaction_state_ff[Busy!LastNode],
           Busy!wren_out(Busy!LastNode, full_in) =>
              /\ Busy!selected_input(Busy!LastNode) \in Busy!Port
              /\ Busy!IsOf(late, Busy!LastNode, at[Busy!LastNode],
                       Busy!data_out(Busy!LastNode).source)
    PROVE  \E b \in [Busy!Node -> Busy!Position] : Busy!Shared(late, next, b)'
  <1> DEFINE L == Busy!LastNode
             x == Busy!data_out(L)
             wren == Busy!wren_out(L, full_in)
             t == transaction_state_ff[L]
             tn == transaction_state_ff'[L]
  <1>1. /\ back[L] = IF t = 0 THEN at[L] ELSE Busy!Succ(L, at[L])
        /\ \A i \in Busy!Node : back[i].slot <= i + 1
                           /\ (i > 0 => back[i - 1] = Busy!Down(late, i, back[i]))
        /\ share \in [Busy!Source -> Nat] /\ \E s \in Busy!Source : share[s] = 0
    BY DEF Busy!Shared, Busy!Begun, Busy!TS_NO_TRANSACTION
  <1>2. PICK least \in Nat : \A s \in Busy!Source : Busy!HasHad(late, s, back) = share[s] + least
    BY DEF Busy!Shared
  <1>3. wren => tn = IF x.last THEN 0 ELSE 1 + Busy!selected_input(L)
    BY DEF Busy!transaction_state_next, Busy!TS_NO_TRANSACTION, Busy!TS_TRANSACTION_PORT
  <1>4. wren => Busy!selected_input(L) \in {0, 1}
    BY DEF Busy!Port
  <1>5. Busy!Begun(next)' = IF tn = 0 THEN next[L] ELSE Busy!Succ(L, next[L])
    BY DEF Busy!Begun, Busy!TS_NO_TRANSACTION, Busy!Succ
  <1>6. wren => next[L] = IF x.last THEN Busy!Succ(L, at[L]) ELSE at[L]
    BY DEF Busy!PositionAfter
  <1>7. wren => Busy!Begun(next)' = Busy!Succ(L, at[L])
    BY <1>3, <1>4, <1>5, <1>6
  <1>8. CASE Busy!Begins(L, full_in)
    <2> DEFINE s == x.source
               f == [share EXCEPT ![s] = @ + 1]
    <2>1. wren /\ t = 0 /\ back[L] = at[L]
      BY <1>1, <1>8 DEF Busy!Begins, Busy!TS_NO_TRANSACTION
    <2>2. Busy!IsOf(late, L, back[L], s)
      BY <2>1
    <2>3. PICK b : b = BackAfter(s, back)
      OBVIOUS
    <2>4. /\ s \in Busy!Source /\ b \in [Busy!Node -> Busy!Position]
          /\ b[L] = Busy!Succ(L, back[L])
          /\ \A i \in Busy!Node : b[i].slot <= i + 1
                             /\ (i > 0 => b[i - 1] = Busy!Down(late, i, b[i]))
          /\ \A u \in Busy!Source : Busy!HasHad(late, u, b)
                = Busy!HasHad(late, u, back) + (IF u = s THEN 1 ELSE 0)
      BY <1>1, <2>2, <2>3, BackStep
    <2>5. share' = Busy!Levelled(f)
      BY <1>8 DEF Busy!CountShares
    <2>6. /\ f \in [Busy!Source -> Nat]
          /\ \A u \in Busy!Source : f[u] = share[u] + (IF u = s THEN 1 ELSE 0)
      BY <1>1, <2>4
    <2> HIDE DEF f, s
    <2>7. /\ share' \in [Busy!Source -> Nat] /\ \E u \in Busy!Source : share'[u] = 0
          /\ \E more \in Nat : \A u \in Busy!Source : f[u] = share'[u] + more
      BY <2>5, <2>6, LevelledIs
    <2>8. PICK more \in Nat : \A u \in Busy!Source : f[u] = share'[u] + more
      BY <2>7
    <2>9. \A u \in Busy!Source : share[u] \in Nat /\ share'[u] \in Nat
      BY <1>1, <2>7
    <2>10. \A u \in Busy!Source : Busy!HasHad(late, u, b) = share'[u] + (least + more)
      <3> SUFFICES ASSUME NEW u \in Busy!Source
                   PROVE  Busy!HasHad(late, u, b) = share'[u] + (least + more)
        OBVIOUS
      <3> DEFINE one == IF u = s THEN 1 ELSE 0
      <3>1. Busy!HasHad(late, u, b) = Busy!HasHad(late, u, back) + one
        BY <2>4
      <3>2. Busy!HasHad(late, u, back) = share[u] + least
        BY <1>2
      <3>3. share[u] + one = share'[u] + more
        BY <2>6, <2>8
      <3>4. one \in Nat /\ share[u] \in Nat /\ share'[u] \in Nat
        BY <2>9
      <3> HIDE DEF one
      <3> QED BY <3>1, <3>2, <3>3, <3>4
    <2>11. b[L] = Busy!Begun(next)'
      BY <1>7, <2>1, <2>4
    <2>12. least + more \in Nat
      BY <2>8
    <2>13. \E n \in Nat : \A u \in Busy!Source : Busy!HasHad(late, u, b) = share'[u] + n
      BY <2>10, <2>12
    <2>14. Busy!Shared(late, next, b)'
      BY <2>4, <2>7, <2>11, <2>13 DEF Busy!Shared, Busy!Source, Busy!Node, Busy!LastNode,
          Busy!Down, Busy!HasHad
    <2> QED BY <2>4, <2>14
  <1>9. CASE ~Busy!Begins(L, full_in)
    <2>1. share' = share
      BY <1>9 DEF Busy!CountShares
    <2>2. wren => t # 0
      BY <1>9 DEF Busy!Begins, Busy!TS_NO_TRANSACTION
    <2>3. back[L] = Busy!Begun(next)'
      BY <1>1, <1>5, <1>7, <2>2
    <2>4. Busy!Shared(late, next, back)'
      BY <1>1, <1>2, <2>1, <2>3 DEF Busy!Shared
    <2> QED BY <2>4
  <1> QED BY <1>8, <1>9
-----------------------------------------------------------------------------
(* At a clock edge every node that is not held up moves an item, and it    *)
(* does so in turn.                                                        *)
InTurn(late, at, i, full_in) ==
    /\ Busy!wren_out(i, full_in) <=> ~Busy!NodeFull(i, full_in)
    /\ Busy!wren_out(i, full_in) =>
          /\ Busy!selected_input(i) \in Busy!Port
                /\ Busy!data_in(i, Busy!selected_input(i)) # NoItem
          /\ Busy!selected_input(i) = 0 <=> Busy!Own(late, i, at[i])
    /\ Busy!Forced(late, i) /\ at[i] = Busy!First /\ ~Busy!wren_out(i, full_in)
          => transaction_state_ff[i] = Busy!TS_TRANSACTION_PORT(0)

(* The first edge with something to show, *)
LEMMA FreshTurn ==
    ASSUME Busy!Fresh, \A s \in Busy!Source : head[s] # NoItem, NEW i \in Busy!Node,
           NEW full_in \in BOOLEAN,
           NEW at, at[i] = Busy!First, Busy!ItemsShown
    PROVE  InTurn(full_in, at, i, full_in)
  <1>1. /\ priority_ff[i] = 0 /\ transaction_state_ff[i] = Busy!TS_NO_TRANSACTION
        /\ i \in Nat /\ i <= Busy!LastNode /\ Busy!LastNode \in Nat
        /\ (i # Busy!LastNode => i \in Busy!Node \ {Busy!LastNode})
        /\ (i > 0 => i - 1 \in Busy!Node \ {Busy!LastNode})
    BY BusyPlaces DEF Busy!Fresh
  <1>2. i # Busy!LastNode => ~Busy!NodeFull(i, full_in)
    BY <1>1 DEF Busy!Fresh, Busy!ItemsShown, Busy!NodeFull
  <1>3. Busy!data_in(i, 0) # NoItem
    <2>1. Busy!PortSource(i, 0) \in Busy!Source /\ ~Busy!IsChained(i, 0)
      BY <1>1, BusyPlaces DEF Busy!PortSource, Busy!Source, Busy!IsChained, Busy!LastNode
    <2> QED BY <2>1 DEF Busy!data_in
  <1>4. 0 \in Busy!Eligible(i) /\ Busy!Eligible(i) # {}
    BY <1>1, <1>3 DEF Busy!Eligible, Busy!Port
  <1>5. Busy!wren_out(i, full_in) <=> ~Busy!NodeFull(i, full_in)
    BY <1>4 DEF Busy!wren_out
  <1>6. Busy!First.slot = 0
    BY DEF Busy!First
  <1>7. CASE i = 0
    <2>1. Busy!data_in(0, 1) # NoItem
      BY BusyPlaces DEF Busy!PortSource, Busy!Source, Busy!IsChained, Busy!data_in
    <2>2. Busy!Eligible(0) = Busy!Port
      BY <1>1, <1>3, <1>7, <2>1 DEF Busy!Eligible, Busy!Port
    <2>3. Busy!Preferred(0) = 1
      BY <1>1, <1>7 DEF Busy!Preferred, Busy!THRESH
    <2>4. Busy!wren_out(0, full_in) => Busy!selected_input(0) = 1
      BY <1>7, <2>2, <2>3, Selected
    <2>5. ~Busy!Own(full_in, 0, at[0]) /\ ~Busy!Forced(full_in, 0)
      BY <1>6, <1>7 DEF Busy!Own, Busy!Forced
    <2> QED BY <1>5, <1>7, <2>1, <2>4, <2>5 DEF InTurn, Busy!Port
  <1>8. CASE i > 0
    <2>1. Busy!data_in(i, 1) = NoItem
      BY <1>1, <1>8 DEF Busy!Fresh, Busy!data_in, Busy!IsChained
    <2>2. Busy!wren_out(i, full_in) => Busy!selected_input(i) = 0
      <3> SUFFICES ASSUME Busy!wren_out(i, full_in) PROVE Busy!selected_input(i) = 0
        OBVIOUS
      <3>1. Busy!selected_input(i) \in Busy!Eligible(i) /\ Busy!selected_input(i) \in Busy!Port
        BY Selected
      <3>2. 1 \notin Busy!Eligible(i)
        BY <2>1 DEF Busy!Eligible
      <3> QED BY <3>1, <3>2 DEF Busy!Port
    <2>3. i = Busy!LastNode => Busy!NodeFull(i, full_in) = full_in
      BY DEF Busy!NodeFull
    <2>4. Busy!Forced(full_in, i) <=> ~(full_in /\ i = Busy!LastNode)
      BY <1>8 DEF Busy!Forced
    <2>5. Busy!wren_out(i, full_in) <=> Busy!Forced(full_in, i)
      BY <1>2, <1>5, <2>3, <2>4
    <2>6. Busy!Forced(full_in, i) => Busy!Own(full_in, i, at[i])
      BY DEF Busy!Own
    <2> QED BY <1>3, <1>5, <2>2, <2>5, <2>6 DEF InTurn, Busy!Port
  <1> QED BY <1>1, <1>7, <1>8

(* and the ones after it. *)
LEMMA RunningTurn ==
    ASSUME NEW late \in BOOLEAN,
           NEW at \in [Busy!Node -> Busy!Position], Busy!Scheduled(late, at),
           Busy!Running(late, at), \A s \in Busy!Source : head[s] # NoItem, Busy!ItemsShown,
           NEW i \in Busy!Node, NEW full_in \in BOOLEAN
    PROVE  InTurn(late, at, i, full_in)
  <1> DEFINE t == transaction_state_ff[i]
  <1>1. /\ i \in Nat /\ i <= Busy!LastNode /\ Busy!LastNode \in Nat
        /\ (i > 0 => i - 1 \in Busy!Node \ {Busy!LastNode})
    BY BusyPlaces
  <1>2. /\ at[i].slot = priority_ff[i] /\ t \in {0, 1, 2}
        /\ t = 1 => Busy!Own(late, i, at[i])
        /\ t = 2 => ~Busy!Own(late, i, at[i])
    <2>1. /\ at[i].slot = priority_ff[i]
          /\ t \in {Busy!TS_NO_TRANSACTION, Busy!TS_TRANSACTION_PORT(0),
                   Busy!TS_TRANSACTION_PORT(1)}
          /\ \A j \in Busy!Port : t = Busy!TS_TRANSACTION_PORT(j)
                => (Busy!Own(late, i, at[i]) <=> j = 0)
      BY DEF Busy!Scheduled
    <2> QED BY <2>1 DEF Busy!Port, Busy!TS_NO_TRANSACTION, Busy!TS_TRANSACTION_PORT
  <1>3. Busy!Forced(late, i) /\ at[i] = Busy!First => t = 1
    BY DEF Busy!Running, Busy!TS_TRANSACTION_PORT
  <1>4. Busy!data_in(i, 0) # NoItem
    <2>1. Busy!PortSource(i, 0) \in Busy!Source /\ ~Busy!IsChained(i, 0)
      BY <1>1, BusyPlaces DEF Busy!PortSource, Busy!Source, Busy!IsChained, Busy!LastNode
    <2> QED BY <2>1 DEF Busy!data_in
  <1>5. Busy!data_in(i, 1) # NoItem
    <2>1. CASE i = 0
      BY <2>1, BusyPlaces DEF Busy!PortSource, Busy!Source, Busy!IsChained, Busy!data_in
    <2>2. CASE i > 0
      <3>1. ~register_fifo[i - 1].empty
        BY <1>1, <2>2 DEF Busy!Running
      <3>2. register_fifo[i - 1].output_data \in Busy!Item
        BY <1>1, <2>2, <3>1 DEF Busy!ItemsShown
      <3> QED BY <2>2, <3>1, <3>2, NoItemIsNone DEF Busy!data_in, Busy!IsChained
    <2> QED BY <1>1, <2>1, <2>2
  <1>6. Busy!Eligible(i) = {j \in Busy!Port : t \in {0, 1 + j}}
    BY <1>4, <1>5 DEF Busy!Eligible, Busy!Port, Busy!TS_NO_TRANSACTION, Busy!TS_TRANSACTION_PORT
  <1>7. /\ t = 0 => Busy!Eligible(i) = Busy!Port
        /\ t = 1 => Busy!Eligible(i) = {0}
        /\ t = 2 => Busy!Eligible(i) = {1}
    BY <1>6 DEF Busy!Port
  <1>8. Busy!Eligible(i) # {}
    BY <1>2, <1>7 DEF Busy!Port
  <1>9. Busy!wren_out(i, full_in) <=> ~Busy!NodeFull(i, full_in)
    BY <1>8 DEF Busy!wren_out
  <1>10. Busy!Preferred(i) = IF at[i].slot = i + 1 THEN 0 ELSE 1
    BY <1>1, <1>2 DEF Busy!Preferred, Busy!THRESH
  <1>11. t = 0 => (Busy!Own(late, i, at[i]) <=> at[i].slot = i + 1)
    BY <1>3 DEF Busy!Own
  <1>12. Busy!wren_out(i, full_in) =>
          /\ Busy!selected_input(i) \in Busy!Port
                /\ Busy!data_in(i, Busy!selected_input(i)) # NoItem
          /\ Busy!selected_input(i) = 0 <=> Busy!Own(late, i, at[i])
    <2> SUFFICES ASSUME Busy!wren_out(i, full_in)
                 PROVE  /\ Busy!selected_input(i) \in Busy!Port
                              /\ Busy!data_in(i, Busy!selected_input(i)) # NoItem
                        /\ Busy!selected_input(i) = 0 <=> Busy!Own(late, i, at[i])
      OBVIOUS
    <2>1. /\ Busy!selected_input(i) \in Busy!Eligible(i)
          /\ Busy!selected_input(i) \in Busy!Port
          /\ Busy!Eligible(i) = Busy!Port => Busy!selected_input(i) = Busy!Preferred(i)
      BY Selected
    <2>2. Busy!data_in(i, Busy!selected_input(i)) # NoItem
      BY <2>1 DEF Busy!Eligible
    <2>3. Busy!selected_input(i) = 0 <=> Busy!Own(late, i, at[i])
      BY <1>2, <1>7, <1>10, <1>11, <2>1
    <2> QED BY <2>1, <2>2, <2>3
  <1> QED BY <1>3, <1>9, <1>12 DEF InTurn, Busy!TS_TRANSACTION_PORT

(* Every source shows an item of its own. *)
AllShow == \A s \in Busy!Source : head[s] \in Busy!Item /\ head[s].source = s

(* What a node sends in its turn is what its position says. *)
LEMMA Sent ==
    ASSUME NEW late \in BOOLEAN,
           NEW at \in [Busy!Node -> Busy!Position], Busy!Scheduled(late, at),
           Busy!ItemsShown, AllShow, NEW i \in Busy!Node, NEW full_in \in BOOLEAN,
           InTurn(late, at, i, full_in), Busy!wren_out(i, full_in)
    PROVE  /\ Busy!data_out(i) \in Busy!Item
           /\ Busy!IsOf(late, i, at[i], Busy!data_out(i).source)
           /\ Busy!selected_input(i) = 1 /\ i > 0
                => /\ ~register_fifo[i - 1].empty
                   /\ Busy!data_out(i) = register_fifo[i - 1].output_data
  <1> DEFINE j == Busy!selected_input(i)
             x == Busy!data_out(i)
  <1>1. /\ i \in Nat /\ i <= Busy!LastNode /\ Busy!LastNode \in Nat
        /\ (i > 0 => i - 1 \in Busy!Node \ {Busy!LastNode})
    BY BusyPlaces
  <1>2. /\ j \in {0, 1} /\ (j = 0 <=> Busy!Own(late, i, at[i]))
        /\ x = Busy!data_in(i, j) /\ x # NoItem
    BY DEF InTurn, Busy!Port, Busy!data_out
  <1> HIDE DEF j, x
  <1>3. CASE j = 0 \/ i = 0
    <2> DEFINE s == Busy!PortSource(i, j)
    <2>1. /\ s \in Busy!Source /\ ~Busy!IsChained(i, j) /\ Busy!Entry(s) = i
          /\ (j = 0 <=> s # 1)
      BY <1>1, <1>2, <1>3, BusyPlaces DEF Busy!PortSource, Busy!Source, Busy!IsChained,
          Busy!LastNode, Busy!Entry
    <2>2. x = head[s]
      BY <1>2, <2>1 DEF Busy!data_in
    <2> HIDE DEF s
    <2>3. x \in Busy!Item /\ x.source = s
      BY <2>1, <2>2 DEF AllShow
    <2>4. Busy!IsOf(late, i, at[i], s)
      BY <1>2, <2>1, IsOfEntry
    <2> QED BY <1>3, <2>3, <2>4, <1>1 DEF j, x
  <1>4. CASE j = 1 /\ i > 0
    <2> DEFINE f == register_fifo[i - 1]
    <2>1. ~f.empty /\ x = f.output_data
      BY <1>2, <1>4 DEF Busy!data_in, Busy!IsChained
    <2>2. x \in Busy!Item
      BY <1>1, <1>4, <2>1 DEF Busy!ItemsShown
    <2>3. Busy!Carries(late, i - 1, f, Busy!Down(late, (i - 1) + 1, at[(i - 1) + 1]), at[i - 1])
      BY <1>1, <1>4 DEF Busy!Scheduled
    <2>4. (i - 1) + 1 = i
      BY <1>1
    <2>5. Busy!IsOf(late, i - 1, Busy!Down(late, i, at[i]), x.source)
      BY <2>1, <2>3, <2>4 DEF Busy!Carries
    <2>6. Busy!IsOf(late, i, at[i], x.source)
      BY <1>2, <1>4, <2>5, IsOfNext
    <2> QED BY <2>1, <2>2, <2>6 DEF x
  <1> QED BY <1>1, <1>2, <1>3, <1>4

(* The nodes after the edge. *)
MovesOn(at, full_in, next) ==
    next = [i \in Busy!Node |->
               IF Busy!wren_out(i, full_in) THEN Busy!PositionAfter(i, at[i], Busy!data_out(i))
               ELSE at[i]]

(* The registers of a node. *)
LEMMA NodeMovesOn ==
    ASSUME NEW late \in BOOLEAN,
           NEW at \in [Busy!Node -> Busy!Position], Busy!Scheduled(late, at),
           NEW full_in \in BOOLEAN, Busy!Arbitrate(full_in), NEW next, MovesOn(at, full_in, next),
           NEW i \in Busy!Node, InTurn(late, at, i, full_in)
    PROVE  /\ next[i] \in Busy!Position /\ next[i].slot = priority_ff'[i] /\ next[i].slot <= i + 1
           /\ transaction_state_ff'[i] \in
                 {Busy!TS_NO_TRANSACTION, Busy!TS_TRANSACTION_PORT(0),
                       Busy!TS_TRANSACTION_PORT(1)}
           /\ \A j \in Busy!Port : transaction_state_ff'[i] = Busy!TS_TRANSACTION_PORT(j)
                 => (Busy!Own(late, i, next[i]) <=> j = 0)
           /\ Busy!Forced(late, i) /\ next[i] = Busy!First
                 => transaction_state_ff'[i] = Busy!TS_TRANSACTION_PORT(0)
  <1> DEFINE t == transaction_state_ff[i]
             tn == transaction_state_ff'[i]
             wren == Busy!wren_out(i, full_in)
             x == Busy!data_out(i)
             j == Busy!selected_input(i)
             p == at[i]
             q == next[i]
  <1>1. /\ i \in Nat /\ p \in Positions(i) /\ p.slot = priority_ff[i]
        /\ t \in {Busy!TS_NO_TRANSACTION, Busy!TS_TRANSACTION_PORT(0),
                 Busy!TS_TRANSACTION_PORT(1)}
        /\ \A k \in Busy!Port : t = Busy!TS_TRANSACTION_PORT(k)
              => (Busy!Own(late, i, p) <=> k = 0)
    BY BusyPlaces DEF Busy!Scheduled, Positions
  <1>2. q = IF wren THEN (IF x.last THEN Busy!Succ(i, p) ELSE p) ELSE p
    BY DEF MovesOn, Busy!PositionAfter
  <1>3. /\ Busy!Succ(i, p) \in Positions(i) /\ Busy!Succ(i, p) # Busy!First
        /\ Busy!Succ(i, p).slot = IF p.slot = i + 1 THEN 0 ELSE p.slot + 1
    BY <1>1, SuccIs
  <1>4. /\ priority_ff'[i] = IF wren /\ x.last THEN (IF p.slot = i + 1 THEN 0 ELSE p.slot + 1)
                             ELSE p.slot
        /\ tn = IF wren THEN (IF x.last THEN 0 ELSE 1 + j) ELSE t
    BY <1>1 DEF Busy!Arbitrate, Busy!priority_next, Busy!transaction_state_next, Busy!THRESH,
        Busy!TS_NO_TRANSACTION,
                Busy!TS_TRANSACTION_PORT
  <1>5. wren => j \in {0, 1} /\ (j = 0 <=> Busy!Own(late, i, p))
    BY DEF InTurn, Busy!Port
  <1>6. Busy!Forced(late, i) /\ p = Busy!First /\ ~wren => t = 1
    BY DEF InTurn, Busy!TS_TRANSACTION_PORT
  <1>6a. Busy!Forced(late, i) /\ p = Busy!First => Busy!Own(late, i, p)
    BY DEF Busy!Own
  <1> HIDE DEF t, tn, wren, x, j, p, q
  <1>7. /\ q \in Positions(i) /\ q.slot = priority_ff'[i]
        /\ tn \in {0, 1, 2}
    BY <1>1, <1>2, <1>3, <1>4, <1>5 DEF Busy!TS_NO_TRANSACTION, Busy!TS_TRANSACTION_PORT
  <1>8. ASSUME NEW k \in Busy!Port, tn = 1 + k PROVE Busy!Own(late, i, q) <=> k = 0
    <2>1. k \in {0, 1}
      BY DEF Busy!Port
    <2>2. CASE wren
      BY <1>2, <1>4, <1>5, <1>8, <2>1, <2>2
    <2>3. CASE ~wren
      <3>1. q = p /\ t = 1 + k
        BY <1>2, <1>4, <1>8, <2>3
      <3> QED BY <1>1, <3>1 DEF Busy!TS_TRANSACTION_PORT
    <2> QED BY <2>2, <2>3
  <1>9. ASSUME Busy!Forced(late, i), q = Busy!First PROVE tn = 1
    <2>1. q = p /\ ~(wren /\ x.last)
      BY <1>2, <1>3, <1>9
    <2> QED BY <1>4, <1>5, <1>6, <1>6a, <1>9, <2>1
  <1> QED BY <1>7, <1>8, <1>9 DEF q, tn, Positions, Busy!TS_NO_TRANSACTION,
      Busy!TS_TRANSACTION_PORT

(* The register FIFOs between the nodes. *)
LEMMA FifoMovesOn ==
    ASSUME NEW late \in BOOLEAN,
           NEW at \in [Busy!Node -> Busy!Position], Busy!Scheduled(late, at),
           Busy!ItemsShown, AllShow, NEW full_in \in BOOLEAN, Busy!Arbitrate(full_in),
           NEW next, MovesOn(at, full_in, next),
           \A i \in Busy!Node : InTurn(late, at, i, full_in),
           NEW i \in Busy!Node \ {Busy!LastNode}
    PROVE  /\ RegistersAgree(register_fifo'[i], Busy!Item)
           /\ ~register_fifo'[i].empty
           /\ Busy!Carries(late, i, register_fifo'[i], Busy!Down(late, i + 1, next[i + 1]),
                    next[i])
  <1> DEFINE f == register_fifo[i]
             e == register_fifo'[i]
             w == Busy!wren_out(i, full_in)
             r == Busy!rden_out(i + 1, 1, full_in)
             x == IF w THEN Busy!data_out(i) ELSE NoItem
             p == Busy!Down(late, i + 1, at[i + 1])
             k == i + 1
  <1>1. /\ i \in Busy!Node /\ i # Busy!LastNode /\ k \in Busy!Node /\ i \in Nat /\ k \in Nat
              /\ k > 0
        /\ k - 1 = i
    BY BusyPlaces
  <1>2. e = Busy!SkidNext(f, w, x, r)
    BY DEF Busy!Arbitrate
  <1>3. w \in BOOLEAN /\ r \in BOOLEAN
    BY DEF Busy!wren_out, Busy!rden_out
  <1>4. RegisterEdge(f, e, w, x, r)
    BY <1>2 DEF Busy!SkidNext, Busy!Direct, RegisterEdge
  <1>5. w => /\ ~f.full /\ Busy!data_out(i) \in Busy!Item
             /\ Busy!IsOf(late, i, at[i], Busy!data_out(i).source)
    BY <1>1, Sent DEF Busy!wren_out, Busy!NodeFull
  <1>6. ~w => f.full
    BY <1>1 DEF InTurn, Busy!NodeFull
  <1>7. r => /\ ~f.empty /\ Busy!data_out(k) = f.output_data
             /\ Busy!wren_out(k, full_in) /\ ~Busy!Own(late, k, at[k])
    <2> SUFFICES ASSUME r PROVE /\ ~f.empty /\ Busy!data_out(k) = f.output_data
                                /\ Busy!wren_out(k, full_in) /\ ~Busy!Own(late, k, at[k])
      OBVIOUS
    <2>1. Busy!wren_out(k, full_in) /\ Busy!selected_input(k) = 1
      BY DEF Busy!rden_out
    <2>2. ~Busy!Own(late, k, at[k])
      BY <1>1, <2>1 DEF InTurn
    <2>3. ~register_fifo[k - 1].empty /\ Busy!data_out(k) = register_fifo[k - 1].output_data
      BY <1>1, <2>1, Sent
    <2> QED BY <1>1, <2>1, <2>2, <2>3
  <1>8. ~r => ~Busy!wren_out(k, full_in) \/ Busy!Own(late, k, at[k])
    <2> SUFFICES ASSUME ~r, Busy!wren_out(k, full_in) PROVE Busy!Own(late, k, at[k])
      OBVIOUS
    <2>1. Busy!selected_input(k) # 1
      BY DEF Busy!rden_out
    <2> QED BY <1>1, <2>1 DEF InTurn, Busy!Port
  <1>9. RegistersAgree(f, Busy!Item)
    BY DEF Busy!ItemsShown, RegistersAgree
  <1>10. Busy!Carries(late, i, f, p, at[i])
    BY DEF Busy!Scheduled
  <1>11. Busy!Down(late, k, next[k]) = IF r THEN Busy!PositionAfter(i, p, f.output_data) ELSE p
    <2>1. at[k] \in Positions(k)
      BY <1>1 DEF Busy!Scheduled, Positions
    <2>2. next[k] = IF Busy!wren_out(k, full_in)
                    THEN (IF Busy!data_out(k).last THEN Busy!Succ(k, at[k]) ELSE at[k]) ELSE at[k]
      BY <1>1 DEF MovesOn, Busy!PositionAfter
    <2>3. Busy!Down(late, k, Busy!Succ(k, at[k])) =
             IF Busy!Own(late, k, at[k]) THEN p ELSE Busy!Succ(i, p)
      BY <1>1, <2>1, DownSucc
    <2>4. p = Busy!Down(late, k, at[k])
      OBVIOUS
    <2> HIDE DEF p, k, r, f
    <2> QED BY <1>7, <1>8, <2>2, <2>3, <2>4 DEF Busy!PositionAfter
  <1>12. next[i] = IF w THEN Busy!PositionAfter(i, at[i], x) ELSE at[i]
    BY <1>1 DEF MovesOn
  <1>13. w => x = Busy!data_out(i)
    OBVIOUS
  <1>14. /\ f.full = f.overflow /\ f.internal_empty = f.empty
         /\ f.full \in BOOLEAN /\ (f.full => ~f.empty)
    BY <1>9 DEF RegistersAgree
  <1> HIDE DEF f, e, w, r, x, p
  <1>15. RegistersAgree(e, Busy!Item)
    BY <1>3, <1>4, <1>5, <1>7, <1>9, <1>13, RegisterStep
  <1>16. ~e.empty
    BY <1>4, <1>6, <1>14 DEF RegisterEdge
  <1>17. w => Busy!IsOf(late, i, at[i], x.source)
    BY <1>5, <1>13
  <1>18. Busy!Carries(late, i, e, Busy!Down(late, k, next[k]), next[i])
    BY <1>3, <1>4, <1>5, <1>7, <1>9, <1>10, <1>11, <1>12, <1>17, CarriesStep
  <1> QED BY <1>15, <1>16, <1>18 DEF e

(* The sources keep what has not been read, and show the next item else. *)
LEMMA SourcesShow ==
    ASSUME Busy!ItemsShown, NEW full_in \in BOOLEAN,
           NEW offer \in [Busy!Ready(full_in) -> Busy!Offered],
           Busy!Show(offer)
    PROVE  AllShow'
  <1> SUFFICES ASSUME NEW s \in Busy!Source PROVE head'[s] \in Busy!Item /\ head'[s].source = s
    BY DEF AllShow, Busy!Source, Busy!Item, Busy!LastBit
  <1>1. DOMAIN offer = Busy!Ready(full_in)
    OBVIOUS
  <1>2. head'[s] = IF s \in Busy!Ready(full_in) THEN Busy!Shown(s, offer[s]) ELSE head[s]
    BY <1>1 DEF Busy!Show
  <1>3. CASE s \in Busy!Ready(full_in)
    <2> DEFINE c == offer[s]
    <2>1. c \in Busy!Offered /\ c # NoItem
      BY <1>3, NoItemIsNone
    <2> HIDE DEF c
    <2>2. Busy!Shown(s, c) = [source |-> s, tag |-> c.tag, last |-> c.last]
      BY <2>1 DEF Busy!Shown
    <2>3. Busy!Shown(s, c) \in Busy!Item /\ Busy!Shown(s, c).source = s
      BY <2>1, <2>2 DEF Busy!Item, Busy!Offered
    <2> QED BY <1>2, <1>3, <2>3 DEF c
  <1>4. CASE s \notin Busy!Ready(full_in)
    <2>1. head[s] # NoItem
      BY <1>4 DEF Busy!Ready
    <2>2. head[s] \in Busy!Item /\ head[s].source = s
      BY <2>1 DEF Busy!ItemsShown
    <2> QED BY <1>2, <1>4, <2>2
  <1> QED BY <1>3, <1>4
-----------------------------------------------------------------------------
(* A clock edge while everyone is in turn. *)
LEMMA TurnStep ==
    ASSUME Busy!ItemsShown, AllShow, NEW late \in BOOLEAN,
           NEW at \in [Busy!Node -> Busy!Position], NEW back \in [Busy!Node -> Busy!Position],
           Busy!Scheduled(late, at), Busy!Shared(late, at, back),
           NEW full_in \in BOOLEAN, Busy!Arbitrate(full_in), Busy!CountShares(full_in),
           NEW offer \in [Busy!Ready(full_in) -> Busy!Offered], Busy!Show(offer),
           \A i \in Busy!Node : InTurn(late, at, i, full_in)
    PROVE  Busy!ShareInv'
  <1>1. PICK next : MovesOn(at, full_in, next)
    BY DEF MovesOn
  <1>2. ASSUME NEW i \in Busy!Node
        PROVE  /\ next[i] \in Busy!Position
               /\ next[i].slot = priority_ff'[i] /\ next[i].slot <= i + 1
               /\ transaction_state_ff'[i] \in
                     {Busy!TS_NO_TRANSACTION, Busy!TS_TRANSACTION_PORT(0),
                      Busy!TS_TRANSACTION_PORT(1)}
               /\ \A j \in Busy!Port : transaction_state_ff'[i] = Busy!TS_TRANSACTION_PORT(j)
                     => (Busy!Own(late, i, next[i]) <=> j = 0)
               /\ Busy!Forced(late, i) /\ next[i] = Busy!First
                     => transaction_state_ff'[i] = Busy!TS_TRANSACTION_PORT(0)
    BY <1>1, NodeMovesOn
  <1>3. ASSUME NEW i \in Busy!Node \ {Busy!LastNode}
        PROVE  /\ RegistersAgree(register_fifo'[i], Busy!Item)
               /\ ~register_fifo'[i].empty
               /\ Busy!Carries(late, i, register_fifo'[i], Busy!Down(late, i + 1, next[i + 1]),
                        next[i])
    BY <1>1, FifoMovesOn
  <1>4. AllShow'
    BY SourcesShow
  <1>5. next \in [Busy!Node -> Busy!Position]
    BY <1>1, <1>2 DEF MovesOn
  <1>6. Busy!Scheduled(late, next)'
    BY <1>2, <1>3 DEF Busy!Scheduled
  <1>7. Busy!Running(late, next)'
    BY <1>2, <1>3 DEF Busy!Running
  <1>8. \E b \in [Busy!Node -> Busy!Position] : Busy!Shared(late, next, b)'
    <2>1. Busy!LastNode \in Busy!Node
      BY BusyPlaces
    <2>2. next[Busy!LastNode] = IF Busy!wren_out(Busy!LastNode, full_in)
                           THEN Busy!PositionAfter(Busy!LastNode, at[Busy!LastNode],
                                 Busy!data_out(Busy!LastNode))
                           ELSE at[Busy!LastNode]
      BY <1>1, <2>1 DEF MovesOn
    <2>3. transaction_state_ff'[Busy!LastNode] = IF Busy!wren_out(Busy!LastNode, full_in)
                                            THEN Busy!transaction_state_next(Busy!LastNode)
                                            ELSE transaction_state_ff[Busy!LastNode]
      BY <2>1 DEF Busy!Arbitrate
    <2>4. Busy!wren_out(Busy!LastNode, full_in) =>
              /\ Busy!selected_input(Busy!LastNode) \in Busy!Port
              /\ Busy!IsOf(late, Busy!LastNode, at[Busy!LastNode],
                       Busy!data_out(Busy!LastNode).source)
      BY <2>1, Sent DEF InTurn
    <2> QED BY <2>2, <2>3, <2>4, SharedStep
  <1>9. Busy!ItemsShown'
    <2>1. \A s \in Busy!Source : head'[s] \in Busy!Item /\ head'[s].source = s
      BY <1>4 DEF AllShow
    <2> QED BY <1>3, <2>1 DEF Busy!ItemsShown, RegistersAgree
  <1>10. head'[0] # NoItem
    <2>1. 0 \in Busy!Source
      BY BusyPlaces DEF Busy!Source
    <2> QED BY <1>4, <2>1, NoItemIsNone DEF AllShow
  <1> QED BY <1>5, <1>6, <1>7, <1>8, <1>9, <1>10 DEF Busy!ShareInv

(* The start is a schedule. *)
LEMMA FreshIsScheduled ==
    ASSUME Busy!Fresh, NEW late \in BOOLEAN, NEW at, at = [i \in Busy!Node |-> Busy!First]
    PROVE  /\ at \in [Busy!Node -> Busy!Position] /\ Busy!Scheduled(late, at)
                 /\ Busy!Shared(late, at, at)
  <1>1. /\ Busy!First \in Busy!Position /\ Busy!First.slot = 0 /\ Busy!First.round = 0
    BY DEF Busy!First, Busy!Position
  <1>2. /\ at \in [Busy!Node -> Busy!Position]
        /\ \A i \in Busy!Node : at[i] = Busy!First /\ i \in Nat
    BY <1>1, BusyPlaces
  <1>3. \A i \in Nat : i > 0 => Busy!Down(late, i, Busy!First) = Busy!First
    BY <1>1 DEF Busy!Down
  <1>4. Busy!Scheduled(late, at)
    <2>1. ASSUME NEW i \in Busy!Node
          PROVE  /\ at[i].slot = priority_ff[i] /\ at[i].slot <= i + 1
                 /\ transaction_state_ff[i] = Busy!TS_NO_TRANSACTION
                 /\ \A j \in Busy!Port : transaction_state_ff[i] # Busy!TS_TRANSACTION_PORT(j)
      BY <1>1, <1>2 DEF Busy!Fresh, Busy!Port, Busy!TS_NO_TRANSACTION, Busy!TS_TRANSACTION_PORT
    <2>2. ASSUME NEW i \in Busy!Node \ {Busy!LastNode}
          PROVE  Busy!Carries(late, i, register_fifo[i], Busy!Down(late, i + 1, at[i + 1]), at[i])
      <3>1. i \in Nat /\ i + 1 \in Busy!Node /\ i \in Busy!Node /\ i + 1 \in Nat /\ i + 1 > 0
        BY BusyPlaces
      <3>2. Busy!Down(late, i + 1, at[i + 1]) = at[i]
        BY <1>2, <1>3, <3>1
      <3> QED BY <3>2 DEF Busy!Carries, Busy!Fresh
    <2> QED BY <2>1, <2>2 DEF Busy!Scheduled
  <1>5. Busy!Shared(late, at, at)
    <2>1. at[Busy!LastNode] = Busy!Begun(at)
      BY BusyPlaces DEF Busy!Fresh, Busy!Begun
    <2>2. ASSUME NEW i \in Busy!Node
          PROVE  at[i].slot <= i + 1 /\ (i > 0 => at[i - 1] = Busy!Down(late, i, at[i]))
      <3>1. i > 0 => i - 1 \in Busy!Node
        BY BusyPlaces
      <3> QED BY <1>1, <1>2, <1>3, <3>1
    <2>3. ASSUME NEW s \in Busy!Source PROVE Busy!HasHad(late, s, at) = 0
      <3>1. Busy!Entry(s) \in Busy!Node /\ 0 \in Busy!Node
        BY BusyPlaces DEF Busy!Entry, Busy!Source, Busy!Node
      <3> QED BY <1>1, <1>2, <3>1 DEF Busy!HasHad, Busy!Owns
    <2>4. share = [s \in Busy!Source |-> 0] /\ 0 \in Busy!Source
      BY BusyPlaces DEF Busy!Fresh, Busy!Source
    <2>5. \A s \in Busy!Source : Busy!HasHad(late, s, at) = share[s] + 0
      BY <2>3, <2>4
    <2>6. \E least \in Nat : \A s \in Busy!Source : Busy!HasHad(late, s, at) = share[s] + least
      BY <2>5
    <2>7. share \in [Busy!Source -> Nat] /\ \E s \in Busy!Source : share[s] = 0
      BY <2>4
    <2> QED BY <2>1, <2>2, <2>6, <2>7 DEF Busy!Shared
  <1> QED BY <1>2, <1>4, <1>5

(* As long as nobody has anything to show nothing moves. *)
LEMMA IdleStep ==
    ASSUME Busy!ItemsShown, Busy!Fresh, \A s \in Busy!Source : head[s] = NoItem,
           NEW full_in \in BOOLEAN, Busy!Arbitrate(full_in), Busy!CountShares(full_in),
           NEW offer \in [Busy!Ready(full_in) -> Busy!Offered], Busy!Show(offer)
    PROVE  Busy!ItemsShown' /\ Busy!Fresh'
  <1>1. ASSUME NEW i \in Busy!Node PROVE ~Busy!wren_out(i, full_in)
    <2>1. /\ i \in Nat /\ i <= Busy!LastNode /\ Busy!LastNode \in Nat
          /\ (i > 0 => i - 1 \in Busy!Node \ {Busy!LastNode})
      BY BusyPlaces
    <2>2. ASSUME NEW j \in Busy!Port PROVE Busy!data_in(i, j) = NoItem
      <3>1. CASE Busy!IsChained(i, j)
        BY <2>1, <3>1 DEF Busy!data_in, Busy!Fresh, Busy!IsChained
      <3>2. CASE ~Busy!IsChained(i, j)
        <4>1. Busy!PortSource(i, j) \in Busy!Source
          BY <2>1, <3>2, BusyPlaces DEF Busy!PortSource, Busy!Source, Busy!IsChained,
              Busy!LastNode, Busy!Port
        <4> QED BY <3>2, <4>1 DEF Busy!data_in
      <3> QED BY <3>1, <3>2
    <2> QED BY <2>2 DEF Busy!wren_out, Busy!Eligible
  <1>2. ASSUME NEW i \in Busy!Node
        PROVE  priority_ff'[i] = 0 /\ transaction_state_ff'[i] = Busy!TS_NO_TRANSACTION
    BY <1>1 DEF Busy!Arbitrate, Busy!Fresh
  <1>3. ASSUME NEW i \in Busy!Node \ {Busy!LastNode}
        PROVE  RegistersAgree(register_fifo'[i], Busy!Item) /\ register_fifo'[i].empty
    <2> DEFINE f == register_fifo[i]
               e == register_fifo'[i]
    <2>1. i \in Busy!Node /\ i + 1 \in Busy!Node
      BY BusyPlaces
    <2>2. ~Busy!wren_out(i, full_in) /\ ~Busy!rden_out(i + 1, 1, full_in)
      BY <1>1, <2>1 DEF Busy!rden_out
    <2>3. e = Busy!SkidNext(f, FALSE, NoItem, FALSE)
      <3>1. e = Busy!SkidNext(f, Busy!wren_out(i, full_in),
                         IF Busy!wren_out(i, full_in) THEN Busy!data_out(i) ELSE NoItem,
                         Busy!rden_out(i + 1, 1, full_in))
        BY <2>1 DEF Busy!Arbitrate
      <3>2. Busy!wren_out(i, full_in) = FALSE /\ Busy!rden_out(i + 1, 1, full_in) = FALSE
        BY <2>2 DEF Busy!wren_out, Busy!rden_out
      <3> QED BY <3>1, <3>2
    <2>4. f.empty /\ RegistersAgree(f, Busy!Item)
      BY DEF Busy!Fresh, Busy!ItemsShown, RegistersAgree
    <2>5. RegisterEdge(f, e, FALSE, NoItem, FALSE)
      BY <2>3 DEF Busy!SkidNext, Busy!Direct, RegisterEdge
    <2> HIDE DEF e, f
    <2>6. RegistersAgree(e, Busy!Item)
      BY <2>4, <2>5, RegisterStep
    <2>7. e.empty
      BY <2>4, <2>5 DEF RegisterEdge
    <2> QED BY <2>6, <2>7 DEF e
  <1>4. share' = [s \in Busy!Source |-> 0]
    <2>1. ~Busy!Begins(Busy!LastNode, full_in)
      BY <1>1, BusyPlaces DEF Busy!Begins
    <2> QED BY <2>1 DEF Busy!CountShares, Busy!Fresh
  <1>5. AllShow'
    BY SourcesShow
  <1>6. \A s \in Busy!Source : head'[s] \in Busy!Item /\ head'[s].source = s
    BY <1>5 DEF AllShow
  <1>7. Busy!ItemsShown'
    BY <1>3, <1>6 DEF Busy!ItemsShown, RegistersAgree
  <1> QED BY <1>2, <1>3, <1>4, <1>7 DEF Busy!Fresh

(* The invariant of the shares: at the start, *)
LEMMA InitShareInv == Busy!ShareInit => Busy!ShareInv
  <1> SUFFICES ASSUME Busy!ShareInit PROVE Busy!ShareInv
    OBVIOUS
  <1>1. /\ head = [s \in Busy!Source |-> NoItem] /\ priority_ff = [i \in Busy!Node |-> 0]
        /\ transaction_state_ff = [i \in Busy!Node |-> Busy!TS_NO_TRANSACTION]
        /\ register_fifo = [i \in Busy!Node \ {Busy!LastNode} |-> Busy!SkidReset]
        /\ share = [s \in Busy!Source |-> 0]
    BY DEF Busy!ShareInit, Busy!Init
  <1>2. Busy!ItemsShown
    BY <1>1 DEF Busy!ItemsShown, Busy!SkidReset
  <1>3. Busy!Fresh
    BY <1>1 DEF Busy!Fresh, Busy!SkidReset
  <1> QED BY <1>2, <1>3 DEF Busy!ShareInv

(* and at every clock edge. *)
LEMMA StepShareInv == Busy!ShareInv /\ [Busy!ShareNext]_(Busy!shareVars) => Busy!ShareInv'
  <1> SUFFICES ASSUME Busy!ShareInv, [Busy!ShareNext]_(Busy!shareVars) PROVE Busy!ShareInv'
    OBVIOUS
  <1>1. CASE Busy!ShareNext
    <2>1. PICK full_in \in BOOLEAN :
              /\ Busy!Arbitrate(full_in) /\ Busy!CountShares(full_in)
              /\ \E offer \in [Busy!Ready(full_in) -> Busy!Offered] : Busy!Show(offer)
      BY <1>1 DEF Busy!ShareNext
    <2>2. PICK offer \in [Busy!Ready(full_in) -> Busy!Offered] : Busy!Show(offer)
      BY <2>1
    <2>3. Busy!ItemsShown
      BY DEF Busy!ShareInv
    <2>4. 0 \in Busy!Source
      BY BusyPlaces DEF Busy!Source
    <2>5. (\A s \in Busy!Source : head[s] = NoItem) \/ AllShow
      BY <2>3 DEF Busy!ItemsShown, AllShow
    <2>6. AllShow => \A s \in Busy!Source : head[s] # NoItem
      BY NoItemIsNone DEF AllShow
    <2>7. CASE Busy!Fresh /\ \A s \in Busy!Source : head[s] = NoItem
      BY <2>1, <2>2, <2>3, <2>7, IdleStep DEF Busy!ShareInv
    <2>8. CASE Busy!Fresh /\ AllShow
      <3>1. PICK at : at = [i \in Busy!Node |-> Busy!First]
        OBVIOUS
      <3>2. at \in [Busy!Node -> Busy!Position] /\ Busy!Scheduled(full_in, at)
               /\ Busy!Shared(full_in, at, at)
        BY <2>8, <3>1, FreshIsScheduled
      <3>3. \A i \in Busy!Node : InTurn(full_in, at, i, full_in)
        BY <2>3, <2>6, <2>8, <3>1, FreshTurn
      <3> QED BY <2>1, <2>2, <2>3, <2>8, <3>2, <3>3, TurnStep
    <2>9. CASE ~Busy!Fresh
      <3>1. head[0] # NoItem
        BY <2>9 DEF Busy!ShareInv
      <3>2. AllShow
        BY <2>4, <2>5, <3>1
      <3>3. PICK late \in BOOLEAN, at \in [Busy!Node -> Busy!Position],
                  back \in [Busy!Node -> Busy!Position] :
                Busy!Scheduled(late, at) /\ Busy!Running(late, at) /\ Busy!Shared(late, at, back)
        BY <2>9 DEF Busy!ShareInv
      <3>4. \A i \in Busy!Node : InTurn(late, at, i, full_in)
        BY <2>3, <2>6, <3>2, <3>3, RunningTurn
      <3> QED BY <2>1, <2>2, <2>3, <3>2, <3>3, <3>4, TurnStep
    <2> QED BY <2>5, <2>7, <2>8, <2>9
  <1>2. CASE UNCHANGED Busy!shareVars
    <2>1. /\ head' = head /\ priority_ff' = priority_ff /\ share' = share
          /\ transaction_state_ff' = transaction_state_ff /\ register_fifo' = register_fifo
      BY <1>2 DEF Busy!shareVars, Busy!vars
    <2>2. (Busy!ItemsShown => Busy!ItemsShown') /\ (Busy!Fresh => Busy!Fresh')
      BY <2>1 DEF Busy!ItemsShown, Busy!Fresh
    <2>3. ASSUME NEW late \in BOOLEAN, NEW at \in [Busy!Node -> Busy!Position],
                 NEW back \in [Busy!Node -> Busy!Position],
                 Busy!Scheduled(late, at) /\ Busy!Running(late, at) /\ Busy!Shared(late, at, back)
          PROVE  (Busy!Scheduled(late, at) /\ Busy!Running(late, at)
                    /\ Busy!Shared(late, at, back))'
      BY <2>1, <2>3 DEF Busy!Scheduled, Busy!Running, Busy!Shared, Busy!Begun
    <2>4. CASE Busy!Fresh
      BY <2>2, <2>4 DEF Busy!ShareInv
    <2>5. CASE ~Busy!Fresh
      <3>1. head'[0] # NoItem /\ Busy!ItemsShown'
        BY <2>1, <2>2, <2>5 DEF Busy!ShareInv
      <3>2. PICK late \in BOOLEAN, at \in [Busy!Node -> Busy!Position],
                  back \in [Busy!Node -> Busy!Position] :
                Busy!Scheduled(late, at) /\ Busy!Running(late, at) /\ Busy!Shared(late, at, back)
        BY <2>5 DEF Busy!ShareInv
      <3>3. (Busy!Scheduled(late, at) /\ Busy!Running(late, at) /\ Busy!Shared(late, at, back))'
        BY <2>3, <3>2
      <3> QED BY <3>1, <3>3 DEF Busy!ShareInv
    <2> QED BY <2>4, <2>5
  <1> QED BY <1>1, <1>2

(* It implies that the shares are fair. *)
LEMMA ShareInvIsFair == Busy!ShareInv => Busy!FairShare
  <1>1. CASE Busy!Fresh
    BY <1>1 DEF Busy!Fresh, Busy!FairShare
  <1>2. CASE ~Busy!Fresh
    BY <1>2, SharedIsFair DEF Busy!ShareInv
  <1> QED BY <1>1, <1>2

(* In a merger of any number of sources that all keep it busy no source    *)
(* ever has had more than two transactions more than any other at the      *)
(* destination, however long the transactions are and whenever the         *)
(* destination holds the chain up.                                         *)
THEOREM FairShareHolds == MCSpec => []FairShare
  <1> DEFINE Shares == watched = "shares"
  <1>1. MCInit => (Shares => Busy!ShareInv)
    BY InitShareInv DEF MCInit
  <1>2. (Shares => Busy!ShareInv) /\ [MCNext]_mcVars => (Shares => Busy!ShareInv)'
    <2> SUFFICES ASSUME Shares => Busy!ShareInv, [MCNext]_mcVars, Shares'
                 PROVE  Busy!ShareInv'
      OBVIOUS
    <2>1. watched' = watched
      BY DEF MCNext, mcVars
    <2>2. [Busy!ShareNext]_(Busy!shareVars)
      BY <2>1 DEF MCNext, mcVars, mergeVars, vars, Busy!shareVars, Busy!vars
    <2> QED BY <2>1, <2>2, StepShareInv
  <1>3. (Shares => Busy!ShareInv) => FairShare
    BY ShareInvIsFair DEF FairShare
  <1> HIDE DEF Shares
  <1> QED BY <1>1, <1>2, <1>3, PTL DEF MCSpec
-----------------------------------------------------------------------------
(* From here on the chain as a whole, with its two ends.  What every node  *)
(* and every register FIFO does to the items of one source is put together *)
(* from the first node to the last; that no transaction is torn apart is   *)
(* argued node by node, from the owners of two neighbours.                 *)

(* The items that may be behind node i. *)
Known(i) == {x \in Item : x # NoItem /\ x.source <= i + 1}

(* The nodes and sources of the chain. *)
LEMMA Places ==
    /\ N \in Nat /\ N > 1 /\ LastNode \in Nat /\ LastNode \in Node
    /\ \A i \in Node : i \in Nat /\ i <= LastNode
                       /\ (i # LastNode => i + 1 \in Node /\ i \in Node \ {LastNode})
                       /\ (i > 0 => i - 1 \in Node \ {LastNode})
  BY ArbitrationAssumption DEF ArbitrationAssumption, Node, LastNode

(* The registers of a FIFO between two nodes agree. *)
LEMMA FifoAgrees ==
    ItemsKnown <=>
        /\ \A s \in Source : head[s] # NoItem => head[s] \in Item /\ head[s].source = s
        /\ \A i \in Node \ {LastNode} : RegistersAgree(register_fifo[i], Known(i))
  BY DEF ItemsKnown, RegistersAgree, Known

(* The library joins a row as the lemmas do. *)
LEMMA FlattenIsFlat ==
    ASSUME NEW S, NEW row \in Seq(S)
    PROVE  FlattenSeq(row) = Flat(row)
  <1>1. CASE Len(row) = 0
    <2>1. row = <<>>
      BY <1>1, EmptySeq
    <2> QED BY <1>1, <2>1 DEF FlattenSeq, Flat
  <1>2. CASE Len(row) # 0
    BY <1>2 DEF FlattenSeq, Flat, Joint
  <1> QED BY <1>1, <1>2

(* What is filtered are items. *)
LEMMA FromType ==
    ASSUME NEW S, NEW x \in S, NEW s
    PROVE  From(x, s) \in Seq(S)
  BY DEF From

(* The items of a source in a register FIFO. *)
LEMMA ItemsFromType ==
    ASSUME NEW S, NEW f, RegistersAgree(f, S), NEW s
    PROVE  ItemsFrom(f, s) \in Seq(S)
  <1>1. CASE f.empty
    BY <1>1 DEF ItemsFrom
  <1>2. CASE ~f.empty
    <2>1. From(f.output_data, s) \in Seq(S)
      BY <1>2, FromType DEF RegistersAgree
    <2>2. (IF f.overflow THEN From(f.overflow_data, s) ELSE <<>>) \in Seq(S)
      BY FromType DEF RegistersAgree
    <2> QED BY <1>2, <2>1, <2>2, ConcatProperties DEF ItemsFrom
  <1> QED BY <1>1, <1>2

(* A clock edge of a register FIFO, seen by one source: what is taken is   *)
(* taken at the front, what is put in comes last.                          *)
FilteredEdge(f, e, s, w, x, r) ==
    (IF r THEN From(f.output_data, s) ELSE <<>>) \o ItemsFrom(e, s)
        = ItemsFrom(f, s) \o (IF w THEN From(x, s) ELSE <<>>)

LEMMA FromStep ==
    ASSUME NEW S, NEW f, RegistersAgree(f, S), NEW s,
           NEW w \in BOOLEAN, NEW r \in BOOLEAN, NEW x,
           w => ~f.full /\ x \in S, r => ~f.empty,
           NEW e, RegisterEdge(f, e, w, x, r)
    PROVE  FilteredEdge(f, e, s, w, x, r)
  <1> DEFINE a == From(f.output_data, s)
             b == From(f.overflow_data, s)
             c == From(x, s)
             I == ItemsFrom(f, s)
             J == ItemsFrom(e, s)
  <1>1. /\ f.full \in BOOLEAN /\ f.overflow \in BOOLEAN /\ f.empty \in BOOLEAN
        /\ f.internal_empty = f.empty /\ f.full = f.overflow
        /\ f.overflow => ~f.empty /\ f.overflow_data \in S
        /\ ~f.empty => f.output_data \in S
    BY DEF RegistersAgree
  <1>2. /\ e.overflow = ((w /\ ~r /\ ~f.empty) \/ (f.overflow /\ ~r))
        /\ e.empty = (~w /\ ((r /\ ~f.overflow) \/ f.empty))
        /\ e.output_data = IF w /\ (r \/ f.empty) THEN x
                           ELSE IF r /\ f.overflow THEN f.overflow_data
                           ELSE f.output_data
        /\ e.overflow_data = IF w THEN x ELSE f.overflow_data
    BY <1>1 DEF RegisterEdge
  <1>3. /\ I = IF f.empty THEN <<>> ELSE a \o (IF f.overflow THEN b ELSE <<>>)
        /\ J = IF e.empty THEN <<>>
               ELSE From(e.output_data, s)
                    \o (IF e.overflow THEN From(e.overflow_data, s) ELSE <<>>)
    BY DEF ItemsFrom
  <1>4. /\ w => c \in Seq(S) /\ c \o <<>> = c /\ <<>> \o c = c
        /\ ~f.empty => a \in Seq(S) /\ a \o <<>> = a /\ <<>> \o a = a
        /\ f.overflow => b \in Seq(S) /\ b \o <<>> = b
        /\ <<>> \o <<>> = <<>>
    <2>1. (w => c \in Seq(S)) /\ (~f.empty => a \in Seq(S)) /\ (f.overflow => b \in Seq(S))
      BY <1>1, FromType
    <2> HIDE DEF a, b, c
    <2> QED BY <2>1, ConcatEmptySeq
  <1> HIDE DEF a, b, c, I, J
  <1>5. CASE r /\ w
    <2>1. ~f.empty /\ ~f.overflow /\ ~e.empty /\ ~e.overflow /\ e.output_data = x
      BY <1>1, <1>2, <1>5
    <2>2. I = a /\ J = c
      BY <1>3, <1>4, <1>5, <2>1 DEF c
    <2> QED BY <1>5, <2>2 DEF a, c, I, J, FilteredEdge
  <1>6. CASE r /\ ~w
    <2>1. CASE f.overflow
      <3>1. ~f.empty /\ ~e.empty /\ ~e.overflow /\ e.output_data = f.overflow_data
        BY <1>1, <1>2, <1>6, <2>1
      <3>2. I = a \o b /\ J = b
        BY <1>3, <1>4, <2>1, <3>1 DEF b
      <3>3. I \o <<>> = I
        BY <1>4, <2>1, <3>1, <3>2, ConcatEmptySeq, ConcatProperties
      <3> QED BY <1>6, <3>2, <3>3 DEF a, I, J, FilteredEdge
    <2>2. CASE ~f.overflow
      <3>1. ~f.empty /\ e.empty
        BY <1>1, <1>2, <1>6, <2>2
      <3>2. I = a /\ J = <<>>
        BY <1>3, <1>4, <2>2, <3>1
      <3> QED BY <1>6, <3>2 DEF a, I, J, FilteredEdge
    <2> QED BY <2>1, <2>2
  <1>7. CASE ~r /\ w
    <2>1. CASE f.empty
      <3>1. ~e.empty /\ ~e.overflow /\ e.output_data = x
        BY <1>1, <1>2, <1>7, <2>1
      <3>2. I = <<>> /\ J = c
        BY <1>3, <1>4, <1>7, <2>1, <3>1 DEF c
      <3> QED BY <1>4, <1>7, <3>2 DEF c, I, J, FilteredEdge
    <2>2. CASE ~f.empty
      <3>1. /\ ~f.overflow /\ ~e.empty /\ e.overflow
            /\ e.output_data = f.output_data /\ e.overflow_data = x
        BY <1>1, <1>2, <1>7, <2>2
      <3>2. I = a /\ J = a \o c
        BY <1>3, <1>4, <2>2, <3>1 DEF a, c
      <3>3. <<>> \o J = J
        BY <1>4, <1>7, <2>2, <3>2, ConcatEmptySeq, ConcatProperties
      <3> QED BY <1>7, <3>2, <3>3 DEF c, I, J, FilteredEdge
    <2> QED BY <2>1, <2>2
  <1>8. CASE ~r /\ ~w
    <2>1. /\ e.empty = f.empty /\ e.overflow = f.overflow
          /\ e.output_data = f.output_data /\ e.overflow_data = f.overflow_data
      BY <1>1, <1>2, <1>8
    <2>2. J = I
      BY <1>3, <2>1 DEF a, b
    <2>3. I \in Seq(S)
      BY ItemsFromType DEF I
    <2>4. <<>> \o I = I /\ I \o <<>> = I
      BY <2>3, ConcatEmptySeq
    <2> QED BY <1>8, <2>2, <2>4 DEF I, J, FilteredEdge
  <1> QED BY <1>5, <1>6, <1>7, <1>8

(* and the transactions it holds lead from its reader to its writer. *)
LEMMA LeadsStep ==
    ASSUME NEW S, NEW f, RegistersAgree(f, S), NEW a, NEW b, Leads(f, a, b),
           NEW w \in BOOLEAN, NEW r \in BOOLEAN, NEW x,
           w => ~f.full /\ Follows(b, x), r => ~f.empty,
           NEW e, RegisterEdge(f, e, w, x, r)
    PROVE  Leads(e, IF r THEN OwnerAfter(f.output_data) ELSE a,
                    IF w THEN OwnerAfter(x) ELSE b)
  <1>1. /\ f.full \in BOOLEAN /\ f.overflow \in BOOLEAN /\ f.empty \in BOOLEAN
        /\ f.internal_empty = f.empty /\ f.full = f.overflow
        /\ f.overflow => ~f.empty
    BY DEF RegistersAgree
  <1>2. /\ e.overflow = ((w /\ ~r /\ ~f.empty) \/ (f.overflow /\ ~r))
        /\ e.empty = (~w /\ ((r /\ ~f.overflow) \/ f.empty))
        /\ e.output_data = IF w /\ (r \/ f.empty) THEN x
                           ELSE IF r /\ f.overflow THEN f.overflow_data
                           ELSE f.output_data
        /\ e.overflow_data = IF w THEN x ELSE f.overflow_data
    BY <1>1 DEF RegisterEdge
  <1>3. CASE r /\ w
    BY <1>1, <1>2, <1>3 DEF Leads
  <1>4. CASE r /\ ~w
    BY <1>1, <1>2, <1>4 DEF Leads
  <1>5. CASE ~r /\ w
    BY <1>1, <1>2, <1>5 DEF Leads
  <1>6. CASE ~r /\ ~w
    BY <1>1, <1>2, <1>6 DEF Leads
  <1> QED BY <1>3, <1>4, <1>5, <1>6

(* The item a node moves: it comes from the port the node has selected.    *)
LEMMA Moves ==
    ASSUME ItemsKnown, NEW i \in Node, NEW full_in \in BOOLEAN, wren_out(i, full_in)
    PROVE  LET j == selected_input(i)
               x == data_out(i)
           IN  /\ j \in Port /\ rden_out(i, j, full_in)
               /\ \A k \in Port : rden_out(i, k, full_in) => k = j
               /\ transaction_state_ff[i] \in {TS_NO_TRANSACTION, TS_TRANSACTION_PORT(j)}
               /\ x \in Known(i)
               /\ ~IsChained(i, j) => x = head[PortSource(i, j)] /\ x.source = PortSource(i, j)
               /\ IsChained(i, j) => /\ i > 0 /\ j = 1 /\ ~register_fifo[i - 1].empty
                                     /\ x = register_fifo[i - 1].output_data
  <1> DEFINE j == selected_input(i)
             x == data_out(i)
  <1>1. Eligible(i) # {} /\ Eligible(i) \subseteq Port
    BY DEF wren_out, Eligible
  <1>2. j \in Eligible(i)
    <2>1. CASE Eligible(i) = Port
      BY <2>1 DEF selected_input, Preferred, Port
    <2>2. CASE Eligible(i) # Port
      BY <1>1, <2>2 DEF selected_input
    <2> QED BY <2>1, <2>2
  <1>3. x = data_in(i, j)
    BY DEF data_out
  <1>4. \A k \in Port : rden_out(i, k, full_in) <=> k = j
    BY DEF rden_out
  <1> HIDE DEF j, x
  <1>5. /\ j \in Port /\ x # NoItem
        /\ transaction_state_ff[i] \in {TS_NO_TRANSACTION, TS_TRANSACTION_PORT(j)}
    BY <1>1, <1>2, <1>3 DEF Eligible
  <1>6. i \in Nat
    BY Places
  <1>7. CASE ~IsChained(i, j)
    <2> DEFINE s == PortSource(i, j)
    <2>1. x = head[s]
      BY <1>3, <1>7 DEF data_in
    <2>2. s \in Source /\ s \in Nat /\ s <= i + 1
      BY <1>5, <1>6, <1>7, Places DEF PortSource, Source, Port, IsChained, Node, LastNode
    <2> HIDE DEF s
    <2>3. x \in Item /\ x.source = s
      BY <1>5, <2>1, <2>2 DEF ItemsKnown
    <2>4. x \in Known(i)
      BY <1>5, <2>2, <2>3 DEF Known
    <2> QED BY <1>4, <1>5, <1>7, <2>1, <2>3, <2>4 DEF s, j, x
  <1>8. CASE IsChained(i, j)
    <2>1. i > 0 /\ j = 1 /\ i - 1 \in Node \ {LastNode}
      BY <1>8, <1>6, Places DEF IsChained
    <2>2. ~register_fifo[i - 1].empty /\ x = register_fifo[i - 1].output_data
      BY <1>3, <1>5, <1>8 DEF data_in
    <2>3. RegistersAgree(register_fifo[i - 1], Known(i - 1))
      BY <2>1, FifoAgrees
    <2>4. x \in Known(i - 1)
      BY <2>2, <2>3 DEF RegistersAgree
    <2>5. x \in Known(i)
      <3>1. x \in Item /\ x # NoItem /\ x.source \in Nat /\ x.source <= (i - 1) + 1
        BY <2>4, Places DEF Known, Item, Source
      <3> QED BY <1>6, <3>1 DEF Known
    <2> QED BY <1>4, <1>5, <1>8, <2>1, <2>2, <2>5 DEF j, x
  <1> QED BY <1>7, <1>8

(* The node at which source s enters the chain; a source is read there.    *)
Entry(s) == IF s = 0 THEN 0 ELSE s - 1

LEMMA EntryReads ==
    ASSUME ItemsKnown, NEW s \in Source, NEW full_in \in BOOLEAN
    PROVE  /\ Entry(s) \in Node
           /\ \A i \in Node, j \in Port : ~IsChained(i, j) /\ PortSource(i, j) = s => i = Entry(s)
           /\ ReadSource(s, full_in) <=>
                 /\ wren_out(Entry(s), full_in)
                 /\ ~IsChained(Entry(s), selected_input(Entry(s)))
                 /\ PortSource(Entry(s), selected_input(Entry(s))) = s
  <1>1. s \in Nat /\ s <= N - 1
    BY Places DEF Source
  <1>2. Entry(s) \in Node
    BY <1>1, Places DEF Entry, Node
  <1>3. ASSUME NEW i \in Node, NEW j \in Port, ~IsChained(i, j), PortSource(i, j) = s
        PROVE  i = Entry(s)
    <2>1. i \in Nat /\ j \in {0, 1}
      BY Places DEF Port
    <2> QED BY <1>1, <1>3, <2>1 DEF Entry, PortSource, IsChained
  <1>4. ReadSource(s, full_in) =>
                 /\ wren_out(Entry(s), full_in)
                 /\ ~IsChained(Entry(s), selected_input(Entry(s)))
                 /\ PortSource(Entry(s), selected_input(Entry(s))) = s
    <2> SUFFICES ASSUME ReadSource(s, full_in)
                 PROVE  /\ wren_out(Entry(s), full_in)
                        /\ ~IsChained(Entry(s), selected_input(Entry(s)))
                        /\ PortSource(Entry(s), selected_input(Entry(s))) = s
      OBVIOUS
    <2>1. PICK i \in Node, j \in Port :
              ~IsChained(i, j) /\ PortSource(i, j) = s /\ rden_out(i, j, full_in)
      BY DEF ReadSource
    <2>2. i = Entry(s)
      BY <1>3, <2>1
    <2>3. wren_out(i, full_in) /\ selected_input(i) = j
      BY <2>1 DEF rden_out
    <2> QED BY <2>1, <2>2, <2>3
  <1>5. ASSUME wren_out(Entry(s), full_in),
               ~IsChained(Entry(s), selected_input(Entry(s))),
               PortSource(Entry(s), selected_input(Entry(s))) = s
        PROVE  ReadSource(s, full_in)
    <2>1. selected_input(Entry(s)) \in Port
          /\ rden_out(Entry(s), selected_input(Entry(s)), full_in)
      BY <1>2, <1>5, Moves
    <2> QED BY <1>2, <1>5, <2>1 DEF ReadSource
  <1> QED BY <1>2, <1>3, <1>4, <1>5

(* A register FIFO between two nodes at a clock edge of the chain. *)
FifoEdge(i, full_in) ==
    LET f == register_fifo[i]
        e == register_fifo'[i]
        w == wren_out(i, full_in)
        r == rden_out(i + 1, 1, full_in)
    IN  /\ RegisterEdge(f, e, w, IF w THEN data_out(i) ELSE NoItem, r)
        /\ w \in BOOLEAN /\ r \in BOOLEAN
        /\ w => ~f.full /\ data_out(i) \in Known(i)
        /\ r => ~f.empty
        /\ RegistersAgree(f, Known(i)) /\ RegistersAgree(e, Known(i))

LEMMA FifoMoves ==
    ASSUME ItemsKnown, NEW full_in \in BOOLEAN, Arbitrate(full_in),
           NEW i \in Node \ {LastNode}
    PROVE  FifoEdge(i, full_in)
  <1> DEFINE f == register_fifo[i]
             e == register_fifo'[i]
             w == wren_out(i, full_in)
             r == rden_out(i + 1, 1, full_in)
             x == IF w THEN data_out(i) ELSE NoItem
  <1>1. i \in Node /\ i # LastNode /\ i + 1 \in Node /\ i \in Nat /\ (i + 1) - 1 = i
    BY Places
  <1>2. e = SkidNext(f, w, x, r)
    BY DEF Arbitrate
  <1>3. w \in BOOLEAN /\ r \in BOOLEAN
    BY DEF wren_out, rden_out
  <1>4. RegisterEdge(f, e, w, x, r)
    BY <1>2 DEF SkidNext, Direct, RegisterEdge
  <1>5. w => ~f.full /\ data_out(i) \in Known(i)
    BY <1>1, Moves DEF wren_out, NodeFull
  <1>6. r => ~f.empty
    <2> SUFFICES ASSUME r PROVE ~f.empty
      OBVIOUS
    <2>1. wren_out(i + 1, full_in) /\ selected_input(i + 1) = 1
      BY DEF rden_out
    <2>2. IsChained(i + 1, 1)
      BY <1>1 DEF IsChained
    <2>3. ~register_fifo[(i + 1) - 1].empty
      BY <1>1, <2>1, <2>2, Moves
    <2> QED BY <1>1, <2>3
  <1>7. RegistersAgree(f, Known(i))
    BY FifoAgrees
  <1> HIDE DEF f, e, w, r
  <1>8. RegistersAgree(e, Known(i))
    <2>1. w => x \in Known(i)
      BY <1>5
    <2> HIDE DEF x
    <2> QED BY <1>3, <1>4, <1>5, <1>6, <1>7, <2>1, RegisterStep
  <1> QED BY <1>3, <1>4, <1>5, <1>6, <1>7, <1>8 DEF FifoEdge, f, e, w, r
-----------------------------------------------------------------------------
(* What source s has written by node i, taken by it from the chain, and    *)
(* entered before it.                                                      *)
Wrote(i, s, full_in) == IF wren_out(i, full_in) THEN From(data_out(i), s) ELSE <<>>
Took(i, s, full_in) ==
    IF i > 0 /\ rden_out(i, 1, full_in) THEN From(register_fifo[i - 1].output_data, s)
    ELSE <<>>
Entered(i, s, full_in) ==
    IF ReadSource(s, full_in) /\ Entry(s) < i THEN <<head[s]>> ELSE <<>>

(* What the part of the chain before node i keeps of source s at an edge.  *)
Keeps(i, s, full_in) ==
    /\ Before(i, s) \in Seq(Item) /\ Before(i, s)' \in Seq(Item)
    /\ i <= Entry(s) => Before(i, s) = <<>>
    /\ Took(i, s, full_in) \o Before(i, s)' = Before(i, s) \o Entered(i, s, full_in)

(* and the part with node i. *)
Passes(i, s, full_in) ==
    Wrote(i, s, full_in) \o Before(i, s)' = Before(i, s) \o Entered(i + 1, s, full_in)

LEMMA NodePasses ==
    ASSUME ItemsKnown, NEW full_in \in BOOLEAN, NEW i \in Node, NEW s \in Source,
           Keeps(i, s, full_in)
    PROVE  Passes(i, s, full_in)
  <1> DEFINE j == selected_input(i)
             x == data_out(i)
             B == Before(i, s)
             C == Before(i, s)'
  <1>1. i \in Nat /\ Entry(s) \in Nat /\ Entry(s) \in Node
    BY Places, EntryReads
  <1>2. B \in Seq(Item) /\ C \in Seq(Item) /\ (i <= Entry(s) => B = <<>>)
        /\ Took(i, s, full_in) \o C = B \o Entered(i, s, full_in)
    BY DEF Keeps
  <1> HIDE DEF B, C
  <1>3. CASE ~wren_out(i, full_in)
    <2>1. Wrote(i, s, full_in) = <<>> /\ Took(i, s, full_in) = <<>>
      BY <1>3 DEF Wrote, Took, rden_out
    <2>2. Entered(i + 1, s, full_in) = Entered(i, s, full_in)
      BY <1>1, <1>3, EntryReads DEF Entered
    <2> QED BY <1>2, <2>1, <2>2 DEF Passes, B, C
  <1>4. CASE wren_out(i, full_in) /\ IsChained(i, j)
    <2>1. i > 0 /\ j = 1 /\ x = register_fifo[i - 1].output_data /\ rden_out(i, 1, full_in)
      BY <1>4, Moves
    <2>2. Wrote(i, s, full_in) = Took(i, s, full_in)
      BY <1>4, <2>1 DEF Wrote, Took
    <2>3. Entered(i + 1, s, full_in) = Entered(i, s, full_in)
      BY <1>1, <1>4, EntryReads DEF Entered
    <2> QED BY <1>2, <2>2, <2>3 DEF Passes, B, C
  <1>5. CASE wren_out(i, full_in) /\ ~IsChained(i, j)
    <2> DEFINE t == PortSource(i, j)
    <2>1. j \in Port /\ x = head[t] /\ x.source = t
      BY <1>5, Moves
    <2>2. Took(i, s, full_in) = <<>>
      <3>1. ~(i > 0 /\ rden_out(i, 1, full_in))
        BY <1>5 DEF rden_out, IsChained
      <3> QED BY <3>1 DEF Took
    <2>3. CASE s = t
      <3>1. i = Entry(s)
        BY <1>5, <2>1, <2>3, EntryReads
      <3>2. ReadSource(s, full_in)
        BY <1>5, <2>3, <3>1, EntryReads
      <3>3. Entered(i, s, full_in) = <<>> /\ Entered(i + 1, s, full_in) = <<head[s]>>
        BY <1>1, <3>1, <3>2 DEF Entered
      <3>4. Wrote(i, s, full_in) = <<head[s]>>
        BY <1>5, <2>1, <2>3 DEF Wrote, From
      <3>5. B = <<>> /\ C = <<>>
        <4>1. B = <<>>
          BY <1>1, <1>2, <3>1
        <4>2. <<>> \o C = C /\ <<>> \o <<>> = <<>>
          BY <1>2, ConcatEmptySeq
        <4> QED BY <1>2, <2>2, <3>3, <4>1, <4>2
      <3>6. <<head[s]>> \o <<>> = <<>> \o <<head[s]>>
        OBVIOUS
      <3> QED BY <3>3, <3>4, <3>5, <3>6 DEF Passes, B, C
    <2>4. CASE s # t
      <3>1. Wrote(i, s, full_in) = <<>>
        BY <2>1, <2>4 DEF Wrote, From
      <3>2. ~(ReadSource(s, full_in) /\ Entry(s) = i)
        BY <2>4, EntryReads
      <3>3. Entered(i + 1, s, full_in) = Entered(i, s, full_in)
        BY <1>1, <3>2 DEF Entered
      <3> QED BY <1>2, <2>2, <3>1, <3>3 DEF Passes, B, C
    <2> QED BY <2>3, <2>4
  <1> QED BY <1>3, <1>4, <1>5

(* The places before node i, with what the register FIFOs hold as argument. *)
BeforeIn(g, i, s) == FlattenSeq([k \in 1..i |-> ItemsFrom(g[i - k], s)])

LEMMA BeforeNone ==
    ASSUME NEW g, NEW s
    PROVE  BeforeIn(g, 0, s) = <<>>
  <1> DEFINE row == [k \in 1..0 |-> ItemsFrom(g[0 - k], s)]
  <1>1. row = <<>>
    OBVIOUS
  <1>2. row \in Seq({}) /\ Len(row) = 0
    BY <1>1
  <1> HIDE DEF row
  <1>3. FlattenSeq(row) = Flat(row)
    BY <1>2, FlattenIsFlat
  <1>4. Flat(row) = <<>>
    BY <1>2 DEF Flat
  <1> QED BY <1>3, <1>4 DEF BeforeIn, row

LEMMA BeforeNext ==
    ASSUME NEW S, NEW g, NEW s, NEW i \in Nat, \A k \in 0..i : ItemsFrom(g[k], s) \in Seq(S)
    PROVE  /\ BeforeIn(g, i + 1, s) = ItemsFrom(g[i], s) \o BeforeIn(g, i, s)
           /\ BeforeIn(g, i + 1, s) \in Seq(S)
  <1> DEFINE long == [k \in 1..(i + 1) |-> ItemsFrom(g[(i + 1) - k], s)]
             short == [k \in 1..i |-> ItemsFrom(g[i - k], s)]
  <1>1. \A k \in 1..(i + 1) : (i + 1) - k \in 0..i
    OBVIOUS
  <1>2. /\ long \in Seq(Seq(S)) /\ Len(long) = i + 1
        /\ \A k \in 1..(i + 1) : long[k] = ItemsFrom(g[(i + 1) - k], s)
    BY <1>1
  <1>3. \A k \in 1..i : i - k \in 0..i
    OBVIOUS
  <1>4. /\ short \in Seq(Seq(S)) /\ Len(short) = i
        /\ \A k \in 1..i : short[k] = ItemsFrom(g[i - k], s)
    BY <1>3
  <1> HIDE DEF long, short
  <1>5. long # <<>>
    BY <1>2
  <1>6. Tail(long) = short
    <2>1. /\ Tail(long) \in Seq(Seq(S)) /\ Len(Tail(long)) = i
          /\ \A k \in 1..i : Tail(long)[k] = long[k + 1]
      BY <1>2, <1>5, HeadTailProperties
    <2>2. \A k \in 1..i : k + 1 \in 1..(i + 1) /\ (i + 1) - (k + 1) = i - k
      OBVIOUS
    <2>3. \A k \in 1..i : Tail(long)[k] = short[k]
      BY <1>2, <1>4, <2>1, <2>2
    <2> QED BY <1>4, <2>1, <2>3, SeqEqual
  <1>7. Head(long) = ItemsFrom(g[i], s)
    <2>1. Head(long) = long[1] /\ 1 \in 1..(i + 1) /\ (i + 1) - 1 = i
      BY <1>2, <1>5
    <2> QED BY <1>2, <2>1
  <1>8. Flat(long) = Head(long) \o Flat(Tail(long)) /\ Flat(long) \in Seq(S)
    BY <1>2, <1>5, FlatTail, FlatType
  <1>9. FlattenSeq(long) = Flat(long) /\ FlattenSeq(short) = Flat(short)
    BY <1>2, <1>4, FlattenIsFlat
  <1> QED BY <1>6, <1>7, <1>8, <1>9 DEF BeforeIn, long, short

(* At a clock edge the chain before every node keeps what it holds. *)
LEMMA ChainKeeps ==
    ASSUME ItemsKnown, NEW full_in \in BOOLEAN, Arbitrate(full_in), NEW s \in Source,
           NEW n \in Node
    PROVE  Keeps(n, s, full_in)
  <1> DEFINE T == {i \in Node : ~Keeps(i, s, full_in)}
             g == register_fifo
             h == register_fifo'
  <1> SUFFICES ASSUME T # {} PROVE FALSE
    OBVIOUS
  <1>1. T \in SUBSET Nat
    BY Places
  <1>2. PICK m \in T : \A k \in T : m <= k
    <2> HIDE DEF T
    <2> QED BY <1>1, Least
  <1>3. m \in Node /\ m \in Nat /\ ~Keeps(m, s, full_in)
    BY <1>1, <1>2
  <1>4. \A i : Before(i, s) = BeforeIn(g, i, s) /\ Before(i, s)' = BeforeIn(h, i, s)
    BY DEF Before, BeforeIn
  <1>5. m # 0
    <2> SUFFICES ASSUME m = 0 PROVE Keeps(0, s, full_in)
      BY <1>3
    <2>1. Before(0, s) = <<>> /\ Before(0, s)' = <<>>
      BY <1>4, BeforeNone
    <2>2. Took(0, s, full_in) = <<>>
      BY DEF Took
    <2>3. Entered(0, s, full_in) = <<>>
      <3>1. Entry(s) \in Nat
        BY EntryReads, Places
      <3> QED BY <3>1 DEF Entered
    <2>4. <<>> \in Seq(Item) /\ <<>> \o <<>> = <<>>
      OBVIOUS
    <2> QED BY <2>1, <2>2, <2>3, <2>4 DEF Keeps
  <1> DEFINE i == m - 1
  <1>6. i \in Node \ {LastNode} /\ i \in Nat /\ m = i + 1 /\ i \notin T
    BY <1>2, <1>3, <1>5, Places
  <1> HIDE DEF T
  <1>7. Keeps(i, s, full_in) /\ Passes(i, s, full_in)
    <2>1. Keeps(i, s, full_in)
      BY <1>6 DEF T
    <2> QED BY <1>6, <2>1, NodePasses
  <1> HIDE DEF i
  <1> DEFINE F == ItemsFrom(g[i], s)
             G == ItemsFrom(h[i], s)
             B == Before(i, s)
             C == Before(i, s)'
             w == Wrote(i, s, full_in)
             t == Took(m, s, full_in)
             u == Entered(m, s, full_in)
  <1>8. \A k \in 0..i : /\ RegistersAgree(g[k], Known(k)) /\ ItemsFrom(g[k], s) \in Seq(Item)
                        /\ ItemsFrom(h[k], s) \in Seq(Item)
    <2> SUFFICES ASSUME NEW k \in 0..i
                 PROVE  /\ RegistersAgree(g[k], Known(k)) /\ ItemsFrom(g[k], s) \in Seq(Item)
                        /\ ItemsFrom(h[k], s) \in Seq(Item)
      OBVIOUS
    <2>1. k \in Node \ {LastNode}
      BY <1>6, Places DEF Node, LastNode
    <2>2. RegistersAgree(g[k], Known(k)) /\ RegistersAgree(h[k], Known(k))
      BY <2>1, FifoMoves DEF FifoEdge
    <2>3. \A z \in Seq(Known(k)) : z \in Seq(Item)
      BY DEF Known
    <2>4. ItemsFrom(g[k], s) \in Seq(Known(k)) /\ ItemsFrom(h[k], s) \in Seq(Known(k))
      BY <2>2, ItemsFromType
    <2> QED BY <2>2, <2>3, <2>4
  <1>9. /\ Before(m, s) = F \o B /\ Before(m, s) \in Seq(Item)
        /\ Before(m, s)' = G \o C /\ Before(m, s)' \in Seq(Item)
    <2>1. /\ BeforeIn(g, i + 1, s) = F \o BeforeIn(g, i, s) /\ BeforeIn(g, i + 1, s) \in Seq(Item)
      BY <1>6, <1>8, BeforeNext
    <2>2. /\ BeforeIn(h, i + 1, s) = G \o BeforeIn(h, i, s) /\ BeforeIn(h, i + 1, s) \in Seq(Item)
      BY <1>6, <1>8, BeforeNext
    <2> QED BY <1>4, <1>6, <2>1, <2>2
  <1>10. t \o G = F \o w
    <2> DEFINE x == IF wren_out(i, full_in) THEN data_out(i) ELSE NoItem
               ww == wren_out(i, full_in)
               rr == rden_out(i + 1, 1, full_in)
    <2>1. FifoEdge(i, full_in)
      BY <1>6, FifoMoves
    <2>2. /\ RegistersAgree(g[i], Known(i)) /\ ww \in BOOLEAN /\ rr \in BOOLEAN
          /\ ww => ~g[i].full /\ x \in Known(i)
          /\ rr => ~g[i].empty
          /\ RegisterEdge(g[i], h[i], ww, x, rr)
      BY <2>1 DEF FifoEdge
    <2>3. w = IF ww THEN From(x, s) ELSE <<>>
      BY DEF Wrote
    <2>4. t = IF rr THEN From(g[i].output_data, s) ELSE <<>>
      <3>1. m > 0 /\ m - 1 = i
        BY <1>6
      <3> QED BY <1>6, <3>1 DEF Took
    <2> HIDE DEF x, ww, rr, w, t
    <2>5. FilteredEdge(g[i], h[i], s, ww, x, rr)
      BY <2>2, FromStep
    <2> QED BY <2>3, <2>4, <2>5 DEF FilteredEdge
  <1>11. /\ t \in Seq(Item) /\ w \in Seq(Item) /\ u \in Seq(Item)
         /\ F \in Seq(Item) /\ G \in Seq(Item) /\ B \in Seq(Item) /\ C \in Seq(Item)
    <2>1. F \in Seq(Item) /\ G \in Seq(Item)
      BY <1>6, <1>8
    <2>2. B \in Seq(Item) /\ C \in Seq(Item)
      BY <1>7 DEF Keeps
    <2>3. FifoEdge(i, full_in)
      BY <1>6, FifoMoves
    <2>4. wren_out(i, full_in) => data_out(i) \in Item
      BY <2>3 DEF FifoEdge, Known
    <2>5. w \in Seq(Item)
      BY <2>4, FromType DEF Wrote
    <2>6. rden_out(i + 1, 1, full_in) => g[i].output_data \in Item
      BY <2>3 DEF FifoEdge, Known, RegistersAgree
    <2>7. t \in Seq(Item)
      <3>1. m - 1 = i
        BY <1>6
      <3> QED BY <1>6, <2>6, <3>1, FromType DEF Took
    <2>8. u \in Seq(Item)
      <3>1. CASE ReadSource(s, full_in)
        <4>1. head[s] \in Item
          <5> DEFINE e == Entry(s)
          <5>1. e \in Node /\ wren_out(e, full_in) /\ ~IsChained(e, selected_input(e))
                /\ PortSource(e, selected_input(e)) = s
            BY <3>1, EntryReads
          <5>2. data_out(e) \in Known(e) /\ data_out(e) = head[s]
            BY <5>1, Moves
          <5> QED BY <5>2 DEF Known
        <4> QED BY <4>1 DEF Entered
      <3>2. CASE ~ReadSource(s, full_in)
        BY <3>2 DEF Entered
      <3> QED BY <3>1, <3>2
    <2> QED BY <2>1, <2>2, <2>5, <2>7, <2>8
  <1>12. w \o C = B \o u
    BY <1>6, <1>7 DEF Passes
  <1>13. m <= Entry(s) => Before(m, s) = <<>>
    <2> SUFFICES ASSUME m <= Entry(s) PROVE F \o B = <<>>
      BY <1>9
    <2>1. Entry(s) \in Nat /\ s \in Nat /\ Entry(s) <= s /\ (s > 0 => Entry(s) = s - 1)
      BY Places, EntryReads DEF Entry, Source
    <2>2. B = <<>>
      BY <1>6, <1>7, <2>1 DEF Keeps
    <2>3. s > i + 1
      BY <1>6, <2>1 DEF Entry
    <2>4. RegistersAgree(g[i], Known(i))
      BY <1>6, <1>8
    <2>5. ~g[i].empty => g[i].output_data.source # s
      BY <1>6, <2>1, <2>3, <2>4, Places DEF RegistersAgree, Known, Item, Source
    <2>6. ~g[i].empty /\ g[i].overflow => g[i].overflow_data.source # s
      BY <1>6, <2>1, <2>3, <2>4, Places DEF RegistersAgree, Known, Item, Source
    <2>7. F = <<>>
      <3>1. <<>> \o <<>> = <<>>
        OBVIOUS
      <3> QED BY <2>5, <2>6, <3>1 DEF ItemsFrom, From
    <2> QED BY <2>2, <2>7
  <1> HIDE DEF F, G, B, C, w, t, u
  <1>14. t \o (G \o C) = (F \o B) \o u
    <2>1. Brackets(t, G, C) /\ Brackets(F, w, C) /\ Brackets(F, B, u)
      BY <1>11, Associates
    <2> QED BY <1>10, <1>12, <2>1 DEF Brackets
  <1>15. Keeps(m, s, full_in)
    BY <1>9, <1>13, <1>14 DEF Keeps, t, u
  <1> QED BY <1>3, <1>15
-----------------------------------------------------------------------------
(* The items stay known at a clock edge. *)
LEMMA KnownStep ==
    ASSUME ItemsKnown, NEW full_in \in BOOLEAN, Cycle(full_in)
    PROVE  ItemsKnown'
  <1>1. Arbitrate(full_in)
    BY DEF Cycle
  <1>2. PICK offer \in Offers(full_in) : Show(offer)
    BY DEF Cycle
  <1>3. ASSUME NEW s \in Source, head'[s] # NoItem
        PROVE  head'[s] \in Item /\ head'[s].source = s
    <2>1. head'[s] = IF s \in DOMAIN offer THEN Shown(s, offer[s]) ELSE head[s]
      BY <1>2 DEF Show
    <2>2. CASE s \in DOMAIN offer
      <3>1. offer[s] \in Offered \/ offer[s] = NoItem
        BY <1>2, <2>2 DEF Offers
      <3>2. offer[s] # NoItem /\ head'[s] = [source |-> s, tag |-> offer[s].tag, last |-> offer[s].last]
        BY <1>3, <2>1, <2>2 DEF Shown
      <3> QED BY <3>1, <3>2 DEF Offered, Item
    <2>3. CASE s \notin DOMAIN offer
      BY <1>3, <2>1, <2>3 DEF ItemsKnown
    <2> QED BY <2>2, <2>3
  <1>4. ASSUME NEW i \in Node \ {LastNode}
        PROVE  RegistersAgree(register_fifo'[i], Known(i))
    BY <1>1, FifoMoves DEF FifoEdge
  <1>5. ItemsKnown' <=>
        /\ \A s \in Source : head'[s] # NoItem => head'[s] \in Item /\ head'[s].source = s
        /\ \A i \in Node \ {LastNode} : RegistersAgree(register_fifo'[i], Known(i))
    BY DEF ItemsKnown, RegistersAgree, Known
  <1> QED BY <1>3, <1>4, <1>5

(* Who owns a node after a clock edge. *)
NextOwner(owner, full_in) ==
    [i \in Node |-> IF wren_out(i, full_in) THEN OwnerAfter(data_out(i)) ELSE owner[i]]

(* An item has a source, and a last bit. *)
LEMMA OwnerType ==
    ASSUME NEW x \in Item
    PROVE  /\ x.source \in Source /\ x.source # NoSource /\ x.last \in BOOLEAN
           /\ OwnerAfter(x) \in 0..N
           /\ OwnerAfter(x) = NoSource <=> x.last
  <1>1. x.source \in Source /\ x.last \in BOOLEAN
    BY DEF Item, LastBit
  <1> QED BY <1>1, Places DEF Source, NoSource, OwnerAfter

(* A node moves an item only if its owner may go on with it. *)
LEMMA OwnerGoesOn ==
    ASSUME ItemsKnown, NEW owner \in [Node -> 0..N], Owned(owner), NEW full_in \in BOOLEAN,
           NEW i \in Node, wren_out(i, full_in)
    PROVE  Follows(owner[i], data_out(i))
  <1> DEFINE j == selected_input(i)
             x == data_out(i)
  <1>1. /\ j \in Port /\ x \in Known(i)
        /\ transaction_state_ff[i] \in {TS_NO_TRANSACTION, TS_TRANSACTION_PORT(j)}
        /\ ~IsChained(i, j) => x.source = PortSource(i, j)
        /\ IsChained(i, j) => /\ i > 0 /\ j = 1 /\ ~register_fifo[i - 1].empty
                              /\ x = register_fifo[i - 1].output_data
    BY Moves
  <1> HIDE DEF j, x
  <1>2. CASE transaction_state_ff[i] = TS_NO_TRANSACTION
    BY <1>2 DEF Owned, Follows
  <1>3. CASE transaction_state_ff[i] = TS_TRANSACTION_PORT(j) /\ ~IsChained(i, j)
    BY <1>1, <1>3 DEF Owned, Follows, x
  <1>4. CASE transaction_state_ff[i] = TS_TRANSACTION_PORT(j) /\ IsChained(i, j)
    <2>1. transaction_state_ff[i] = TS_TRANSACTION_PORT(1) /\ i > 0
      BY <1>1, <1>4
    <2>2. Leads(register_fifo[i - 1], owner[i], owner[i - 1])
      BY <2>1 DEF Owned
    <2> QED BY <1>1, <1>4, <2>2 DEF Leads, x
  <1> QED BY <1>1, <1>2, <1>3, <1>4

(* The register FIFO before node i still leads from one owner to the next. *)
LEMMA LeadsOn ==
    ASSUME ItemsKnown, NEW owner \in [Node -> 0..N], Owned(owner), NEW full_in \in BOOLEAN,
           Arbitrate(full_in), NEW i \in Node, i > 0
    PROVE  Leads(register_fifo'[i - 1],
                 IF transaction_state_ff'[i] = TS_TRANSACTION_PORT(1)
                 THEN NextOwner(owner, full_in)[i] ELSE NoSource,
                 NextOwner(owner, full_in)[i - 1])
  <1> DEFINE k == i - 1
             f == register_fifo[k]
             e == register_fifo'[k]
             w == wren_out(k, full_in)
             r == rden_out(i, 1, full_in)
             x == IF w THEN data_out(k) ELSE NoItem
             a == IF transaction_state_ff[i] = TS_TRANSACTION_PORT(1) THEN owner[i] ELSE NoSource
             a2 == IF transaction_state_ff'[i] = TS_TRANSACTION_PORT(1)
                   THEN NextOwner(owner, full_in)[i] ELSE NoSource
  <1>1. i \in Nat /\ k \in Node \ {LastNode} /\ k \in Node /\ k + 1 = i
    BY Places
  <1>2. FifoEdge(k, full_in)
    BY <1>1, FifoMoves
  <1>3. /\ RegisterEdge(f, e, w, x, r) /\ w \in BOOLEAN /\ r \in BOOLEAN
        /\ w => ~f.full
        /\ r => ~f.empty
        /\ RegistersAgree(f, Known(k))
    BY <1>1, <1>2 DEF FifoEdge
  <1>4. Leads(f, a, owner[k])
    BY DEF Owned
  <1>5. w => Follows(owner[k], x)
    BY <1>1, OwnerGoesOn
  <1>6. NextOwner(owner, full_in)[k] = IF w THEN OwnerAfter(x) ELSE owner[k]
    BY <1>1 DEF NextOwner
  <1>7. a2 = IF r THEN OwnerAfter(f.output_data) ELSE a
    <2> DEFINE z == data_out(i)
               j == selected_input(i)
    <2>1. NextOwner(owner, full_in)[i] = IF wren_out(i, full_in) THEN OwnerAfter(z) ELSE owner[i]
      BY DEF NextOwner
    <2>2. transaction_state_ff'[i] = IF wren_out(i, full_in)
                                     THEN (IF z.last THEN 0 ELSE 1 + j)
                                     ELSE transaction_state_ff[i]
      BY DEF Arbitrate, transaction_state_next, TS_NO_TRANSACTION, TS_TRANSACTION_PORT
    <2>3. CASE ~wren_out(i, full_in)
      BY <2>1, <2>2, <2>3 DEF rden_out
    <2>4. CASE wren_out(i, full_in)
      <3>1. /\ j \in {0, 1} /\ z \in Known(i) /\ transaction_state_ff[i] \in {0, 1 + j}
            /\ IsChained(i, j) => z = f.output_data
        BY <2>4, Moves DEF Port, TS_NO_TRANSACTION, TS_TRANSACTION_PORT
      <3>2. z.last \in BOOLEAN /\ (OwnerAfter(z) = NoSource <=> z.last)
        BY <3>1, OwnerType DEF Known
      <3>3. r <=> j = 1
        BY <2>4 DEF rden_out
      <3>4. j = 1 => IsChained(i, j)
        BY DEF IsChained
      <3> HIDE DEF z, j, f
      <3>5. CASE j = 1
        BY <2>1, <2>2, <2>4, <3>1, <3>2, <3>3, <3>4, <3>5 DEF TS_TRANSACTION_PORT
      <3>6. CASE j = 0
        BY <2>1, <2>2, <2>4, <3>1, <3>2, <3>3, <3>6 DEF TS_TRANSACTION_PORT
      <3> QED BY <3>1, <3>5, <3>6
    <2> QED BY <2>3, <2>4
  <1> HIDE DEF f, e, w, r, x, a, a2
  <1>8. Leads(e, IF r THEN OwnerAfter(f.output_data) ELSE a,
                 IF w THEN OwnerAfter(x) ELSE owner[k])
    BY <1>3, <1>4, <1>5, LeadsStep
  <1>9. Leads(e, a2, NextOwner(owner, full_in)[k])
    BY <1>6, <1>7, <1>8
  <1> QED BY <1>9 DEF e, a2

(* The owners after a clock edge own the nodes. *)
LEMMA OwnedStep ==
    ASSUME ItemsKnown, NEW owner \in [Node -> 0..N], Owned(owner), NEW full_in \in BOOLEAN,
           Arbitrate(full_in), Observe(full_in)
    PROVE  \E next \in [Node -> 0..N] : Owned(next)'
  <1>1. PICK next : next = NextOwner(owner, full_in)
    OBVIOUS
  <1>2. ASSUME NEW i \in Node
        PROVE  /\ next[i] \in 0..N
               /\ next[i] = IF wren_out(i, full_in) THEN OwnerAfter(data_out(i)) ELSE owner[i]
    <2>1. wren_out(i, full_in) => data_out(i) \in Item
      BY Moves DEF Known
    <2> QED BY <1>1, <2>1, OwnerType DEF NextOwner
  <1>3. next \in [Node -> 0..N]
    BY <1>1, <1>2 DEF NextOwner
  <1>4. ASSUME NEW i \in Node
        PROVE  /\ transaction_state_ff'[i] \in
                     {TS_NO_TRANSACTION, TS_TRANSACTION_PORT(0), TS_TRANSACTION_PORT(1)}
               /\ transaction_state_ff'[i] = TS_NO_TRANSACTION => next[i] = NoSource
               /\ \A j \in Port :
                     transaction_state_ff'[i] = TS_TRANSACTION_PORT(j) /\ ~IsChained(i, j)
                         => next[i] = PortSource(i, j)
    <2>1. transaction_state_ff'[i] = IF wren_out(i, full_in) THEN transaction_state_next(i)
                                     ELSE transaction_state_ff[i]
      BY DEF Arbitrate
    <2>2. CASE ~wren_out(i, full_in)
      BY <1>2, <2>1, <2>2 DEF Owned
    <2>3. CASE wren_out(i, full_in)
      <3> DEFINE k == selected_input(i)
                 x == data_out(i)
      <3>1. /\ k \in Port /\ x \in Item
            /\ ~IsChained(i, k) => x.source = PortSource(i, k)
        BY <2>3, Moves DEF Known
      <3>2. next[i] = OwnerAfter(x)
        BY <1>2, <2>3
      <3>3. transaction_state_ff'[i] = IF x.last THEN TS_NO_TRANSACTION ELSE TS_TRANSACTION_PORT(k)
        BY <2>1, <2>3 DEF transaction_state_next
      <3> HIDE DEF k, x
      <3>4. x.last \in BOOLEAN /\ OwnerAfter(x) = IF x.last THEN NoSource ELSE x.source
        BY <3>1, OwnerType DEF OwnerAfter
      <3> QED BY <3>1, <3>2, <3>3, <3>4 DEF TS_NO_TRANSACTION, TS_TRANSACTION_PORT, Port
    <2> QED BY <2>2, <2>3
  <1>5. ASSUME NEW i \in Node, i > 0
        PROVE  Leads(register_fifo'[i - 1],
                     IF transaction_state_ff'[i] = TS_TRANSACTION_PORT(1)
                     THEN next[i] ELSE NoSource, next[i - 1])
    BY <1>1, <1>5, LeadsOn
  <1>6. next[LastNode] = IF delivered' = NoItem THEN NoSource ELSE OwnerAfter(delivered')
    <2>1. LastNode \in Node
      BY Places
    <2>2. delivered' = IF wren_out(LastNode, full_in) THEN data_out(LastNode) ELSE delivered
      BY DEF Observe
    <2>3. wren_out(LastNode, full_in) => data_out(LastNode) # NoItem
      BY <2>1, Moves DEF Known
    <2>4. owner[LastNode] = IF delivered = NoItem THEN NoSource ELSE OwnerAfter(delivered)
      BY DEF Owned
    <2> QED BY <1>2, <2>1, <2>2, <2>3, <2>4
  <1>7. Owned(next)'
    BY <1>4, <1>5, <1>6 DEF Owned
  <1> QED BY <1>3, <1>7

(* An empty chain holds nothing. *)
LEMMA BeforeEmpty ==
    ASSUME NEW s \in Source, register_fifo = [i \in Node \ {LastNode} |-> SkidReset]
    PROVE  Before(LastNode, s) = <<>>
  <1> DEFINE row == [k \in 1..LastNode |-> ItemsFrom(register_fifo[LastNode - k], s)]
  <1>1. LastNode \in Nat /\ \A k \in 1..LastNode : LastNode - k \in Node \ {LastNode}
    BY Places DEF Node, LastNode
  <1>2. \A k \in 1..LastNode : ItemsFrom(register_fifo[LastNode - k], s) = <<>>
    BY <1>1 DEF ItemsFrom, SkidReset
  <1>3. row \in Seq(Seq(Item)) /\ Len(row) = LastNode /\ \A k \in 1..LastNode : row[k] = <<>>
    <2>1. <<>> \in Seq(Item)
      OBVIOUS
    <2>2. \A k \in 1..LastNode : row[k] = <<>> /\ row[k] \in Seq(Item)
      BY <1>2, <2>1
    <2>3. row = [k \in 1..LastNode |-> row[k]]
      OBVIOUS
    <2> HIDE DEF row
    <2>4. row \in [1..LastNode -> Seq(Item)]
      BY <2>2, <2>3
    <2>5. row \in Seq(Seq(Item)) /\ Len(row) = LastNode
      BY <1>1, <2>4
    <2> QED BY <2>2, <2>5
  <1> HIDE DEF row
  <1>4. Flat(row) \in Seq(Item) /\ Len(Flat(row)) <= 0 * Len(row)
    <2>1. ASSUME NEW k \in 1..Len(row) PROVE Len(row[k]) <= 0
      <3>1. Len(<<>>) = 0
        OBVIOUS
      <3>2. row[k] = <<>>
        BY <1>3
      <3>3. Len(row[k]) = 0
        BY <3>1, <3>2, Zenon
      <3> QED BY <3>3
    <2> QED BY <1>3, <2>1, FlatType, FlatLength
  <1>5. Flat(row) = <<>>
    <2>1. Len(Flat(row)) \in Nat
      BY <1>4, LenProperties
    <2>2. Len(Flat(row)) = 0
      BY <1>1, <1>3, <1>4, <2>1
    <2> QED BY <1>4, <2>2, EmptySeq
  <1>6. FlattenSeq(row) = Flat(row)
    BY <1>3, FlattenIsFlat
  <1> QED BY <1>5, <1>6 DEF Before, row

(* The inductive invariant: at the start, *)
LEMMA InitMergeInv == MergeInit => MergeInv
  <1> SUFFICES ASSUME MergeInit PROVE MergeInv
    OBVIOUS
  <1>1. /\ head = [s \in Source |-> NoItem]
        /\ transaction_state_ff = [i \in Node |-> TS_NO_TRANSACTION]
        /\ register_fifo = [i \in Node \ {LastNode} |-> SkidReset]
        /\ delivered = NoItem /\ accepted = [s \in Source |-> 0] /\ count = 0
    BY DEF MergeInit, Init
  <1>2. ItemsKnown
    BY <1>1 DEF ItemsKnown, SkidReset
  <1> DEFINE owner == [i \in Node |-> NoSource]
  <1>3. owner \in [Node -> 0..N]
    BY Places DEF NoSource
  <1>4. Owned(owner)
    <2>1. ASSUME NEW i \in Node, i > 0
          PROVE  Leads(register_fifo[i - 1], NoSource, owner[i - 1])
      <3>1. i - 1 \in Node \ {LastNode}
        BY <2>1, Places
      <3> QED BY <1>1, <3>1 DEF Leads, SkidReset
    <2>2. owner[LastNode] = NoSource
      BY Places
    <2>3. \A i \in Node : owner[i] = NoSource /\ transaction_state_ff[i] = TS_NO_TRANSACTION
      BY <1>1
    <2> HIDE DEF owner
    <2> QED BY <1>1, <2>1, <2>2, <2>3 DEF Owned, TS_NO_TRANSACTION, TS_TRANSACTION_PORT, Port
  <1> QED BY <1>1, <1>2, <1>3, <1>4 DEF MergeInv

(* and at every clock edge. *)
LEMMA StepMergeInv == MergeInv /\ [MergeNext]_mergeVars => MergeInv'
  <1> SUFFICES ASSUME MergeInv, [MergeNext]_mergeVars PROVE MergeInv'
    OBVIOUS
  <1>1. CASE MergeNext
    <2>1. PICK full_in \in BOOLEAN : Observe(full_in) /\ Cycle(full_in)
      BY <1>1 DEF MergeNext
    <2>2. Arbitrate(full_in)
      BY <2>1 DEF Cycle
    <2>3. ItemsKnown
      BY DEF MergeInv
    <2>4. PICK owner \in [Node -> 0..N] : Owned(owner)
      BY DEF MergeInv
    <2>5. ItemsKnown'
      BY <2>1, <2>3, KnownStep
    <2>6. (\E next \in [Node -> 0..N] : Owned(next))'
      BY <2>1, <2>2, <2>3, <2>4, OwnedStep
    <2>7. delivered' \in Item \cup {NoItem}
      <3>1. wren_out(LastNode, full_in) => data_out(LastNode) \in Item
        BY <2>3, Moves, Places DEF Known
      <3> QED BY <2>1, <3>1 DEF Observe, MergeInv
    <2>8. accepted' \in [Source -> {0, 1}] /\ count' \in {0, 1}
      BY <2>1 DEF Observe, MergeInv
    <2> QED BY <2>5, <2>6, <2>7, <2>8 DEF MergeInv
  <1>2. CASE UNCHANGED mergeVars
    BY <1>2 DEF mergeVars, vars, MergeInv, ItemsKnown, Owned
  <1> QED BY <1>1, <1>2

(* Every clock edge is a step of Merger. *)
LEMMA StepMerges ==
    ASSUME MergeInv, MergeNext, watched = "merge", watched' = watched
    PROVE  Abstracted!Next
  <1>1. PICK full_in \in BOOLEAN : Observe(full_in) /\ Cycle(full_in)
    BY DEF MergeNext
  <1>2. Arbitrate(full_in) /\ ItemsKnown
    BY <1>1 DEF Cycle, MergeInv
  <1> DEFINE writes == wren_out(LastNode, full_in)
             x == data_out(LastNode)
  <1>3. /\ delivered' = IF writes THEN x ELSE delivered
        /\ count' = IF writes THEN 1 - count ELSE count
        /\ \A s \in Source : accepted'[s] = IF ReadSource(s, full_in) THEN 1 - accepted[s] ELSE accepted[s]
    BY <1>1 DEF Observe
  <1>4. LastNode \in Node /\ writes \in BOOLEAN /\ (writes => x \in Item)
    BY <1>2, Moves, Places DEF Known, wren_out
  <1>5. count \in {0, 1} /\ \A s \in Source : accepted[s] \in {0, 1}
    BY DEF MergeInv
  <1>6. Abstracted!Delivers <=> writes
    BY <1>3, <1>5 DEF Abstracted!Delivers
  <1>7. ASSUME NEW s \in Source
        PROVE  accepted'[s] \in {0, 1} /\ Abstracted!Conserves(s)
    <2> DEFINE old == Before(LastNode, s)
               new == Before(LastNode, s)'
               out == Wrote(LastNode, s, full_in)
               in == Entered(LastNode + 1, s, full_in)
    <2>1. accepted'[s] \in {0, 1} /\ (Abstracted!Accepts(s) <=> ReadSource(s, full_in))
      BY <1>3, <1>5 DEF Abstracted!Accepts, ReadSource
    <2>2. Keeps(LastNode, s, full_in)
      BY <1>2, <1>4, ChainKeeps
    <2>3. old \in Seq(Item) /\ new \in Seq(Item) /\ out \o new = old \o in
      BY <1>2, <1>4, <2>2, NodePasses DEF Keeps, Passes
    <2>4. in = IF ReadSource(s, full_in) THEN <<head[s]>> ELSE <<>>
      <3>1. Entry(s) \in Node
        BY <1>2, EntryReads
      <3>2. Entry(s) \in Nat /\ LastNode \in Nat /\ Entry(s) <= LastNode
        BY <3>1, Places
      <3>3. Entry(s) < LastNode + 1
        BY <3>2
      <3> QED BY <3>3 DEF Entered
    <2>5. ReadSource(s, full_in) => head[s] \in Item /\ head[s].source = s
      <3> SUFFICES ASSUME ReadSource(s, full_in) PROVE head[s] \in Item /\ head[s].source = s
        OBVIOUS
      <3> DEFINE e == Entry(s)
      <3>1. e \in Node /\ wren_out(e, full_in) /\ ~IsChained(e, selected_input(e))
            /\ PortSource(e, selected_input(e)) = s
        BY <1>2, EntryReads
      <3>2. data_out(e) \in Known(e) /\ data_out(e) = head[s] /\ data_out(e).source = s
        BY <1>2, <3>1, Moves
      <3> QED BY <3>2 DEF Known
    <2>6. out = IF Abstracted!Delivers /\ delivered'.source = s THEN <<delivered'>> ELSE <<>>
      BY <1>3, <1>6 DEF Wrote, From
    <2> HIDE DEF old, new, out, in
    <2> DEFINE all == out \o new
    <2>7. ~ReadSource(s, full_in) => all = old
      BY <2>3, <2>4, ConcatEmptySeq
    <2>8. ReadSource(s, full_in) =>
              /\ Len(all) = Len(old) + 1
              /\ SubSeq(all, 1, Len(old)) = old
              /\ all[Len(all)] \in Item /\ all[Len(all)].source = s
      <3> SUFFICES ASSUME ReadSource(s, full_in)
                   PROVE  /\ Len(all) = Len(old) + 1
                          /\ SubSeq(all, 1, Len(old)) = old
                          /\ all[Len(all)] \in Item /\ all[Len(all)].source = s
        OBVIOUS
      <3> DEFINE y == head[s]
                 n == Len(old)
      <3>1. y \in Item /\ y.source = s /\ all = old \o <<y>> /\ n \in Nat
        BY <2>3, <2>4, <2>5, LenProperties
      <3> HIDE DEF y, all, n
      <3>2. /\ all \in Seq(Item) /\ Len(all) = n + 1 /\ all[n + 1] = y
            /\ \A k \in 1..n : all[k] = old[k]
        BY <2>3, <3>1 DEF n
      <3>3. SubSeq(all, 1, n) = old
        <4>1. /\ SubSeq(all, 1, n) \in Seq(Item) /\ Len(SubSeq(all, 1, n)) = n
              /\ \A k \in 1..n : SubSeq(all, 1, n)[k] = all[k]
          BY <3>1, <3>2
        <4> QED BY <2>3, <3>2, <4>1, SeqEqual DEF n
      <3> QED BY <3>1, <3>2, <3>3 DEF n
    <2>9. Abstracted!Conserves(s)
      BY <2>1, <2>6, <2>7, <2>8 DEF Abstracted!Conserves, old, new
    <2> QED BY <2>1, <2>9
  <1>8. writes => ~Abstracted!Barred(delivered'.source)
    <2> SUFFICES ASSUME writes, delivered # NoItem, ~delivered.last PROVE delivered.source = x.source
      BY <1>3 DEF Abstracted!Barred
    <2>1. PICK owner \in [Node -> 0..N] : Owned(owner)
      BY DEF MergeInv
    <2>2. delivered \in Item
      BY DEF MergeInv
    <2>3. owner[LastNode] = delivered.source /\ delivered.source # NoSource
      BY <2>1, <2>2, OwnerType DEF Owned, OwnerAfter
    <2>4. Follows(owner[LastNode], x)
      BY <1>2, <1>4, <2>1, OwnerGoesOn
    <2> QED BY <2>3, <2>4 DEF Follows
  <1> QED BY <1>3, <1>5, <1>6, <1>7, <1>8 DEF Abstracted!Next

(* A merger of any number of sources delivers every item once, in the      *)
(* order of its source, and tears no transaction apart, whatever the       *)
(* lengths of the transactions and the back-pressure.                      *)
THEOREM ImplementsMergerHolds == MCSpec => ImplementsMerger
  <1> DEFINE MCInv == watched = "merge" => MergeInv
  <1>1. MCInit => MCInv
    BY InitMergeInv DEF MCInit
  <1>2. MCInv /\ [MCNext]_mcVars => MCInv'
    <2> SUFFICES ASSUME MCInv, [MCNext]_mcVars, (watched = "merge")' PROVE MergeInv'
      OBVIOUS
    <2>1. watched' = watched
      BY DEF MCNext, mcVars
    <2>2. [MergeNext]_mergeVars
      BY <2>1 DEF MCNext, mcVars
    <2> QED BY <2>1, <2>2, StepMergeInv
  <1>3. MCInit => Abstracted!Init
    <2> SUFFICES ASSUME MCInit PROVE Abstracted!Init
      OBVIOUS
    <2>1. delivered = NoItem /\ accepted = [s \in Source |-> 0] /\ count = 0
      BY DEF MCInit, MergeInit, Unwatched
    <2>2. ASSUME NEW s \in Source, watched = "merge" PROVE Before(LastNode, s) = <<>>
      BY <2>2, BeforeEmpty DEF MCInit, MergeInit, Init
    <2> QED BY <2>1, <2>2 DEF Abstracted!Init
  <1>4. MCInv /\ [MCNext]_mcVars => [Abstracted!Next]_(Abstracted!mergerVars)
    <2> SUFFICES ASSUME MCInv, [MCNext]_mcVars
                 PROVE  [Abstracted!Next]_(Abstracted!mergerVars)
      OBVIOUS
    <2>1. watched' = watched
      BY DEF MCNext, mcVars
    <2>2. CASE watched = "merge" /\ MergeNext
      BY <2>1, <2>2, StepMerges
    <2>3. CASE UNCHANGED <<delivered, accepted, count>> /\ watched # "merge"
      BY <2>1, <2>3 DEF Abstracted!mergerVars
    <2>4. CASE UNCHANGED mcVars
      BY <2>4 DEF mcVars, mergeVars, vars, Abstracted!mergerVars, Before
    <2> QED BY <2>2, <2>3, <2>4 DEF MCNext
  <1> HIDE DEF MCInv
  <1> QED BY <1>1, <1>2, <1>3, <1>4, PTL DEF MCSpec, ImplementsMerger, Abstracted!Spec
=============================================================================
