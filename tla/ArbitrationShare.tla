-------------------------- MODULE ArbitrationShare --------------------------
(***************************************************************************)
(* The shares the sources of an arbitration chain get when every source    *)
(* always has something to show.                                           *)
(***************************************************************************)
EXTENDS ArbitrationChain, FiniteSetsExt

VARIABLES overtaken,   \* transactions begun at a node while the other port waits
          share        \* per source, transactions begun at the destination beyond
                       \* those of the source that has fewest

shareVars == <<vars, overtaken, share>>

ShareInit ==
    /\ Init
    /\ overtaken = [i \in Node |-> [j \in Port |-> 0]]
    /\ share = [s \in Source |-> 0]

(* Node i begins a transaction. *)
Begins(i, full_in) == wren_out(i, full_in) /\ transaction_state_ff[i] = TS_NO_TRANSACTION

(* Shares are kept relative to the smallest. *)
Levelled(f) == [s \in Source |-> f[s] - Min({f[t] : t \in Source})]

CountShares(full_in) ==
    /\ overtaken' = [i \in Node |-> [j \in Port |->
          IF data_in(i, j) = NoItem \/ rden_out(i, j, full_in) THEN 0
          ELSE overtaken[i][j] + (IF Begins(i, full_in) THEN 1 ELSE 0)]]
    /\ share' = IF Begins(LastNode, full_in)
                THEN Levelled([share EXCEPT ![data_out(LastNode).source] = @ + 1])
                ELSE share

ShareNext ==
    \E full_in \in BOOLEAN :
        /\ Arbitrate(full_in) /\ CountShares(full_in)
        /\ \E offer \in [Ready(full_in) -> Offered] : Show(offer)

ShareSpec == ShareInit /\ [][ShareNext]_shareVars
-----------------------------------------------------------------------------
(* A waiting port 0 is passed over by at most RATIO - 1 transactions, a    *)
(* waiting port 1 by one: "the arbitration probability on port #0 of       *)
(* 1/RATIO", as a bound.                                                   *)
BoundedOvertaking ==
    \A i \in Node : overtaken[i][0] <= THRESH(i) /\ overtaken[i][1] <= 1

(* "to get each requester the same priority of 1/N": at any time no source *)
(* has had more than two transactions more than any other, for ever.       *)
FairShare == \A s \in Source : share[s] <= 2
-----------------------------------------------------------------------------
(* The inductive invariant behind BoundedOvertaking.                       *)
NodesTypeOK ==
    /\ priority_ff \in [Node -> Nat]
    /\ \A i \in Node : priority_ff[i] <= THRESH(i)
    /\ transaction_state_ff \in
          [Node -> {TS_NO_TRANSACTION, TS_TRANSACTION_PORT(0), TS_TRANSACTION_PORT(1)}]
    /\ overtaken \in [Node -> [Port -> Nat]]

(* Port 0 has been passed over by no more transactions than the counter    *)
(* has seen finish, and the one that is under way.                         *)
Port0Waits(i) ==
    CASE transaction_state_ff[i] = TS_NO_TRANSACTION ->
            overtaken[i][0] <= priority_ff[i]
      [] transaction_state_ff[i] = TS_TRANSACTION_PORT(0) ->
            overtaken[i][0] = 0
      [] OTHER ->
            /\ overtaken[i][0] <= priority_ff[i] + 1
            /\ priority_ff[i] = THRESH(i) => overtaken[i][0] = 0

(* Port 1 has been passed over only if port 0 has just had its turn. *)
Port1Waits(i) ==
    /\ overtaken[i][1] <= 1
    /\ overtaken[i][1] = 1 =>
          CASE transaction_state_ff[i] = TS_NO_TRANSACTION -> priority_ff[i] = 0
            [] transaction_state_ff[i] = TS_TRANSACTION_PORT(0) -> priority_ff[i] = THRESH(i)
            [] OTHER -> FALSE

IInv == NodesTypeOK /\ \A i \in Node : Port0Waits(i) /\ Port1Waits(i)
-----------------------------------------------------------------------------
(* The schedule behind FairShare.  The transactions that leave node i come *)
(* in rounds of RATIO = i + 2; a position is a round and a slot, and the   *)
(* slot is what priority_ff holds.                                         *)
Position == [round : Nat, slot : Nat]
First == [round |-> 0, slot |-> 0]
Succ(i, p) == IF p.slot = i + 1 THEN [round |-> p.round + 1, slot |-> 0]
              ELSE [round |-> p.round, slot |-> p.slot + 1]

(* At the first edge with something to show the register FIFOs are empty,  *)
(* so the nodes behind them begin with their own source, out of turn; the  *)
(* last node does not if it has to wait there (late).                      *)
Forced(late, i) == i > 0 /\ ~(late /\ i = LastNode)

(* Port 0 has its turn in the last slot of a round.                        *)
Own(late, i, p) == p.slot = i + 1 \/ (p = First /\ Forced(late, i))

(* The position, at node i - 1, of what node i has next on port 1 when it  *)
(* is at p, and how many transactions port 0 has had by then.              *)
Down(late, i, p) ==
    IF p = First \/ ~Forced(late, i)
    THEN IF p.slot = i + 1 THEN [round |-> p.round + 1, slot |-> 0] ELSE p
    ELSE IF p.slot = 0 THEN [round |-> p.round - 1, slot |-> i]
    ELSE [round |-> p.round, slot |-> p.slot - 1]

Owns(late, i, p) == p.round + (IF p # First /\ Forced(late, i) THEN 1 ELSE 0)

(* The node at which source s enters, and the positions at the nodes       *)
(* before node i of the transaction that is at p there: it is of source s. *)
Entry(s) == IF s = 0 THEN 0 ELSE s - 1
IsOf(late, i, p, s) ==
    /\ s \in Source /\ Entry(s) <= i
    /\ \E way \in [0..i -> Position] :
          /\ way[i] = p
          /\ \A l \in (Entry(s) + 1)..i :
                ~Own(late, l, way[l]) /\ way[l - 1] = Down(late, l, way[l])
          /\ Own(late, Entry(s), way[Entry(s)]) <=> s # 1

(* The position after an item x at p, and what the register FIFO behind    *)
(* node i holds if its reader is at p and its writer at w.                 *)
PositionAfter(i, p, x) == IF x.last THEN Succ(i, p) ELSE p
Carries(late, i, f, p, w) ==
    IF f.empty THEN w = p
    ELSE /\ IsOf(late, i, p, f.output_data.source)
         /\ LET next == PositionAfter(i, p, f.output_data)
            IN  IF ~f.overflow THEN w = next
                ELSE /\ IsOf(late, i, next, f.overflow_data.source)
                     /\ w = PositionAfter(i, next, f.overflow_data)

(* Where the nodes are (at) agrees with their registers and FIFOs. *)
Scheduled(late, at) ==
    /\ \A i \in Node :
          /\ at[i].slot = priority_ff[i] /\ at[i].slot <= i + 1
          /\ transaction_state_ff[i] \in
                {TS_NO_TRANSACTION, TS_TRANSACTION_PORT(0), TS_TRANSACTION_PORT(1)}
          /\ \A j \in Port : transaction_state_ff[i] = TS_TRANSACTION_PORT(j)
                => (Own(late, i, at[i]) <=> j = 0)
    /\ \A i \in Node \ {LastNode} :
          Carries(late, i, register_fifo[i], Down(late, i + 1, at[i + 1]), at[i])

(* After the start every port always shows something, and the nodes that   *)
(* were to begin out of turn have done so.                                 *)
Running(late, at) ==
    /\ \A i \in Node \ {LastNode} : ~register_fifo[i].empty
    /\ \A i \in Node : Forced(late, i) /\ at[i] = First
          => transaction_state_ff[i] = TS_TRANSACTION_PORT(0)

(* The transactions begun at the destination, followed back to where they  *)
(* come from (back), say how many each source has had.                     *)
Begun(at) == IF transaction_state_ff[LastNode] = TS_NO_TRANSACTION THEN at[LastNode]
             ELSE Succ(LastNode, at[LastNode])
HasHad(late, s, back) ==
    IF s = 1 THEN back[0].round + back[0].slot ELSE Owns(late, Entry(s), back[Entry(s)])
Shared(late, at, back) ==
    /\ back[LastNode] = Begun(at)
    /\ \A i \in Node : back[i].slot <= i + 1
                       /\ (i > 0 => back[i - 1] = Down(late, i, back[i]))
    /\ share \in [Source -> Nat] /\ \E s \in Source : share[s] = 0
    /\ \E least \in Nat : \A s \in Source : HasHad(late, s, back) = share[s] + least

(* The register FIFOs are sound, and what they and the sources show are    *)
(* items.                                                                  *)
ItemsShown ==
    /\ \/ \A s \in Source : head[s] = NoItem
       \/ \A s \in Source : head[s] \in Item /\ head[s].source = s
    /\ \A i \in Node \ {LastNode} :
          LET f == register_fifo[i]
          IN  /\ f.full \in BOOLEAN /\ f.empty \in BOOLEAN
              /\ f.overflow = f.full /\ f.internal_empty = f.empty
              /\ f.overflow => ~f.empty /\ f.overflow_data \in Item
              /\ ~f.empty => f.output_data \in Item

Fresh ==
    /\ \A i \in Node : priority_ff[i] = 0 /\ transaction_state_ff[i] = TS_NO_TRANSACTION
    /\ \A i \in Node \ {LastNode} : register_fifo[i].empty
    /\ share = [s \in Source |-> 0]

(* The inductive invariant behind FairShare. *)
ShareInv ==
    /\ ItemsShown
    /\ \/ Fresh
       \/ /\ head[0] # NoItem
          /\ \E late \in BOOLEAN, at, back \in [Node -> Position] :
                Scheduled(late, at) /\ Running(late, at) /\ Shared(late, at, back)
=============================================================================
