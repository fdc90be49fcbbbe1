-------------------------- MODULE ArbitrationChain --------------------------
(***************************************************************************)
(* A FIFO merger as InstantiateFifoMergers of the compiler builds it: N    *)
(* sources compete for one destination through a chain of N-1 two-input    *)
(* arbiters, KanagawaArbitrationChainNode (arbitration_chain.sv).  Port 0  *)
(* of node i is a source, port 1 the register FIFO filled by node i-1 (a   *)
(* source for node 0).  A node inside a transaction sticks to its port;    *)
(* otherwise a counter of finished transactions gives port 0 one turn in   *)
(* RATIO = i + 2, so that every source gets one in N.                      *)
(*                                                                         *)
(* The sources are FIFO outputs: an item stays there until it is read.     *)
(* The destination raises full_in at any time.                             *)
(***************************************************************************)
EXTENDS Naturals, Sequences, RegisterFifoSkid

CONSTANTS N,                 \* sources
          IS_TRANSACTIONAL,
          TRANSACTION_SIZE,  \* items of the longest transaction
          Tag                \* payloads

VARIABLES head,            \* what the sources show, NoItem if empty
          opened,          \* items each source has shown of its open transaction
          priority_ff, transaction_state_ff,   \* of each node
          register_fifo    \* the register FIFOs between the nodes

vars == <<head, opened, priority_ff, transaction_state_ff, register_fifo>>

Source == 0..(N - 1)
Node == 0..(N - 2)
LastNode == N - 2
Port == {0, 1}

LastBit == IF IS_TRANSACTIONAL THEN BOOLEAN ELSE {TRUE}
Item == [source : Source, tag : Tag, last : LastBit]
Offered == [tag : Tag, last : LastBit]   \* an item but for its source

ASSUME ArbitrationAssumption ==
    /\ N \in Nat \ {0, 1} /\ IS_TRANSACTIONAL \in BOOLEAN
    /\ TRANSACTION_SIZE \in Nat \ {0}
    /\ NoItem \notin Item /\ NoItem \notin Offered

TS_NO_TRANSACTION == 0
TS_TRANSACTION_PORT(j) == 1 + j
MutThresh(i) == 1

(* RATIO is i + 2. *)
THRESH(i) == (i + 2) - 1

(* The wiring of the chain: the source at a port, and what the port shows. *)
PortSource(i, j) == IF i = 0 THEN j ELSE i + 1
IsChained(i, j) == j = 1 /\ i > 0

data_in(i, j) ==
    IF ~IsChained(i, j) THEN head[PortSource(i, j)]
    ELSE IF register_fifo[i - 1].empty THEN NoItem
    ELSE register_fifo[i - 1].output_data
-----------------------------------------------------------------------------
MutEligible(i) == {j \in Port : data_in(i, j) # NoItem}

(* The ports node i may read: those with data, and inside a transaction    *)
(* its own only.                                                           *)
Eligible(i) ==
    {j \in Port :
        /\ data_in(i, j) # NoItem
        /\ transaction_state_ff[i] \in {TS_NO_TRANSACTION, TS_TRANSACTION_PORT(j)}}

(* The port that wins a tie. *)
Preferred(i) == IF priority_ff[i] = THRESH(i) THEN 0 ELSE 1

selected_input(i) ==
    IF Eligible(i) = Port THEN Preferred(i) ELSE CHOOSE j \in Eligible(i) : TRUE

(* Back-pressure at node i, and whether it moves an item. *)
NodeFull(i, full_in) == IF i = LastNode THEN full_in ELSE register_fifo[i].full
wren_out(i, full_in) == ~NodeFull(i, full_in) /\ Eligible(i) # {}
rden_out(i, j, full_in) == wren_out(i, full_in) /\ selected_input(i) = j
data_out(i) == data_in(i, selected_input(i))

MutPrioritySticky(i) ==
    IF priority_ff[i] = THRESH(i) THEN priority_ff[i] ELSE priority_ff[i] + 1
MutPriorityTooLong(i) ==
    IF priority_ff[i] = THRESH(i) + 1 THEN 0 ELSE priority_ff[i] + 1

(* The counter after a finished transaction. *)
priority_next(i) == IF priority_ff[i] = THRESH(i) THEN 0 ELSE priority_ff[i] + 1

(* The state of node i after it has moved an item. *)
transaction_state_next(i) ==
    IF data_out(i).last THEN TS_NO_TRANSACTION
    ELSE TS_TRANSACTION_PORT(selected_input(i))

Init ==
    /\ head = [s \in Source |-> NoItem]
    /\ opened = [s \in Source |-> 0]
    /\ priority_ff = [i \in Node |-> 0]
    /\ transaction_state_ff = [i \in Node |-> TS_NO_TRANSACTION]
    /\ register_fifo = [i \in Node \ {LastNode} |-> SkidReset]

(* Source s was read at this edge. *)
ReadSource(s, full_in) ==
    \E i \in Node, j \in Port :
        ~IsChained(i, j) /\ PortSource(i, j) = s /\ rden_out(i, j, full_in)

(* The nodes at a clock edge with full_in on the destination. *)
Arbitrate(full_in) ==
    LET wren == [i \in Node |-> wren_out(i, full_in)]
    IN  /\ priority_ff' = [i \in Node |->
              IF wren[i] /\ data_out(i).last THEN priority_next(i) ELSE priority_ff[i]]
        /\ transaction_state_ff' = [i \in Node |->
              IF wren[i] THEN transaction_state_next(i) ELSE transaction_state_ff[i]]
        /\ register_fifo' = [i \in Node \ {LastNode} |->
              SkidNext(register_fifo[i], wren[i], IF wren[i] THEN data_out(i) ELSE NoItem,
                       rden_out(i + 1, 1, full_in))]

(* The sources that may show something new after the edge: those that had  *)
(* nothing to show and those that were read.  An offer says what they show *)
(* (NoItem: nothing); transactions end in time.                            *)
Ready(full_in) == {s \in Source : head[s] = NoItem \/ ReadSource(s, full_in)}
Offers(full_in) == [Ready(full_in) -> Offered \cup {NoItem}]

Shown(s, c) ==
    IF c = NoItem THEN NoItem ELSE [source |-> s, tag |-> c.tag, last |-> c.last]

Show(offer) ==
    LET shows == {s \in DOMAIN offer : offer[s] # NoItem}
    IN  /\ \A s \in shows : offer[s].last \/ opened[s] + 1 < TRANSACTION_SIZE
        /\ head' = [s \in Source |->
              IF s \in DOMAIN offer THEN Shown(s, offer[s]) ELSE head[s]]
        /\ opened' = [s \in Source |->
              IF s \notin shows THEN opened[s]
              ELSE IF offer[s].last THEN 0 ELSE opened[s] + 1]

(* A clock edge with full_in on the destination. *)
Cycle(full_in) == Arbitrate(full_in) /\ \E offer \in Offers(full_in) : Show(offer)

Next == \E full_in \in BOOLEAN : Cycle(full_in)

Spec == Init /\ [][Next]_vars

(* The destination has room again and again as long as that lets anything  *)
(* move, and a source that has begun a transaction goes on with it.  No    *)
(* source is made to begin one.                                            *)
Quiet == Arbitrate(FALSE) /\ Show([s \in Ready(FALSE) |-> NoItem])
Drain == (ENABLED <<Quiet>>_vars) /\ Cycle(FALSE)
Continue(s) ==
    /\ head[s] = NoItem /\ opened[s] > 0
    /\ \E full_in \in BOOLEAN :
          /\ Arbitrate(full_in)
          /\ \E offer \in Offers(full_in) : offer[s] # NoItem /\ Show(offer)
FairSpec == Spec /\ WF_vars(Drain) /\ \A s \in Source : WF_vars(Continue(s))
-----------------------------------------------------------------------------
(* The registers keep their types; the counter of a node stays within the  *)
(* ratio it was given.                                                     *)
TypeOK ==
    /\ head \in [Source -> Item \cup {NoItem}]
    /\ opened \in [Source -> 0..(TRANSACTION_SIZE - 1)]
    /\ \A i \in Node : priority_ff[i] \in 0..THRESH(i)
    /\ transaction_state_ff \in [Node -> 0..2]
    /\ register_fifo \in [Node \ {LastNode} -> SkidStates(Item)]

(* A step in which source s is read. *)
Served(s) ==
    \E full_in \in BOOLEAN : ReadSource(s, full_in) /\ Cycle(full_in)
=============================================================================
