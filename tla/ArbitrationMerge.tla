-------------------------- MODULE ArbitrationMerge --------------------------
(***************************************************************************)
(* The arbitration chain observed from outside: what is read from the      *)
(* sources and what the destination gets, against the promise of Merger.   *)
(***************************************************************************)
EXTENDS ArbitrationChain, SequencesExt

VARIABLES delivered,         \* the item the destination got last
          accepted, count    \* parities of the items read from sources and delivered

mergeVars == <<vars, delivered, accepted, count>>

MergeInit ==
    /\ Init
    /\ delivered = NoItem
    /\ accepted = [s \in Source |-> 0] /\ count = 0

Observe(full_in) ==
    LET writes == wren_out(LastNode, full_in)
    IN  /\ delivered' = IF writes THEN data_out(LastNode) ELSE delivered
        /\ count' = IF writes THEN 1 - count ELSE count
        /\ accepted' = [s \in Source |->
              IF ReadSource(s, full_in) THEN 1 - accepted[s] ELSE accepted[s]]

MergeNext == \E full_in \in BOOLEAN : Observe(full_in) /\ Cycle(full_in)

MergeSpec == MergeInit /\ [][MergeNext]_mergeVars
-----------------------------------------------------------------------------
(* The items of source s in a register FIFO, and in all those before node  *)
(* i, oldest first.                                                        *)
From(x, s) == IF x.source = s THEN <<x>> ELSE <<>>
ItemsFrom(fifo, s) ==
    IF fifo.empty THEN <<>>
    ELSE From(fifo.output_data, s)
         \o (IF fifo.overflow THEN From(fifo.overflow_data, s) ELSE <<>>)
Before(i, s) == FlattenSeq([k \in 1..i |-> ItemsFrom(register_fifo[i - k], s)])
-----------------------------------------------------------------------------
(* The source whose transaction is open after item x, and whether x may    *)
(* come next while the transaction of an owner is open.                    *)
NoSource == N
OwnerAfter(x) == IF x.last THEN NoSource ELSE x.source
Follows(owner, x) == owner \in {NoSource, x.source}

(* The items in a register FIFO continue the transaction of the owner that *)
(* is open at its reader, and leave open that of the owner at its writer.  *)
Leads(fifo, reader, writer) ==
    IF fifo.empty THEN writer = reader
    ELSE /\ Follows(reader, fifo.output_data)
         /\ LET first == OwnerAfter(fifo.output_data)
            IN  IF ~fifo.overflow THEN writer = first
                ELSE /\ Follows(first, fifo.overflow_data)
                     /\ writer = OwnerAfter(fifo.overflow_data)

(* Heads carry the name of their source, and a register FIFO behind node i *)
(* has items of the sources of nodes up to i only.                         *)
ItemsKnown ==
    /\ \A s \in Source : head[s] # NoItem => head[s] \in Item /\ head[s].source = s
    /\ \A i \in Node \ {LastNode} :
          LET f == register_fifo[i]
              known == {x \in Item : x # NoItem /\ x.source <= i + 1}
          IN  /\ f.full \in BOOLEAN /\ f.empty \in BOOLEAN
              /\ f.overflow = f.full /\ f.internal_empty = f.empty
              /\ f.overflow => ~f.empty /\ f.overflow_data \in known
              /\ ~f.empty => f.output_data \in known

(* A node inside a transaction belongs to its owner, which is the source   *)
(* at its port or the one whose items the port shows next; what was        *)
(* delivered last is of the owner of the last node.                        *)
Owned(owner) ==
    /\ \A i \in Node :
          /\ transaction_state_ff[i] \in
                {TS_NO_TRANSACTION, TS_TRANSACTION_PORT(0), TS_TRANSACTION_PORT(1)}
          /\ transaction_state_ff[i] = TS_NO_TRANSACTION => owner[i] = NoSource
          /\ \A j \in Port :
                transaction_state_ff[i] = TS_TRANSACTION_PORT(j) /\ ~IsChained(i, j)
                    => owner[i] = PortSource(i, j)
          /\ i > 0 => Leads(register_fifo[i - 1],
                            IF transaction_state_ff[i] = TS_TRANSACTION_PORT(1)
                            THEN owner[i] ELSE NoSource,
                            owner[i - 1])
    /\ owner[LastNode] = IF delivered = NoItem THEN NoSource ELSE OwnerAfter(delivered)

(* The inductive invariant behind the refinement of Merger. *)
MergeInv ==
    /\ ItemsKnown
    /\ \E owner \in [Node -> 0..N] : Owned(owner)
    /\ delivered \in Item \cup {NoItem}
    /\ accepted \in [Source -> {0, 1}] /\ count \in {0, 1}
=============================================================================
