------------------------------- MODULE Merger -------------------------------
(***************************************************************************)
(* What a FIFO merger promises: the items of every source reach the        *)
(* destination in the order in which they were accepted, each exactly once,*)
(* and a transaction, once begun at the destination, is completed before   *)
(* an item of another source follows.  At a clock edge any number of       *)
(* sources may have an item accepted and one item may be delivered.        *)
(***************************************************************************)
EXTENDS Sequences, Naturals

CONSTANTS Source, Item, NoItem   \* an item has fields source and last

VARIABLES queue,      \* per source, items accepted and not yet delivered
          delivered,  \* the item delivered last
          accepted,   \* per source, parity of the number of items accepted
          count       \* parity of the number of items delivered

mergerVars == <<queue, delivered, accepted, count>>

Init ==
    /\ queue = [s \in Source |-> <<>>]
    /\ delivered = NoItem
    /\ accepted = [s \in Source |-> 0]
    /\ count = 0

(* The destination is inside a transaction of another source than s. *)
Barred(s) == delivered # NoItem /\ ~delivered.last /\ delivered.source # s

Delivers == count' = 1 - count
Accepts(s) == accepted'[s] = 1 - accepted[s]

(* What is delivered of source s and what remains queued, together, is     *)
(* what was queued, and one more item if one is accepted.  An item may be  *)
(* accepted and delivered at the same edge.                                *)
Conserves(s) ==
    LET out == IF Delivers /\ delivered'.source = s THEN <<delivered'>> ELSE <<>>
        all == out \o queue'[s]
        old == queue[s]
    IN  IF ~Accepts(s) THEN all = old
        ELSE /\ Len(all) = Len(old) + 1
             /\ SubSeq(all, 1, Len(old)) = old
             /\ all[Len(all)] \in Item /\ all[Len(all)].source = s

Next ==
    /\ count' \in {0, 1}
    /\ \A s \in Source : accepted'[s] \in {0, 1} /\ Conserves(s)
    /\ IF Delivers THEN ~Barred(delivered'.source) ELSE delivered' = delivered

Spec == Init /\ [][Next]_mergerVars
=============================================================================
