-------------------------------- MODULE Fifo --------------------------------
(***************************************************************************)
(* What every FIFO of the runtime library promises: items come out in the  *)
(* order in which they were put in, each exactly once, and never more than *)
(* CAPACITY are under way.  A clock edge may put an item in and take one   *)
(* out; a reset forgets everything.  The parities of the numbers of items  *)
(* put in and taken out make every hand-over visible, so that a write that *)
(* is lost and an item that is delivered twice are not mistaken for steps  *)
(* in which nothing happens.                                               *)
(***************************************************************************)
EXTENDS Sequences, Naturals

CONSTANTS Item, CAPACITY, NoItem

VARIABLES queue,       \* items accepted and not yet delivered
          delivered,   \* the item delivered last
          sent,        \* parity of the number of items put in
          received     \* parity of the number of items taken out

fifoVars == <<queue, delivered, sent, received>>

Init == queue = <<>> /\ delivered = NoItem /\ sent = 0 /\ received = 0

Put(i) ==
    /\ queue' = Append(queue, i)
    /\ Len(queue') <= CAPACITY
    /\ sent' = 1 - sent
    /\ UNCHANGED <<delivered, received>>

Take ==
    /\ queue # <<>>
    /\ delivered' = Head(queue)
    /\ queue' = Tail(queue)
    /\ received' = 1 - received
    /\ UNCHANGED sent

PutAndTake(i) ==
    /\ queue # <<>>
    /\ delivered' = Head(queue)
    /\ queue' = Append(Tail(queue), i)
    /\ sent' = 1 - sent
    /\ received' = 1 - received

Reset == queue' = <<>> /\ delivered' = NoItem /\ sent' = 0 /\ received' = 0

Next == Take \/ Reset \/ \E i \in Item : Put(i) \/ PutAndTake(i)

Spec == Init /\ [][Next]_fifoVars
=============================================================================
