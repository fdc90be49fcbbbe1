------------------------- MODULE ExternReturnRouter -------------------------
(***************************************************************************)
(* KanagawaExternReturnRouter (extern_return_router.sv): calls of an       *)
(* external function from several call sites share its ports.  The index   *)
(* of the call site waits in a FIFO for the result; a join pairs the two,  *)
(* and a chain of switch nodes takes the result to its call site.  The     *)
(* join and the nodes register their ready signals, so each has a side     *)
(* track for the item that arrives after they have stopped.                *)
(*                                                                         *)
(* The callers, the external function and the index FIFO's two clocks are  *)
(* the environment: indices and results come to the join at any time, each *)
(* in the order of the calls.                                              *)
(***************************************************************************)
EXTENDS Integers, Sequences, SequencesExt

CONSTANTS NUM_OUTPUT_PORTS,
          CallSite,      \* the call site index of each port, in chain order
          MatchWidth,    \* bits of match_counter
          MaxCalls,      \* bound: calls under way (the index FIFO's depth)
          Tag,           \* results of one call site are numbered modulo Tag
          None

Port == 1..NUM_OUTPUT_PORTS

(* A result is known by the port of its call and its number. *)
Datum == Port \X (0..(Tag - 1))
SwitchRegisters == [valid : BOOLEAN, match_counter : 0..(2^MatchWidth - 1),
                    data : Datum \cup {None}]

(* Call site indices are distinct but need not be contiguous. *)
RouterAssumption ==
    /\ NUM_OUTPUT_PORTS \in Nat \ {0} /\ MaxCalls \in Nat \ {0} /\ Tag \in Nat \ {0}
    /\ CallSite \in [Port -> Nat] /\ IsInjective(CallSite)
    /\ MatchWidth \in Nat \ {0} /\ 2^(MatchWidth - 1) >= NUM_OUTPUT_PORTS
    /\ 2^(MatchWidth - 1) \in Nat /\ 2^MatchWidth = 2 * 2^(MatchWidth - 1)
    /\ None \notin Nat \cup Datum \cup SwitchRegisters

VARIABLES
    due,              \* due[p]: results port p has not been given yet, in order
    next_tag,
    indices, results, \* call sites and results that have not reached the join
    index_valid, data_valid,      \* the environment offers the next one
    index_ready, data_ready,      \* ready signals of the join
    index_sidetrack, data_sidetrack,
    switch,           \* switch[i]: registers between node i-1 and node i
    ready,            \* ready[i]: ready of node i
    sidetrack,        \* sidetrack[i]: side track of node i
    output            \* output[p]: what is offered to port p

vars == <<due, next_tag, indices, results, index_valid, data_valid, index_ready,
          data_ready, index_sidetrack, data_sidetrack, switch, ready, sidetrack, output>>

(* The emitter's table: the port's position in the chain less one, in      *)
(* MatchWidth bits, so that the first port's counter has its top bit set.  *)
PORT_INDEX_MAP == [p \in Port |-> (p - 2) % 2^MatchWidth]

PortOf(index) == CHOOSE p \in Port : CallSite[p] = index

(* The top bit of the down counter: the item is for this node. *)
Match(counter) == counter >= 2^(MatchWidth - 1)

(* At reset the counters hold any value.  Of a register that is not valid  *)
(* only the top bit of its counter is looked at: it is in "matching".      *)
Init ==
    /\ due = [p \in Port |-> <<>>] /\ next_tag = [p \in Port |-> 0]
    /\ indices = <<>> /\ results = <<>>
    /\ index_valid = FALSE /\ data_valid = FALSE
    /\ index_ready = FALSE /\ data_ready = FALSE
    /\ index_sidetrack = None /\ data_sidetrack = None
    /\ \E matching \in SUBSET Port :
          switch = [i \in 1..(NUM_OUTPUT_PORTS + 1) |->
                       [valid |-> FALSE, data |-> None,
                        match_counter |-> IF i \in matching THEN 2^MatchWidth - 1 ELSE 0]]
    /\ ready = [i \in Port |-> FALSE]
    /\ sidetrack = [i \in Port |-> None]
    /\ output = [p \in Port |-> None]

(* The receiver of switch[i] accepts; the last output is tied off. *)
SwitchReady(i) == IF i > NUM_OUTPUT_PORTS THEN TRUE ELSE ready[i]
SwitchFree(i) == ~switch[i].valid \/ SwitchReady(i)

IndexTaken == index_valid /\ index_ready
DataTaken  == data_valid /\ data_ready

MutJoins == /\ IndexTaken \/ index_sidetrack # None
            /\ DataTaken \/ data_sidetrack # None

(* The join has an index and a result and may pass them on. *)
Joins ==
    /\ SwitchFree(1)
    /\ IndexTaken \/ index_sidetrack # None
    /\ DataTaken \/ data_sidetrack # None

muxed_index == IF index_sidetrack # None THEN index_sidetrack ELSE Head(indices)
muxed_data  == IF data_sidetrack # None THEN data_sidetrack ELSE Head(results)

Join ==
    /\ index_sidetrack' = IF Joins THEN None
                          ELSE IF IndexTaken THEN Head(indices) ELSE index_sidetrack
    /\ data_sidetrack' = IF Joins THEN None
                         ELSE IF DataTaken THEN Head(results) ELSE data_sidetrack
    /\ index_ready' = (Joins \/ IF IndexTaken THEN FALSE
                                ELSE index_sidetrack = None \/ index_ready)
    /\ data_ready' = (Joins \/ IF DataTaken THEN FALSE
                               ELSE data_sidetrack = None \/ data_ready)

(* Node i: what it works on, and where that goes. *)
InputTaken(i) == switch[i].valid /\ ready[i]
Muxed(i) == IF sidetrack[i] # None THEN sidetrack[i] ELSE switch[i]
ToPort(i) == Match(Muxed(i).match_counter)
OutputFree(i, accepted) == output[i] = None \/ i \in accepted
Free(i, accepted) == IF ToPort(i) THEN OutputFree(i, accepted) ELSE SwitchFree(i + 1)

MutMoves(i, accepted) == Free(i, accepted) /\ InputTaken(i)

Moves(i, accepted) == Free(i, accepted) /\ (InputTaken(i) \/ sidetrack[i] # None)

Nodes(accepted) ==
    /\ output' = [i \in Port |->
          IF ToPort(i) /\ Moves(i, accepted) THEN Muxed(i).data
          ELSE IF OutputFree(i, accepted) THEN None ELSE output[i]]
    /\ sidetrack' = [i \in Port |->
          IF Moves(i, accepted) THEN None
          ELSE IF InputTaken(i) THEN switch[i] ELSE sidetrack[i]]
    /\ ready' = [i \in Port |->
          Free(i, accepted) \/ IF InputTaken(i) THEN FALSE
                               ELSE sidetrack[i] = None \/ ready[i]]
    /\ switch' = [i \in 1..(NUM_OUTPUT_PORTS + 1) |->
          IF i = 1 /\ Joins THEN
             [valid |-> TRUE, data |-> muxed_data,
              match_counter |-> PORT_INDEX_MAP[PortOf(muxed_index)]]
          ELSE IF i > 1 /\ ~ToPort(i - 1) /\ Moves(i - 1, accepted) THEN
             [valid |-> TRUE, data |-> Muxed(i - 1).data,
              match_counter |-> (Muxed(i - 1).match_counter - 1) % 2^MatchWidth]
          ELSE IF SwitchFree(i) THEN
             [switch[i] EXCEPT !.valid = FALSE, !.data = None]
          ELSE switch[i]]

Calls == FoldFunction(LAMBDA queue, n : n + Len(queue), 0, due)

(* A clock edge: call site "call" (None: no one) makes a call, the ports   *)
(* in "accepted" take what they are offered, and the next index and result *)
(* are shown to the join or not.                                           *)
Cycle(call, accepted, show_index, show_data) ==
    LET tag == IF call = None THEN 0 ELSE next_tag[call]
        indices_left == (IF IndexTaken THEN Tail(indices) ELSE indices)
                           \o (IF call = None THEN <<>> ELSE <<CallSite[call]>>)
        results_left == (IF DataTaken THEN Tail(results) ELSE results)
                           \o (IF call = None THEN <<>> ELSE << <<call, tag>> >>)
    IN  /\ call # None => Calls < MaxCalls
        /\ show_index => indices_left # <<>>
        /\ show_data => results_left # <<>>
        /\ index_valid /\ ~IndexTaken => show_index
        /\ data_valid /\ ~DataTaken => show_data
        /\ index_valid' = show_index /\ data_valid' = show_data
        /\ due' = [p \in Port |->
              (IF p \in accepted THEN Tail(due[p]) ELSE due[p])
                 \o (IF p = call THEN << <<call, tag>> >> ELSE <<>>)]
        /\ next_tag' = [p \in Port |-> IF p = call THEN (tag + 1) % Tag ELSE next_tag[p]]
        /\ indices' = indices_left /\ results' = results_left
        /\ Join
        /\ Nodes(accepted)

Next ==
    \E call \in Port \cup {None}, accepted \in SUBSET {p \in Port : output[p] # None},
       show_index, show_data \in BOOLEAN :
          Cycle(call, accepted, show_index, show_data)

Spec == Init /\ [][Next]_vars

(* The clock runs, indices and results come, and the ports accept. *)
Serve == \E call \in Port \cup {None} :
            Cycle(call, {p \in Port : output[p] # None},
                  Len(indices) + (IF call = None THEN 0 ELSE 1)
                     > (IF IndexTaken THEN 1 ELSE 0),
                  Len(results) + (IF call = None THEN 0 ELSE 1)
                     > (IF DataTaken THEN 1 ELSE 0))
FairSpec == Spec /\ WF_vars(Serve)
-----------------------------------------------------------------------------
TypeOK ==
    /\ next_tag \in [Port -> 0..(Tag - 1)]
    /\ indices \in Seq(Nat) /\ results \in Seq(Datum)
    /\ index_valid \in BOOLEAN /\ data_valid \in BOOLEAN
    /\ index_ready \in BOOLEAN /\ data_ready \in BOOLEAN
    /\ index_sidetrack \in Nat \cup {None} /\ data_sidetrack \in Datum \cup {None}
    /\ switch \in [1..(NUM_OUTPUT_PORTS + 1) -> SwitchRegisters]
    /\ ready \in [Port -> BOOLEAN]
    /\ sidetrack \in [Port -> SwitchRegisters \cup {None}]
    /\ output \in [Port -> Datum \cup {None}]

(* Registers that belong together agree, and whoever uses its side track   *)
(* has stopped its input.                                                  *)
RegistersAgree ==
    /\ index_valid => indices # <<>>
    /\ data_valid => results # <<>>
    /\ index_sidetrack # None => ~index_ready
    /\ data_sidetrack # None => ~data_ready
    /\ \A i \in 1..(NUM_OUTPUT_PORTS + 1) : switch[i].valid <=> switch[i].data # None
    /\ \A i \in Port : sidetrack[i] # None => ~ready[i] /\ sidetrack[i].data # None

(* What the registers before node i and in its side track hold is for this *)
(* port or one behind it, and the counter says for which.                  *)
CounterFor(p, i) == IF p = i THEN 2^MatchWidth - 1 ELSE p - 1 - i

RouteFrom(r, i) == r.data # None => /\ r.data[1] >= i
                                    /\ r.match_counter = CounterFor(r.data[1], i)

RoutesKnown ==
    \A i \in Port : /\ RouteFrom(switch[i], i)
                    /\ sidetrack[i] # None => RouteFrom(sidetrack[i], i)

(* What has not passed the join, and what waits at node i, oldest first. *)
Optional(d) == IF d = None THEN <<>> ELSE <<d>>
IndexToJoin == Optional(index_sidetrack) \o indices
ToJoin == Optional(data_sidetrack) \o results
Held(i) == (IF sidetrack[i] = None THEN <<>> ELSE <<sidetrack[i].data>>)
              \o Optional(switch[i].data)

(* Indices and results wait in the same order, however far one is ahead. *)
Paired ==
    /\ Len(IndexToJoin) = Len(ToJoin)
    /\ \A k \in 1..Len(ToJoin) : IndexToJoin[k] = CallSite[ToJoin[k][1]]

(* The results for port p of a sequence, and of all the places on the way  *)
(* from the join to that port, the port first.                             *)
Mine(s, p) == FlattenSeq([k \in 1..Len(s) |-> IF s[k][1] = p THEN <<s[k]>> ELSE <<>>])

Way(p) == [k \in 1..(p + 2) |->
              IF k = 1 THEN Optional(output[p])
              ELSE IF k = p + 2 THEN Mine(ToJoin, p)
              ELSE Mine(Held(p + 2 - k), p)]

(* Each port is owed exactly what is under way to it, in this order. *)
DueUnderWay == \A p \in Port : due[p] = FlattenSeq(Way(p))

(* The inductive invariant behind RoutedToCaller. *)
IInv == TypeOK /\ RegistersAgree /\ RoutesKnown /\ Paired /\ DueUnderWay

(* Every result comes out at the port of the call it answers, and at each  *)
(* port in the order of its calls: no side track pairs an index with the   *)
(* wrong result, loses or repeats an item, or lets one pass another.       *)
RoutedToCaller == \A p \in Port : output[p] # None => due[p] # <<>> /\ output[p] = Head(due[p])

(* Every call is answered. *)
EveryCallAnswered == \A p \in Port : due[p] # <<>> ~> output[p] # None
=============================================================================
