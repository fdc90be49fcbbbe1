--------------------------- MODULE MCArbitration ---------------------------
(***************************************************************************)
(* A merger of three sources for TLC, watched at its destination or for    *)
(* sources that starve, and one of four busy sources watched for their     *)
(* shares.  What is watched is chosen once.                                *)
(***************************************************************************)
EXTENDS ArbitrationMerge

CONSTANTS t1,      \* payload
          BusyN    \* busy sources

VARIABLES overtaken, share, watched

Busy == INSTANCE ArbitrationShare WITH N <- BusyN

(* ArbitrationChain is instantiated here too: TLC evaluates the constant    *)
(* definitions of a module that is only extended once, with N as it is.    *)
BusyChain == INSTANCE ArbitrationChain WITH N <- BusyN

ASSUME BusyAssumption == BusyChain!ArbitrationAssumption

mcVars == <<mergeVars, overtaken, share, watched>>

Unwatched == delivered = NoItem /\ accepted = [s \in Source |-> 0] /\ count = 0

MCInit ==
    \/ watched = "merge" /\ MergeInit /\ overtaken = <<>> /\ share = <<>>
    \/ watched = "sources" /\ MergeInit /\ overtaken = <<>> /\ share = <<>>
    \/ watched = "shares" /\ Busy!ShareInit /\ Unwatched

MCNext ==
    /\ \/ watched = "merge" /\ MergeNext /\ UNCHANGED <<overtaken, share>>
       \/ watched = "sources" /\ Next
            /\ UNCHANGED <<delivered, accepted, count, overtaken, share>>
       \/ watched = "shares" /\ Busy!ShareNext /\ UNCHANGED <<delivered, accepted, count>>
    /\ UNCHANGED watched

MCSpec ==
    /\ MCInit /\ [][MCNext]_mcVars
    /\ WF_vars(watched = "sources" /\ Drain)
    /\ \A s \in Source : WF_vars(watched = "sources" /\ Continue(s))
-----------------------------------------------------------------------------
Abstracted ==
    INSTANCE Merger WITH
        queue <- [s \in Source |->
            IF watched # "merge" THEN <<>>
            ELSE Before(LastNode, s)]

(* The chain merges: nothing is lost, repeated or reordered, and no        *)
(* transaction is torn apart at the destination, although every node       *)
(* decides on its own ("sticking with 1 input until the end of a           *)
(* transaction is signaled", arbitration_chain.sv).                        *)
ImplementsMerger == Abstracted!Spec

(* "Does not starve either input" (arbitration_chain.sv): whatever the     *)
(* others do, a source with something to show is read again and again.     *)
NoStarvation ==
    \A s \in Source : \/ []<>(watched = "sources" => head[s] = NoItem)
                      \/ []<><<watched = "sources" /\ Served(s)>>_vars

(* A waiting port 0 is passed over by at most RATIO - 1 transactions, a    *)
(* waiting port 1 by one (RATIO of arbitration_chain.sv).                  *)
BoundedOvertaking == watched = "shares" => Busy!BoundedOvertaking

(* "to get each requester the same priority of 1/N" (verilog.cpp): no      *)
(* source ever has had more than two transactions more than any other.     *)
FairShare == watched = "shares" => Busy!FairShare
=============================================================================
