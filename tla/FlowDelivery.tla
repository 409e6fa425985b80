---------------------------- MODULE FlowDelivery ----------------------------
(***************************************************************************)
(* What the template decoder promises about every data set, whatever       *)
(* caches, limits and threads are behind it: once it has arrived it is     *)
(* held until it is either decoded or dropped, and both are final.         *)
(***************************************************************************)
CONSTANT DataSets

VARIABLE status

Statuses == {"unseen", "held", "decoded", "dropped"}

Init == status = [d \in DataSets |-> "unseen"]

\* Every data set that changes goes from one status to the other.
Move(from, to) ==
  /\ status' \in [DataSets -> Statuses]
  /\ \A d \in DataSets : \/ status'[d] = status[d]
                         \/ status[d] = from /\ status'[d] = to

\* A datagram brings all its data sets at once.
Arrive == Move("unseen", "held")

\* One data set is decoded at a time.
Decode == \E d \in DataSets : /\ status[d] = "held"
                              /\ status' = [status EXCEPT ![d] = "decoded"]

\* Several may be dropped at once: a whole packet, or everything that expired.
Drop == Move("held", "dropped")

Next == Arrive \/ Decode \/ Drop

Spec == Init /\ [][Next]_status
=============================================================================
