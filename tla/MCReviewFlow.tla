---------------------------- MODULE MCReviewFlow ----------------------------
(* The work of the experts, for TLC: what requests in flight do to the     *)
(* reviews of a lot (ReviewFlow), and the way from the list of tasks to    *)
(* a review (Tasks), whose reviews are of several bids and dimensions.     *)
(* A behaviour is of one of the two and leaves the other where it begins.  *)
EXTENDS ReviewFlow, TasksApart, TLC

CONSTANTS
    l1, s1, b1, b2, e1, e2, v1, v2, r1, r2, r3, d1, d2

VARIABLE part       \* which of the two

MCBidLot == [b \in Bids |-> l1]
MCBidSupplier == [b \in Bids |-> s1]
MCAssigned == Lots \X Experts

Symmetry == Permutations(Requests) \cup Permutations(Reviews) \cup Permutations(Fields)

-----------------------------------------------------------------------------
(* Ids are given in order. *)
WorkNext == Work!Next /\ (cellReview'[v2] # None => cellReview'[v1] # None)

MCInit == part \in {"reviews", "tasks"} /\ Init /\ Work!Init

MCNext ==
    \/ part = "reviews" /\ Next /\ UNCHANGED <<part, taskVars>>
    \/ part = "tasks" /\ WorkNext /\ UNCHANGED <<part, vars>>

MCSpec == MCInit /\ [][MCNext]_<<part, vars, taskVars>>
=============================================================================
