--------------------------- MODULE MCBidLifecycle ---------------------------
(* Instances of BidLifecycle for TLC.                                      *)
EXTENDS BidLifecycle, TLC

CONSTANTS l1, s1, s2, b1, b2, r1, r2, j1, j2

(* Two suppliers with one bid id each, ... *)
MCBidLot == [b \in Bids |-> l1]
MCBidSupplier == [b \in Bids |-> IF b = b1 THEN s1 ELSE s2]
(* ... or one supplier for every bid id. *)
MCOneSupplier == [b \in Bids |-> s1]

(* What a PM asks of a supplier: nothing, blacklisting, or anything. *)
NoChange == {}
AnyChange == BOOLEAN \X BOOLEAN

(* Two suppliers can change places if their bids do. *)
Swap == (s1 :> s2) @@ (s2 :> s1) @@ (b1 :> b2) @@ (b2 :> b1)

Symmetry == Permutations(Requests) \cup Permutations(Jobs) \cup {Swap}
=============================================================================
