---------------------------- MODULE MCScreening ----------------------------
(* The bids of a lot, for TLC: how they are screened (Screening), by the   *)
(* defaults of the code, with lots that score low and high for every one   *)
(* of the reasons, up to their limits; and how they are ranked once they   *)
(* are reviewed (Results).  The two share nothing, so a behaviour is of    *)
(* one of them and leaves the other where it begins.                       *)
EXTENDS Results, ScreeningApart, TLC

CONSTANTS
    r1, r2, l1, s1, s2, b1, b2, e1, e2, v1, v2, d1, d2

VARIABLE part       \* which of the two

MCKeys == {"auto", "critical", "text", "graph", "price", "pairs"}
MCDefaults == [auto |-> 25, critical |-> 75, text |-> 40, graph |-> 35, price |-> 25, pairs |-> 7]
MCAllowed == [k \in MCKeys |-> IF k \in {"text", "graph", "price"} THEN 0..100 ELSE 1..100]
MCFact(same, affiliate, together, cluster, ring, pairs) ==
    [same |-> same, affiliate |-> affiliate, together |-> together,
     cluster |-> cluster, ring |-> ring, pairs |-> pairs]
MCFactSets ==
    {MCFact(same, affiliate, together, price = "cluster", price = "ring", pairs) :
        same \in 0..1, affiliate \in 0..2, together \in {0, 6, 12},
        price \in {"normal", "cluster", "ring"},
        pairs \in {<<0, 0>>, <<6, 6>>, <<7, 0>>, <<7, 3>>}}
MCUpdates ==
    {<<<<"auto", 60>>>>, <<<<"auto", 25>>, <<"graph", 0>>>>, <<<<"graph", 50>>, <<"auto", 0>>>>}

MCBidLot == [b \in Bids |-> l1]
MCBidSupplier == [b \in Bids |-> IF b = b1 THEN s1 ELSE s2]
MCAssigned == Lots \X Experts
MCDimensionOf == [e \in Experts |-> IF e = e1 THEN d1 ELSE d2]
MCMaxScore == [d \in Dimensions |-> IF d = d1 THEN 3 ELSE 2]
MCWeight == [d \in Dimensions |-> IF d = d1 THEN 60 ELSE 40]
MCAmount == [b \in Bids |-> IF b = b1 THEN 5 ELSE 7]

(* The bound of the second part: reviews are written one request after the *)
(* other; or two requests overlap, and the only review is e1's of b1.      *)
InFlight == {r \in Requests : req[r].op # "idle"}
Rows == {v \in Reviews : review[v].status # "NONE"}

Bounded ==
    \/ Cardinality(InFlight) <= 1
    \/ /\ Cardinality(Rows) <= 1
       /\ \A v \in Rows : review[v].expert = e1 /\ review[v].bid = b1
       /\ \A r \in InFlight :
              req[r].op = "create" => req[r].expert = e1 /\ req[r].bid = b1

MCInit ==
    /\ part \in {"screening", "views"}
    /\ Fraud!Init
    /\ part = "views" => \A l \in Tenders : facts[l] = MCFact(0, 0, 0, FALSE, FALSE, <<0, 0>>)
    /\ Init

MCNext ==
    \/ part = "screening" /\ Fraud!Next /\ UNCHANGED <<part, vars>>
    \/ part = "views" /\ Next /\ Bounded' /\ UNCHANGED <<part, settingVars>>

MCSpec == MCInit /\ [][MCNext]_<<part, vars, settingVars>>

Symmetry == Permutations(Requests) \cup Permutations(Reviews)
=============================================================================
