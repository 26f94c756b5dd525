------------------------------ MODULE SealedLots ------------------------------
(***************************************************************************)
(* What closing a lot promises of its bids, leaving out who does it: the   *)
(* requests, the parse jobs and the cron are only the rows they have in    *)
(* hand.  A lot is decided once; bids are sealed by the release of their   *)
(* lot and by nothing else; and what is sealed or out is written again     *)
(* only by an operation that had the row in hand before.  BidLifecycle     *)
(* implements this specification.                                          *)
(***************************************************************************)
EXTENDS Integers, FiniteSets

CONSTANTS
    Lots,
    Bids,
    BidLot,         \* the lot of each bid
    Quorum          \* bids it takes to release a lot without a closer look

VARIABLES
    phase,          \* of a lot: open, screening, released or abandoned
    standing,       \* of a bid: absent, live, sealed or out
    held            \* bids that an operation under way will write, whatever they are by then

vars == <<phase, standing, held>>

Init ==
    /\ phase = [l \in Lots |-> "open"]
    /\ standing = [b \in Bids |-> "absent"]
    /\ held = {}

(* What an operation may still take in hand. *)
InPlay == {b \in Bids : standing[b] \in {"absent", "live"}}

Set(S, v) == standing' = [b \in Bids |-> IF b \in S THEN v ELSE standing[b]]

(* Operations take rows in hand, let go of them, and write some that they  *)
(* held: an upload, a parse, a retry, the cron.                            *)
Work ==
    /\ UNCHANGED phase
    /\ \E S \in SUBSET held : Set(S, "live")
    /\ held' \subseteq held \cup InPlay

(* The decisions on a lot.  An open lot is released only with a quorum; a  *)
(* screened one with whatever is left of it, and possibly more than once.  *)
Release(l, S) ==
    /\ phase[l] = "open" => Cardinality(S) >= Quorum
    /\ phase[l] # "abandoned"
    /\ S \subseteq held \cap {b \in Bids : BidLot[b] = l}
    /\ phase' = [phase EXCEPT ![l] = "released"]
    /\ Set(S, "sealed")
    /\ held' \subseteq held

PutOff(l, v) ==
    /\ phase[l] = "open"
    /\ phase' = [phase EXCEPT ![l] = v]
    /\ held' \subseteq held
    /\ UNCHANGED standing

Disqualify(S) ==
    /\ \A b \in S : standing[b] # "absent"
    /\ Set(S, "out")
    /\ held' \subseteq held
    /\ UNCHANGED phase

Next ==
    \/ Work
    \/ \E l \in Lots, S \in SUBSET held : Release(l, S)
    \/ \E l \in Lots, v \in {"screening", "abandoned"} : PutOff(l, v)
    \/ \E S \in SUBSET Bids : Disqualify(S)

Spec == Init /\ [][Next]_vars
=============================================================================
