------------------------------- MODULE Mirror -------------------------------
(***************************************************************************)
(* What the outbox promises of the graph, leaving out how: an event is     *)
(* delivered once and for all, and not before the graph shows what it is   *)
(* about.  OutboxSync implements this specification.                       *)
(***************************************************************************)
CONSTANTS
    Events,
    Aggregates,
    Rebuilt,        \* aggregates whose events lead to a write of the graph
    NoAggregate

VARIABLES
    about,          \* the aggregate of each event, NoAggregate before it exists
    delivered,      \* events that need no more work
    shown           \* aggregates the graph has a node of

vars == <<about, delivered, shown>>

Init ==
    /\ about = [e \in Events |-> NoAggregate]
    /\ delivered = {}
    /\ shown = {}

Publish(e, a) ==
    /\ about[e] = NoAggregate
    /\ about' = [about EXCEPT ![e] = a]
    /\ UNCHANGED <<delivered, shown>>

(* Whoever writes it, the graph never loses a node. *)
Show(a) ==
    /\ shown' = shown \cup {a}
    /\ UNCHANGED <<about, delivered>>

Deliver(S) ==
    /\ \A e \in S : /\ about[e] # NoAggregate
                    /\ about[e] \in Rebuilt => about[e] \in shown
    /\ delivered' = delivered \cup S
    /\ UNCHANGED <<about, shown>>

Next ==
    \/ \E e \in Events, a \in Aggregates : Publish(e, a)
    \/ \E a \in Aggregates : Show(a)
    \/ \E S \in SUBSET Events : Deliver(S)

Spec == Init /\ [][Next]_vars
=============================================================================
