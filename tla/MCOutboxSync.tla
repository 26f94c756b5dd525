---------------------------- MODULE MCOutboxSync ----------------------------
(* Instances of OutboxSync for TLC: a project and its lot, with the        *)
(* relation pl of the one to the other; a supplier, and an import of two   *)
(* conflicts with it.                                                      *)
EXTENDS OutboxSync, TLC

CONSTANTS p, l, s, c, pl, c1, c2, r1, w1, w2

MCStatements ==
    [a \in Aggregates |-> CASE a = l -> <<l, pl>> [] a = c -> <<c1, c2>> [] OTHER -> <<a>>]
MCNeeds ==
    [x \in Elements |-> CASE x = pl -> {p, l} [] x \in {c1, c2} -> {s} [] OTHER -> {}]
MCRowNeeds ==
    [a \in Aggregates |-> CASE a = l -> {p} [] a = c -> {s} [] OTHER -> {}]
=============================================================================
