---------------------------- MODULE MCLLMClient ----------------------------
(* Instances of LLMClient for TLC: c1 streams behind a route, and what     *)
(* becomes of its request is observed; c2 calls the client directly, for   *)
(* that request or for another.                                            *)
EXTENDS Observation

CONSTANTS c1, c2

MCLater == [q \in Gated |-> c2]
=============================================================================
