--------------------------- MODULE MCScoreStream ---------------------------
(* Instances of ScoreStream for TLC.                                       *)
EXTENDS ScoreStream

CONSTANTS c1, c2, v1

MCReviewOf == [c \in Clients |-> v1]
=============================================================================
