--------------------------- MODULE AssistantParts ---------------------------
(***************************************************************************)
(* ChatAgent, Retrieval and Splitter, each with names of its own, to stand *)
(* beside each other and beside modules that have an Init and a Next too.  *)
(***************************************************************************)
EXTENDS Sequences

CONSTANTS
    Windows, Questions, OverrideEnabled,        \* of ChatAgent
    N, Limit, Top, Terms, Scale,                \* of Retrieval
    Answers                                     \* of Splitter, its texts

VARIABLES msgs, win                                                           \* of ChatAgent
VARIABLES world, call, vector, semanticOk, listed, hits, results, hint        \* of Retrieval
VARIABLES written, fed, head, part, ever, reasoning, answer, splitting        \* of Splitter

chatVars == <<msgs, win>>
searchVars == <<world, call, vector, semanticOk, listed, hits, results, hint>>
splitVars == <<written, fed, head, part, ever, reasoning, answer, splitting>>

Chat == INSTANCE ChatAgent
Search == INSTANCE Retrieval WITH at <- call
Split == INSTANCE Splitter WITH Texts <- Answers, text <- written, phase <- splitting

ASSUME SearchAssumption == Search!RetrievalAssumption
ASSUME SplitAssumption == Split!TextsAssumption

-----------------------------------------------------------------------------
(* However many windows talk at once, an answer stands after its question, *)
(* and "once for a stage": a message is compressed into two summaries only *)
(* if the second was begun before the first was there.                     *)
ConversationHolds == Chat!ConversationHolds

(* With the rules in force, the model answers from nothing only what is    *)
(* not about the bid: a sum, a greeting, or a follow-up after a greeting.  *)
GroundedAnswer == Chat!GroundedAnswer

(* The fusion of the two routes respects what they agree on, and whatever  *)
(* failed, the caller gets every passage that some route found, up to Top; *)
(* "no evidence" is said of the bid, never of a service that is down.      *)
SearchIsSound == Search!SearchIsSound

(* In whatever pieces an answer arrives that is written as it was asked    *)
(* for, the reader sees what split_thinking_answer would have made of it;  *)
(* and whatever the model said reaches the reader as thinking or answer.   *)
ReaderGetsAll == Split!ReaderGetsAll
=============================================================================
