----------------------------- MODULE ChatAgent -----------------------------
(***************************************************************************)
(* Experts' questions about a bid: POST /reviews/{id}/chat and the agent   *)
(* behind it.  Several windows of one expert may talk about the same       *)
(* review and dimension at once.  Every request has one database session,  *)
(* and MySQL gives its transaction a snapshot: what add_message numbers    *)
(* and what maybe_summarize reads is the conversation as it was when the   *)
(* last commit was followed by the first read (session.refresh), however   *)
(* long the language model took since then.                                *)
(*                                                                         *)
(* A message is its place in the order of commits.  Texts of questions are *)
(* one for each class that intent.py tells apart.                          *)
(***************************************************************************)
EXTENDS Integers, SequencesExt

CONSTANTS
    Windows,
    Questions,      \* the texts that each question may have: a bound, as
                    \* its length is on the questions of the conversation
    OverrideEnabled \* settings.agent_rule_override_enabled

Texts == {"greeting", "query", "sum", "vague", "followup"}

MaxQuestions == Len(Questions)

TriggerTurn == 4    \* SUMMARY_TRIGGER_TURN

VARIABLES
    msgs,   \* conversation_messages of the dimension, in the order of commits
    win     \* the request of each window

vars == <<msgs, win>>

Intents == {"smalltalk", "query", "unknown"}
Kinds == {"context", "doubtful", "free", "fixed"}

Rows == 1..(3 * MaxQuestions)

Messages == [type : {"USER", "ANSWER", "SUMMARY"},
             dim : Rows,               \* dim_turn_number
             text : Texts,             \* of a question
             to : {0} \cup Rows,       \* the number of the question it answers
             covers : SUBSET Rows,     \* of a summary
             saw : {0} \cup Rows]      \* how much of msgs a summary was made from

Requests == [at : {"idle", "ask", "decide", "reply", "stage", "compress"},
             snap : {0} \cup Rows,     \* the snapshot of its transaction
             text : Texts,
             intent : Intents,
             dim : {0} \cup Rows,      \* the number of its question
             kind : Kinds,             \* what the answer is made from
             covers : SUBSET Rows]

Idle == [at |-> "idle", snap |-> 0, text |-> "vague", intent |-> "unknown", dim |-> 0,
         kind |-> "free", covers |-> {}]

-----------------------------------------------------------------------------
(* intent.py *)
NonDoc(text) == text = "sum"

OwnIntent(text) ==
    CASE text = "greeting" -> "smalltalk"
      [] text \in {"query", "sum"} -> "query"
      [] OTHER -> "unknown"

-----------------------------------------------------------------------------
(* conversation_service.py.  The rows a window sees, by dim_turn_number.   *)
Seen(n, types) == {i \in 1..n : msgs[i].type \in types}

Before(i, j) == msgs[i].dim < msgs[j].dim \/ (msgs[i].dim = msgs[j].dim /\ i < j)

FirstOf(S, k) == {i \in S : Cardinality({j \in S : Before(j, i)}) < k}
LastOf(S, k) == {i \in S : Cardinality({j \in S : Before(i, j)}) < k}

LastTurn(n, types) == IF Seen(n, types) = {} THEN 0
                      ELSE CHOOSE d \in {msgs[i].dim : i \in Seen(n, types)} :
                               \A i \in Seen(n, types) : msgs[i].dim <= d

Conversation == {"USER", "ANSWER"}
AllTypes == Conversation \cup {"SUMMARY"}

(* _next_dim_turn *)
NextTurn(n) == LastTurn(n, AllTypes) + 1

(* A follow-up takes over the intent of the last question that was another *)
(* one, of the last three.                                                 *)
Intent(n, text) ==
    LET other == {i \in LastOf(Seen(n, {"USER"}), 3) : msgs[i].text # text}
    IN  IF text = "followup" /\ other # {}
        THEN OwnIntent(msgs[CHOOSE i \in other : i \in LastOf(other, 1)].text)
        ELSE OwnIntent(text)

(* Mutant: the stage begins with the message the last summary ends with.   *)
StageAgain(n) == {i \in Seen(n, Conversation) : msgs[i].dim >= LastTurn(n, {"SUMMARY"})}

(* Messages after the last summary. *)
Stage(n) == {i \in Seen(n, Conversation) : msgs[i].dim > LastTurn(n, {"SUMMARY"})}

(* The rows that maybe_summarize sends to the model; none before the       *)
(* fourth message of a stage.                                              *)
ToCompress(n) == IF Cardinality(Stage(n)) < TriggerTurn THEN {}
                 ELSE FirstOf(Stage(n), TriggerTurn - 1)

Message(type, dim) ==
    [type |-> type, dim |-> dim, text |-> "vague", to |-> 0, covers |-> {}, saw |-> 0]

Init ==
    /\ msgs = <<>>
    /\ win = [w \in Windows |-> Idle]

-----------------------------------------------------------------------------
Asked == Cardinality(Seen(Len(msgs), {"USER"})) + Cardinality({w \in Windows : win[w].at = "ask"})

(* chat_agent reads the review, the bid and the last questions. *)
Ask(w, text) ==
    /\ win[w].at = "idle"
    /\ Asked < MaxQuestions /\ text \in Questions[Asked + 1]
    /\ win' = [win EXCEPT ![w] = [Idle EXCEPT !.at = "ask", !.snap = Len(msgs), !.text = text,
                                              !.intent = Intent(Len(msgs), text)]]
    /\ UNCHANGED msgs

(* add_message for the question; the refresh after it opens the snapshot   *)
(* that lasts until the answer is committed.                               *)
SaveQuestion(w) ==
    LET dim == NextTurn(win[w].snap)
    IN  /\ win[w].at = "ask"
        /\ msgs' = Append(msgs, [Message("USER", dim) EXCEPT !.text = win[w].text])
        /\ win' = [win EXCEPT ![w].at = "decide", ![w].snap = Len(msgs) + 1, ![w].dim = dim]

(* Mutant: only what is plainly a query is searched for.                   *)
MustSearchQuery(w) ==
    /\ win[w].intent = "query"
    /\ ~NonDoc(win[w].text)
    /\ OverrideEnabled

(* The rules overrule a model that would answer without a search.          *)
MustSearch(w) ==
    /\ win[w].intent \in {"query", "unknown"}
    /\ ~NonDoc(win[w].text)
    /\ OverrideEnabled

(* The first round of the model answers by itself, and may. *)
AnswerDirectly(w) ==
    /\ win[w].at = "decide"
    /\ ~MustSearch(w)
    /\ win' = [win EXCEPT ![w].at = "reply", ![w].kind = "free"]
    /\ UNCHANGED msgs

(* How a search ends (Retrieval.tla): with passages or none, with a hint   *)
(* or none; a search that finds nothing has always a hint.                 *)
Searches == {s \in [found : BOOLEAN, ok : BOOLEAN, hint : BOOLEAN] :
                ~s.found \/ ~s.ok => s.hint}

(* execute_retrieve_knowledge: without passages, the hint is an error. *)
KnowledgeResult(s) == [sources |-> IF s.found THEN "some" ELSE "none",
                       error |-> ~s.found /\ s.hint]

Failure == [sources |-> "none", error |-> TRUE]

(* execute_get_dimension_rubric and execute_get_bid_structured_info. *)
RubricResults == {Failure, [sources |-> "none", error |-> FALSE],
                  [sources |-> "some", error |-> FALSE]}
InfoResults == {Failure, [sources |-> "some", error |-> FALSE]}

(* What the second round is to answer from: the sources, an error it is    *)
(* told of, or nothing.                                                    *)
Outcome(r) == IF r.sources = "some" THEN "some" ELSE IF r.error THEN "error" ELSE "nothing"

Answered(w, kind) ==
    /\ win[w].at = "decide"
    /\ win' = [win EXCEPT ![w].at = "reply", ![w].kind = kind]
    /\ UNCHANGED msgs

FixedOrFree(w) ==
    IF win[w].intent = "smalltalk" \/ NonDoc(win[w].text) THEN "free" ELSE "fixed"

(* _answer_after_tool *)
AfterResult(w, outcome) ==
    CASE outcome = "some" -> "context"
      [] outcome = "error" -> "doubtful"
      [] OTHER -> FixedOrFree(w)

(* The model calls retrieve_knowledge, or the rules do it for the model.   *)
Search(w) ==
    \E s \in Searches :
        Answered(w, AfterResult(w, Outcome(KnowledgeResult(s))))

SearchRaises(w) == Answered(w, AfterResult(w, Outcome(Failure)))

Lookup(w) ==
    \E r \in RubricResults \cup InfoResults :
        Answered(w, AfterResult(w, Outcome(r)))

(* A call of the model fails or returns nothing: an error frame and no     *)
(* answer; or the client is gone before an answer is saved.                *)
Leave(w) ==
    /\ win[w].at \notin {"idle", "ask"}
    /\ win' = [win EXCEPT ![w] = Idle]
    /\ UNCHANGED msgs

(* The finally block may run after the session of a client that is gone    *)
(* was closed: it begins a transaction of its own.                         *)
LeaveLate(w) ==
    /\ win[w].at = "reply"
    /\ win[w].snap # Len(msgs)
    /\ win' = [win EXCEPT ![w].snap = Len(msgs)]
    /\ UNCHANGED msgs

SaveAnswer(w) ==
    /\ win[w].at = "reply"
    /\ msgs' = Append(msgs, [Message("ANSWER", NextTurn(win[w].snap)) EXCEPT !.to = win[w].dim])
    /\ win' = [win EXCEPT ![w] = [Idle EXCEPT !.at = "stage", !.snap = Len(msgs) + 1]]

(* maybe_summarize reads in the snapshot that the refresh opened. *)
ReadStage(w) ==
    LET rows == ToCompress(win[w].snap)
    IN  /\ win[w].at = "stage"
        /\ win' = [win EXCEPT ![w] = IF rows = {} THEN Idle
                                     ELSE [@ EXCEPT !.at = "compress", !.covers = rows]]
        /\ UNCHANGED msgs

SummaryFails(w) ==
    /\ win[w].at = "compress"
    /\ win' = [win EXCEPT ![w] = Idle]
    /\ UNCHANGED msgs

(* A summary takes the last number and advances none. *)
SaveSummary(w) ==
    /\ win[w].at = "compress"
    /\ msgs' = Append(msgs, [Message("SUMMARY", NextTurn(win[w].snap) - 1)
                                EXCEPT !.covers = win[w].covers, !.saw = win[w].snap])
    /\ win' = [win EXCEPT ![w] = Idle]

Next ==
    \E w \in Windows :
        \/ \E text \in Texts : Ask(w, text)
        \/ SaveQuestion(w)
        \/ AnswerDirectly(w)
        \/ Search(w)
        \/ SearchRaises(w)
        \/ Lookup(w)
        \/ Leave(w)
        \/ LeaveLate(w)
        \/ SaveAnswer(w)
        \/ ReadStage(w)
        \/ SummaryFails(w)
        \/ SaveSummary(w)

Spec == Init /\ [][Next]_vars

-----------------------------------------------------------------------------
(* Numbers are given in the order of commits, at most one by each message. *)
TypeOK ==
    /\ msgs \in Seq(Messages)
    /\ win \in [Windows -> Requests]
    /\ \A i \in DOMAIN msgs : msgs[i].dim <= i

(* However many windows talk at once, an answer stands after its question  *)
(* in the order in which the conversation is read and compressed.          *)
AnswerFollowsQuestion ==
    \A i \in DOMAIN msgs : msgs[i].type = "ANSWER" => msgs[i].to < msgs[i].dim

(* "Once for a stage": a message is compressed into two summaries only if  *)
(* the second was begun before the first was there.                        *)
CompressedOnce ==
    \A i, j \in DOMAIN msgs :
        i <= msgs[j].saw => msgs[i].covers \cap msgs[j].covers = {}

(* A conversation is read in order and compressed once.                    *)
ConversationHolds == AnswerFollowsQuestion /\ CompressedOnce

(* With the rules in force, the model answers from nothing only what is    *)
(* not about the bid: a sum, a greeting, or a follow-up after a greeting.  *)
GroundedAnswer ==
    \A w \in Windows :
        OverrideEnabled /\ win[w].at = "reply" /\ win[w].kind = "free" =>
            \/ win[w].text \in {"sum", "greeting"}
            \/ /\ win[w].text = "followup"
               /\ \E i \in 1..win[w].snap : msgs[i].type = "USER" /\ msgs[i].text = "greeting"
=============================================================================
