------------------------------ MODULE Splitter ------------------------------
(***************************************************************************)
(* What a reader sees of a streamed answer: ThinkingAnswerSplitter cuts    *)
(* the pieces in which the model's text arrives into reasoning and answer, *)
(* by tags that may arrive in halves.  split_thinking_answer does the same *)
(* for a text that is there as a whole.                                    *)
(*                                                                         *)
(* A text is a sequence of symbols, of which the tags are made as in the   *)
(* code: all begin with "<", and those that close with "</".  A segment    *)
(* that is sent is the set of its positions in the text.                   *)
(***************************************************************************)
EXTENDS Integers, Sequences, FiniteSetsExt

CONSTANT Texts      \* what the model may write

TextsAssumption == Texts \subseteq Seq(STRING)

ThinkingOpen == <<"<", "T", ">">>
ThinkingClose == <<"<", "/", "T", ">">>
AnswerOpen == <<"<", "A", ">">>
AnswerClose == <<"<", "/", "A", ">">>

Blank == " "

VARIABLES
    text,           \* what the model writes
    fed,            \* how much of it has arrived
    head,           \* how much of it has been taken from _buf
    part,           \* _in_thinking, _in_answer, or neither
    ever,           \* _ever_tag
    reasoning,      \* what was sent as reasoning
    answer,         \* what was sent as answer
    phase           \* "idle" between two pieces, "loop" in feed, "over" after flush

vars == <<text, fed, head, part, ever, reasoning, answer, phase>>

Start(t) ==
    /\ text = t
    /\ fed = 0 /\ head = 0
    /\ part = "neither" /\ ever = FALSE
    /\ reasoning = {} /\ answer = {}
    /\ phase = "idle"

Init == \E t \in Texts : Start(t)

-----------------------------------------------------------------------------
(* From p on stand the first n symbols of a tag. *)
Begins(tag, n, p) == \A k \in 1..n : text[p + k - 1] = tag[k]

At(tag, p) == p + Len(tag) - 1 <= fed /\ Begins(tag, Len(tag), p)

(* find                                                                    *)
Places(tag) == {p \in head + 1 .. fed : At(tag, p)}
Found(tag) == Places(tag) # {}
Before(tag) == head + 1 .. Min(Places(tag)) - 1
After(tag) == Min(Places(tag)) + Len(tag) - 1

(* _trailing_close_prefix: how much of the end may be the beginning of a   *)
(* tag.                                                                    *)
Half(tag) ==
    Max({0} \cup {n \in 1..Len(tag) : n <= fed - head /\ Begins(tag, n, fed - n + 1)})

(* Mutant: only half a <thinking> is waited for.                           *)
HalfThinking == Half(ThinkingOpen)

(* _trailing_open_prefix                                                   *)
HalfOpen == IF Half(ThinkingOpen) > 0 THEN Half(ThinkingOpen) ELSE Half(AnswerOpen)

Says(segment) == \E p \in segment : text[p] # Blank

-----------------------------------------------------------------------------
(* feed takes the buffer up to a position, and goes on unless it is used   *)
(* up or the rest may be half a tag.                                       *)
TakeTo(p, goesOn) ==
    /\ head' = p
    /\ phase' = IF goesOn /\ p < fed THEN "loop" ELSE "idle"

Send(kinds, segment) ==
    /\ reasoning' = IF "reasoning" \in kinds THEN reasoning \cup segment ELSE reasoning
    /\ answer' = IF "answer" \in kinds THEN answer \cup segment ELSE answer

(* All of the buffer but half a tag.                                       *)
SendRest(kinds, half) ==
    /\ Send(kinds, head + 1 .. fed - half)
    /\ TakeTo(fed - half, FALSE)
    /\ UNCHANGED <<part, ever>>

Feed(n) ==
    /\ phase = "idle"
    /\ n \in 1 .. Len(text) - fed
    /\ fed' = fed + n
    /\ phase' = "loop"
    /\ UNCHANGED <<text, head, part, ever, reasoning, answer>>

(* What comes after </answer> in the same piece is still sent as answer.   *)
InAnswer ==
    /\ phase = "loop" /\ part = "answer"
    /\ IF Found(AnswerClose)
       THEN /\ Send({"answer"}, Before(AnswerClose) \cup (After(AnswerClose) + 1 .. fed))
            /\ TakeTo(fed, FALSE)
            /\ part' = "neither"
            /\ UNCHANGED ever
       ELSE SendRest({"answer"}, Half(AnswerClose))
    /\ UNCHANGED <<text, fed>>

(* <answer> ends the thinking, too.                                        *)
InThinking ==
    /\ phase = "loop" /\ part = "thinking"
    /\ IF \E tag \in {ThinkingClose, AnswerOpen} : Found(tag)
       THEN LET tag == IF Found(ThinkingClose) THEN ThinkingClose ELSE AnswerOpen
            IN  /\ Send({"reasoning"}, Before(tag))
                /\ TakeTo(After(tag), TRUE)
                /\ part' = IF tag = AnswerOpen THEN "answer" ELSE "neither"
                /\ UNCHANGED ever
       ELSE SendRest({"reasoning"}, Half(ThinkingClose))
    /\ UNCHANGED <<text, fed>>

(* What stands before a tag counts for the other part; without any tag so  *)
(* far, a text is both.                                                    *)
Between ==
    /\ phase = "loop" /\ part = "neither"
    /\ IF \E tag \in {AnswerOpen, ThinkingOpen} : Found(tag)
       THEN LET opens == IF /\ Found(AnswerOpen)
                            /\ Found(ThinkingOpen) => After(AnswerOpen) < After(ThinkingOpen)
                         THEN "answer" ELSE "thinking"
                tag == IF opens = "answer" THEN AnswerOpen ELSE ThinkingOpen
                before == IF Says(Before(tag)) THEN Before(tag) ELSE {}
            IN  /\ Send({IF opens = "answer" THEN "reasoning" ELSE "answer"}, before)
                /\ TakeTo(After(tag), TRUE)
                /\ part' = opens /\ ever' = TRUE
       ELSE SendRest(IF ever THEN {"answer"} ELSE {"reasoning", "answer"}, HalfOpen)
    /\ UNCHANGED <<text, fed>>

Flushed ==
    IF head < fed THEN head + 1 .. fed
    ELSE IF ever /\ answer = {} THEN reasoning ELSE {}

Flush ==
    /\ phase = "idle" /\ fed = Len(text)
    /\ answer' = answer \cup Flushed
    /\ head' = fed
    /\ phase' = "over"
    /\ UNCHANGED <<text, fed, part, ever, reasoning>>

Next ==
    \/ \E n \in 1 .. Len(text) : Feed(n)
    \/ InAnswer \/ InThinking \/ Between
    \/ Flush

Spec == Init /\ [][Next]_vars

-----------------------------------------------------------------------------
(* split_thinking_answer: what stands between a tag and the next closing   *)
(* one.                                                                    *)
Opens(tag) == {p \in 1..Len(text) : At(tag, p)}
Pairs(open, close) ==
    {r \in Opens(open) \X Opens(close) : r[1] + Len(open) <= r[2]}
Inner(open, close) ==
    LET p == Min({pair[1] : pair \in Pairs(open, close)})
        q == Min({pair[2] : pair \in {r \in Pairs(open, close) : r[1] = p}})
    IN  IF Pairs(open, close) = {} THEN {} ELSE p + Len(open) .. q - 1

Said(segment) == {p \in segment : text[p] # Blank}

(* The answer as the prompts ask for it: the thinking, if any, then the    *)
(* answer, both complete, once, and nothing but blanks outside.            *)
Ordered ==
    /\ Opens(AnswerOpen) # {} /\ Opens(AnswerClose) # {}
    /\ \A tag \in {ThinkingOpen, ThinkingClose, AnswerOpen, AnswerClose} :
        \A p, q \in Opens(tag) : p = q
    /\ Opens(ThinkingOpen) = {} <=> Opens(ThinkingClose) = {}
    /\ \A p \in Opens(ThinkingOpen), q \in Opens(ThinkingClose) : p < q
    /\ \A p \in Opens(ThinkingClose), q \in Opens(AnswerOpen) : p < q
    /\ \A p \in Opens(AnswerOpen), q \in Opens(AnswerClose) : p < q

TagsOf(tag) == UNION {p .. p + Len(tag) - 1 : p \in Opens(tag)}
Marked == UNION {TagsOf(tag) : tag \in {ThinkingOpen, ThinkingClose, AnswerOpen, AnswerClose}}

Thought == Inner(ThinkingOpen, ThinkingClose)
Answered == Inner(AnswerOpen, AnswerClose)
AsAsked == Ordered /\ Says(Answered) /\ ~Says(1..Len(text) \ (Thought \cup Answered \cup Marked))

(* In whatever pieces a text arrives that is written as it was asked for,  *)
(* the reader sees what split_thinking_answer would have made of it.       *)
SplitAsAWhole ==
    phase = "over" /\ AsAsked =>
        Said(reasoning) = Said(Thought) /\ Said(answer) = Said(Answered)

(* However badly it is written: whatever the model said reaches the reader *)
(* as the one or the other, and thinking without an answer is sent as the  *)
(* answer, too; unless blanks, or half a tag, have been sent as it.        *)
NothingIsLost ==
    phase = "over" =>
        /\ Said(1..Len(text)) \ Marked \subseteq reasoning \cup answer
        /\ Says(reasoning) /\ ~Says(answer) => answer # {}

(* The reader gets what was said, where it belongs.                        *)
ReaderGetsAll == SplitAsAWhole /\ NothingIsLost
=============================================================================
