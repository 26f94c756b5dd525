------------------------------ MODULE Cleaning ------------------------------
(***************************************************************************)
(* What is taken out of a text before it is searched with (clean_query)    *)
(* or shown to the model (clean_text).  A text is a sequence of kinds of   *)
(* characters and words; a polite word counts as one character.            *)
(***************************************************************************)
EXTENDS Integers, SequencesExt

CONSTANTS
    MaxLength,      \* _QUERY_MAX_LEN
    MinKeep,        \* _QUERY_MIN_KEEP
    Longest         \* bound: length of a text, per use

VARIABLES
    use,            \* "query", or "passage" of a bid
    text            \* as it is typed, or was parsed

vars == <<use, text>>

Kinds ==
    [query |-> {"word", "wide", "please", "thanks", "emoji", "comma", "stop", "blank"},
     passage |-> {"word", "blank", "newline", "hidden"}]

Init == use \in DOMAIN Kinds /\ text = <<>>

Write ==
    /\ Len(text) < Longest[use]
    /\ \E kind \in Kinds[use] : text' = Append(text, kind)
    /\ UNCHANGED use

Spec == Init /\ [][Write]_vars

-----------------------------------------------------------------------------
Without(s, kind) == SelectSeq(s, LAMBDA c : c # kind)

InOrder(s, I) == SelectSeq([i \in DOMAIN s |-> i], LAMBDA i : i \in I)

Keep(s, I) == [k \in DOMAIN InOrder(s, I) |-> s[InOrder(s, I)[k]]]

Trim(s, noise) ==
    LET kept == {i \in DOMAIN s : s[i] \notin noise}
    IN  IF kept = {} THEN <<>> ELSE SubSeq(s, Min(kept), Max(kept))

Strip(s) == Trim(s, {"blank", "newline"})

-----------------------------------------------------------------------------
(* Questions *)

(* _to_halfwidth *)
Half(s) == [i \in DOMAIN s |-> IF s[i] = "wide" THEN "word" ELSE s[i]]

(* _CASUAL_PREFIX_RE and _CASUAL_SUFFIX_RE: one at either end. *)
Plain(s) ==
    LET rest == IF s # <<>> /\ Head(s) = "please" THEN Tail(s) ELSE s
    IN  IF rest # <<>> /\ Last(rest) = "thanks" THEN Front(rest) ELSE rest

Single(s) == Keep(s, {i \in DOMAIN s : i = 1 \/ s[i] # "blank" \/ s[i - 1] # "blank"})

Bare(s) == Strip(Single(Trim(Plain(Without(Half(s), "emoji")), {"comma", "stop", "blank"})))

(* Mutant: nothing is left of a question that is all politeness. *)
NormalizedBare(s) == Bare(s)

Normalized(s) == IF Bare(s) = <<>> THEN s ELSE Bare(s)

(* _truncate *)
Truncated(s) ==
    LET prefix == SubSeq(s, 1, MaxLength)
        stops == {i \in DOMAIN prefix : prefix[i] = "stop"}
    IN  IF Len(s) <= MaxLength THEN s
        ELSE IF stops # {} /\ Max(stops) >= MinKeep
        THEN Strip(SubSeq(prefix, 1, Max(stops)))
        ELSE prefix

CleanQuery(s) == IF Strip(s) = <<>> THEN s ELSE Truncated(Normalized(Strip(s)))

-----------------------------------------------------------------------------
(* Passages *)

OneEmptyLine(s) ==
    Keep(s, {i \in DOMAIN s : ~(i > 2 /\ \A j \in i - 2 .. i : s[j] = "newline")})

(* Blanks with nothing behind them in their line. *)
Trailing(s) ==
    {i \in DOMAIN s : \E j \in i..Len(s) :
        /\ \A k \in i..j : s[k] = "blank"
        /\ j = Len(s) \/ s[j + 1] = "newline"}

(* clean_text: empty lines first, so that lines of blanks stay. *)
CleanText(s) ==
    LET lines == OneEmptyLine(Without(s, "hidden"))
    IN  Strip(Keep(lines, DOMAIN lines \ Trailing(lines)))

-----------------------------------------------------------------------------
Words(s) == SelectSeq(s, LAMBDA c : c = "word")

(* A question is searched for with all its words, or, if it is too long,   *)
(* with the first of them up to the end of a sentence or the limit; and    *)
(* never with nothing, unless it was blank.                                *)
QuestionIsAsked ==
    LET clean == CleanQuery(text)
    IN  /\ Strip(text) # <<>> => Strip(clean) # <<>>
        /\ Strip(text) # <<>> => Len(clean) <= MaxLength
        /\ IsPrefix(Words(clean), Words(Half(text)))
        /\ Words(clean) = Words(Half(text)) \/ Last(clean) = "stop" \/ Len(clean) = MaxLength

(* The number of line breaks between a word and the next, two standing for *)
(* all that are more.                                                      *)
Breaks(s) ==
    LET at == InOrder(s, {i \in DOMAIN s : s[i] = "word"})
    IN  [k \in 1..Len(at) - 1 |->
            Min({2, Cardinality({i \in at[k]..at[k + 1] : s[i] = "newline"})})]

(* A passage keeps its words, lines and paragraphs; cleaned once more it   *)
(* may lose empty lines, and then nothing.                                 *)
PassageIsKept ==
    LET clean == CleanText(text)
    IN  /\ Words(clean) = Words(text)
        /\ Breaks(clean) = Breaks(text)
        /\ CleanText(CleanText(clean)) = CleanText(clean)

CleaningKeepsTheText ==
    IF use = "query" THEN QuestionIsAsked ELSE PassageIsKept
=============================================================================
