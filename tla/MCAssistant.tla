---------------------------- MODULE MCAssistant ----------------------------
(* What lies between the text of a bid and the answer an expert reads, for *)
(* TLC: the text is cut into chunks (Chunker), the chunks are searched     *)
(* (Retrieval) for what is left of the question (Cleaning), questions are  *)
(* answered from what was found (ChatAgent), and an answer arrives in      *)
(* pieces (Splitter).  They exchange texts, which are abstract in each,    *)
(* and share no state; so a behaviour is of one of them and leaves the     *)
(* others where they begin.                                                *)
EXTENDS Chunker, AssistantParts

CONSTANTS
    w1, w2,
    MaxLength, MinKeep, Longest                 \* of Cleaning

VARIABLES
    doing,                                      \* the part that goes on
    use, typed                                  \* of Cleaning

cleanVars == <<use, typed>>

Clean == INSTANCE Cleaning WITH text <- typed
Tags == INSTANCE Splitter WITH Texts <- {}, text <- written, phase <- splitting

-----------------------------------------------------------------------------
(* Documents of up to five lines, whose pages are numbered as they follow. *)
Kinds == {[kind |-> "page"], [kind |-> "heading", size |-> 1]}
         \cup [kind : {"text"}, size : {0, 1, 2, 3, 7}]
Numbered(t) ==
    [i \in DOMAIN t |->
        IF t[i].kind = "page"
        THEN [kind |-> "page", number |-> Cardinality({j \in 1..i : t[j].kind = "page"})]
        ELSE t[i]]
MCDocuments == {Numbered(t) : t \in UNION {[1..n -> Kinds] : n \in 1..5}}

(* Four passages, of which the listing reaches three; three are returned. *)
MCScale == 61 * 62 * 63 * 64

(* A text of the longer kind is a passage's. *)
MCLongest == [query |-> 5, passage |-> 7]

(* Four questions make two stages of four messages. *)
MCQuestions == <<{"greeting", "query"}, {"followup", "vague", "sum"},
                 {"followup", "query"}, {"vague"}>>
Symmetry == Permutations(Windows)

(* Any four tags, words, blanks and stray brackets, and whatever stands    *)
(* between the tags of an answer in the form that was asked for.           *)
Between == {<<>>, <<"x">>, <<" ">>, <<"<">>}
Pieces == {Tags!ThinkingOpen, Tags!ThinkingClose, Tags!AnswerOpen, Tags!AnswerClose}
          \cup (Between \ {<<>>})
MCAnswers ==
    {FlattenSeq(ps) : ps \in UNION {[1..n -> Pieces] : n \in 0..4}}
    \cup {Tags!ThinkingOpen \o b[1] \o Tags!ThinkingClose \o b[2]
           \o Tags!AnswerOpen \o b[3] \o Tags!AnswerClose \o b[4] : b \in [1..4 -> Between]}

-----------------------------------------------------------------------------
MCInit ==
    /\ doing \in {"chunks", "search", "chat", "split", "clean"}
    /\ IF doing = "chunks" THEN ChunkInit ELSE Start(<<>>)
    /\ IF doing = "search" THEN Search!Init ELSE Search!Start([ranking |-> <<>>, level |-> "NoScore"])
    /\ Chat!Init
    /\ IF doing = "split" THEN Split!Init ELSE Split!Start(<<>>)
    /\ Clean!Init /\ (doing # "clean" => use = "query")

MCNext ==
    \/ doing = "chunks" /\ ChunkNext /\ UNCHANGED <<doing, searchVars, chatVars, splitVars, cleanVars>>
    \/ doing = "search" /\ Search!Next /\ UNCHANGED <<doing, chunkVars, chatVars, splitVars, cleanVars>>
    \/ doing = "chat" /\ Chat!Next /\ UNCHANGED <<doing, chunkVars, searchVars, splitVars, cleanVars>>
    \/ doing = "split" /\ Split!Next /\ UNCHANGED <<doing, chunkVars, searchVars, chatVars, cleanVars>>
    \/ doing = "clean" /\ Clean!Write /\ UNCHANGED <<doing, chunkVars, searchVars, chatVars, splitVars>>

MCSpec == MCInit /\ [][MCNext]_<<doing, chunkVars, searchVars, chatVars, splitVars, cleanVars>>

-----------------------------------------------------------------------------
(* Cleaning takes no word from a question that is short enough, and no     *)
(* word, line or paragraph from a passage.                                 *)
CleaningKeepsTheText == doing = "clean" => Clean!CleaningKeepsTheText
=============================================================================
