------------------------------ MODULE Chunker ------------------------------
(***************************************************************************)
(* How a bid is cut into the chunks that are searched (ai/rag/chunker.py): *)
(* into sections by headings, a section that is too long into chunks of    *)
(* whole paragraphs which repeat the end of the chunk before, a paragraph  *)
(* that is too long into overlapping windows.                              *)
(*                                                                         *)
(* A text is a sequence of lines.  Its tokens are numbered from the first  *)
(* on, so that a paragraph, and the content of a chunk, is a set of        *)
(* numbers.  That the tokens of two lines add up is an abstraction: in the *)
(* code the break between them takes a token, too.                         *)
(***************************************************************************)
EXTENDS Integers, SequencesExt

CONSTANTS
    Documents,      \* what document_ingest may have extracted
    MaxTokens,      \* doc_chunk_max_tokens
    OverlapTokens   \* doc_chunk_overlap_tokens

(* A mark of a page with its number, or a line of so many tokens.          *)
Line == [kind : {"page"}, number : Nat] \cup [kind : {"heading", "text"}, size : Nat]

ASSUME ChunkerAssumption ==
    /\ MaxTokens \in Nat /\ OverlapTokens \in Nat
    /\ OverlapTokens < MaxTokens
    /\ Documents \subseteq Seq(Line)

VARIABLES
    text,           \* lines: a "page" mark with its number, a "heading", or "text"
    at,             \* lines read
    title,          \* cur_title: the line of the heading, or 0
    lines,          \* cur_lines
    pages,          \* cur_pages
    page,           \* current_page, or 0
    sections,
    paras,          \* paragraphs of the section that are still to be cut
    cur,            \* paragraphs of the piece that grows
    pieces,         \* of the section, finished
    chunks,
    phase           \* "read", "chunk", "split", "over"

chunkVars == <<text, at, title, lines, pages, page, sections, paras, cur, pieces, chunks, phase>>

Start(t) ==
    /\ text = t
    /\ at = 0 /\ title = 0 /\ lines = {} /\ pages = {} /\ page = 0
    /\ sections = <<>> /\ paras = {} /\ cur = {} /\ pieces = <<>> /\ chunks = <<>>
    /\ phase = "read"

ChunkInit == \E t \in Documents : Start(t)

-----------------------------------------------------------------------------
Size(i) == IF text[i].kind = "page" THEN 0 ELSE text[i].size
Offset(i) == SumFunction([j \in DOMAIN text |-> IF j < i THEN Size(j) ELSE 0])
Tokens(i) == Offset(i) + 1 .. Offset(i) + Size(i)
TokensOf(ls) == UNION {Tokens(i) : i \in ls}
Blank(i) == Size(i) = 0

(* _page_range, and what is left of it after it was stored in Milvus as a  *)
(* string and read again.                                                  *)
PageRange(ps) == IF ps = {} THEN <<0, 0>> ELSE <<Min(ps), Max(ps)>>
Stored(r) == IF r[2] <= 0 THEN <<0>> ELSE IF r[1] = r[2] THEN <<r[1]>> ELSE r
ReadBack(s) == IF Len(s) = 2 THEN s ELSE <<s[1], s[1]>>

(* The section that ends here; one without a body is left out, and its     *)
(* heading with it.                                                        *)
Ended ==
    IF TokensOf(lines) = {} THEN sections
    ELSE Append(sections, [title |-> title, lines |-> lines, range |-> PageRange(pages)])

(* Mutant: a heading does not count for the page it stands on.             *)
HeadingPagesForgotten == {}

HeadingPages == {page} \ {0}

ReadLine ==
    /\ phase = "read" /\ at < Len(text)
    /\ at' = at + 1
    /\ LET line == text[at + 1] IN
       \/ /\ line.kind = "page"
          /\ page' = line.number
          /\ UNCHANGED <<title, lines, pages, sections>>
       \/ /\ line.kind = "heading"
          /\ sections' = Ended
          /\ title' = at + 1 /\ lines' = {} /\ pages' = HeadingPages
          /\ UNCHANGED page
       \/ /\ line.kind = "text"
          /\ lines' = lines \cup {at + 1}
          /\ pages' = pages \cup ({page} \ {0})
          /\ UNCHANGED <<title, page, sections>>
    /\ UNCHANGED <<text, paras, cur, pieces, chunks, phase>>

EndOfText ==
    /\ phase = "read" /\ at = Len(text)
    /\ sections' = Ended
    /\ phase' = "chunk"
    /\ UNCHANGED <<text, at, title, lines, pages, page, paras, cur, pieces, chunks>>

-----------------------------------------------------------------------------
Section == Head(sections)

(* The pieces of a section become chunks, the first with the heading.      *)
Emit(ps) ==
    /\ chunks' = chunks \o
           [k \in 1..Len(ps) |-> [title |-> Section.title,
                                  headed |-> k = 1 /\ Section.title # 0,
                                  tokens |-> ps[k],
                                  range |-> ReadBack(Stored(Section.range))]]
    /\ sections' = Tail(sections)
    /\ phase' = "chunk"

(* A section that fits, with its heading or without.                       *)
KeepWhole ==
    /\ phase = "chunk" /\ sections # <<>>
    /\ Cardinality(TokensOf(Section.lines)) <= MaxTokens
    /\ Emit(<<TokensOf(Section.lines)>>)
    /\ UNCHANGED <<text, at, title, lines, pages, page, paras, cur, pieces>>

(* _split_paragraphs: what stands between blank lines, or every line if    *)
(* that would be only one.                                                 *)
Spoken(ls) == {i \in ls : ~Blank(i)}
Together(ls, i) == {j \in ls : \A k \in ls : k \in i..j \cup j..i => ~Blank(k)}
Groups(ls) == {Together(ls, i) : i \in Spoken(ls)}
ByLine(ls) == {{i} : i \in Spoken(ls)}
Paragraphs(ls) ==
    {TokensOf(g) : g \in IF Cardinality(Groups(ls)) > 1 THEN Groups(ls) ELSE ByLine(ls)}

OpenSection ==
    /\ phase = "chunk" /\ sections # <<>>
    /\ Cardinality(TokensOf(Section.lines)) > MaxTokens
    /\ paras' = Paragraphs(Section.lines)
    /\ cur' = {} /\ pieces' = <<>>
    /\ phase' = "split"
    /\ UNCHANGED <<text, at, title, lines, pages, page, sections, chunks>>

SizeOf(ps) == Cardinality(UNION ps)
Joined(ps) == IF ps = {} THEN <<>> ELSE <<UNION ps>>
First(ps) == CHOOSE p \in ps : \A q \in ps : Min(p) <= Min(q)

(* _paragraph_tail goes back from the last paragraph, and takes another as *)
(* long as those after it are too short.                                   *)
After(ps, p) == {q \in ps : Min(p) < Min(q)}
TailOf(ps) == {p \in ps : After(ps, p) = {} \/ SizeOf(After(ps, p)) < OverlapTokens}

TakeParagraph ==
    /\ phase = "split" /\ paras # {}
    /\ Cardinality(First(paras)) <= MaxTokens
    /\ IF SizeOf(cur) + Cardinality(First(paras)) > MaxTokens
       THEN /\ pieces' = pieces \o Joined(cur)
            /\ cur' = TailOf(cur) \cup {First(paras)}
       ELSE /\ cur' = cur \cup {First(paras)}
            /\ UNCHANGED pieces
    /\ paras' = paras \ {First(paras)}
    /\ UNCHANGED <<text, at, title, lines, pages, page, sections, chunks, phase>>

Step == MaxTokens - OverlapTokens

(* _window_long_paragraph: the last window is the first that reaches the   *)
(* end.                                                                    *)
Window(para, k) ==
    LET from == Min(para) + (k - 1) * Step
    IN  para \cap (from .. from + MaxTokens - 1)
LastWindow(para) == Min({k \in 1..Cardinality(para) : Max(para) \in Window(para, k)})
Slide(para) == [k \in 1..LastWindow(para) |-> Window(para, k)]

CutParagraph ==
    /\ phase = "split" /\ paras # {}
    /\ Cardinality(First(paras)) > MaxTokens
    /\ pieces' = pieces \o Joined(cur) \o Slide(First(paras))
    /\ cur' = {}
    /\ paras' = paras \ {First(paras)}
    /\ UNCHANGED <<text, at, title, lines, pages, page, sections, chunks, phase>>

CloseSection ==
    /\ phase = "split" /\ paras = {}
    /\ Emit(pieces \o Joined(cur))
    /\ cur' = {} /\ pieces' = <<>>
    /\ UNCHANGED <<text, at, title, lines, pages, page, paras>>

Finish ==
    /\ phase = "chunk" /\ sections = <<>>
    /\ phase' = "over"
    /\ UNCHANGED <<text, at, title, lines, pages, page, sections, paras, cur, pieces, chunks>>

ChunkNext ==
    \/ ReadLine \/ EndOfText
    \/ KeepWhole \/ OpenSection \/ TakeParagraph \/ CutParagraph \/ CloseSection
    \/ Finish

ChunkSpec == ChunkInit /\ [][ChunkNext]_chunkVars

-----------------------------------------------------------------------------
PageOf(i) ==
    LET marks == {j \in 1..i : text[j].kind = "page"}
    IN  IF marks = {} THEN 0 ELSE text[Max(marks)].number
HeadingOf(i) == Max({0} \cup {j \in 1..i : text[j].kind = "heading"})

(* Whatever is said in a line can be found: any stretch of it that is not  *)
(* longer than the overlap by more than one stands undivided in a chunk,   *)
(* a character of several tokens for example.                              *)
NothingIsCut ==
    phase = "over" =>
        \A i \in DOMAIN text : text[i].kind = "text" =>
            \A t \in Tokens(i) :
                \E k \in DOMAIN chunks :
                    Tokens(i) \cap (t .. t + OverlapTokens) \subseteq chunks[k].tokens

(* A chunk is one stretch of its text, says something that the chunk       *)
(* before does not, and is never longer than two chunks and an overlap,    *)
(* although what it repeats (a paragraph at least, whatever the overlap)   *)
(* and the paragraph it adds are both whole.                               *)
ChunksAreBounded ==
    \A k \in DOMAIN chunks :
        LET tokens == chunks[k].tokens IN
        /\ tokens = Min(tokens) .. Max(tokens)
        /\ Cardinality(tokens) < 2 * MaxTokens + Max({OverlapTokens, 1})
        /\ k > 1 => Max(chunks[k - 1].tokens) < Max(tokens)

(* The chunks hold the whole text, in pieces a model can take.             *)
ChunksHoldTheText == NothingIsCut /\ ChunksAreBounded

(* Whoever is shown a chunk is told where it stands: under the heading     *)
(* above every line of it, on pages that hold all of them and no others    *)
(* than those of its section.                                              *)
PlaceIsRight ==
    \A k \in DOMAIN chunks :
        LET c == chunks[k]
            section == {i \in DOMAIN text : text[i].kind # "page" /\ HeadingOf(i) = c.title}
        IN  /\ \A i \in section : Tokens(i) \cap c.tokens # {} \/ (c.headed /\ i = c.title) =>
                   PageOf(i) = 0 \/ PageOf(i) \in c.range[1] .. c.range[2]
            /\ \A i \in DOMAIN text :
                   text[i].kind = "text" /\ Tokens(i) \cap c.tokens # {} => i \in section
            /\ c.range # <<0, 0>> =>
                   \A p \in Range(c.range) : \E i \in section : PageOf(i) = p

(* What is searched is the text, and every piece of it says where it was.  *)
ChunksAreRight == ChunksHoldTheText /\ PlaceIsRight
=============================================================================
