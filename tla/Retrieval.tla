----------------------------- MODULE Retrieval -----------------------------
(***************************************************************************)
(* One search for passages of a bid (ai/rag/retriever.py): the embedding   *)
(* of the query and a semantic search in Milvus, a listing of the bid's    *)
(* passages whose keywords are counted, the fusion of the two by           *)
(* reciprocal rank, and what the caller is told about the quality.  Each   *)
(* call outside may fail or run into its timeout, and the search goes on   *)
(* with what is left.  Passages are numbered in the order of the listing.  *)
(* Not here: the marks of structured data, which follow the passages.      *)
(***************************************************************************)
EXTENDS Integers, SequencesExt

CONSTANTS
    N,              \* passages of the bid
    Limit,          \* _KEYWORD_SCAN_LIMIT
    Top,            \* top_k
    Terms,          \* bound on the terms of the query
    Scale           \* a common multiple of the denominators K + rank

Passages == 1..N
K == 60

RetrievalAssumption ==
    /\ {N, Limit, Top, Terms} \subseteq Nat
    /\ Scale \in Nat \ {0}
    /\ \A rank \in Passages : (Scale \div (K + rank)) * (K + rank) = Scale

(* The similarity of the best passage: NoScore without any, else below the *)
(* threshold of refusal, doubtful or high.                                 *)
Levels == {"NoScore", "none", "low", "high"}

VARIABLES
    world,      \* what the semantic search would find: a ranking and its level
    at,         \* the next call
    vector,     \* hits_v
    semanticOk, \* semantic_ok
    listed,     \* all_chunks
    hits,       \* how many terms a passage has
    results,
    hint

vars == <<world, at, vector, semanticOk, listed, hits, results, hint>>

Rankings == {s \in UNION {[1..n -> Passages] : n \in 0..N} : Cardinality(Range(s)) = Len(s)}

TypeOK ==
    /\ world \in [ranking : Rankings, level : Levels]
    /\ at \in {"embed", "search", "list", "count", "fuse", "classify", "done"}
    /\ vector \in Rankings
    /\ semanticOk \in BOOLEAN
    /\ listed \in SUBSET Passages
    /\ hits \in [Passages -> 0..Terms]
    /\ results \in Rankings
    /\ hint \in {"", "SEMANTIC_DOWN", "NO_EVIDENCE"}

Start(w) ==
    /\ world = w
    /\ at = "embed" /\ vector = <<>> /\ semanticOk = TRUE /\ listed = {}
    /\ hits = [p \in Passages |-> 0] /\ results = <<>> /\ hint = ""

Init ==
    \E r \in Rankings, l \in Levels :
        /\ (r = <<>>) = (l = "NoScore")
        /\ Start([ranking |-> r, level |-> l])

-----------------------------------------------------------------------------
(* A set in a strict total order, given as a set of pairs. *)
Sorted(S, order) ==
    [i \in 1..Cardinality(S) |->
        CHOOSE p \in S : Cardinality({q \in S : <<q, p>> \in order}) = i - 1]

RankIn(ranked, p) == CHOOSE i \in DOMAIN ranked : ranked[i] = p

(* a is ranked above b, or b is not ranked at all. *)
Above(ranked, a, b) ==
    a \in Range(ranked) /\ (b \in Range(ranked) => RankIn(ranked, a) < RankIn(ranked, b))

(* What of a ranking is in S. *)
Those(ranked, S) ==
    LET kept == Range(ranked) \cap S
    IN  Sorted(kept, {r \in kept \X kept : RankIn(ranked, r[1]) < RankIn(ranked, r[2])})

Share(ranked, p) == IF p \in Range(ranked) THEN Scale \div (K + RankIn(ranked, p)) ELSE 0

FusedScore(p, ranked) == Share(vector, p) + Share(ranked, p)

(* _score_keywords: by the number of terms, then as listed. *)
Keyword ==
    LET matching == {p \in listed : hits[p] > 0}
    IN  Sorted(matching, {r \in matching \X matching :
                              \/ hits[r[1]] > hits[r[2]]
                              \/ hits[r[1]] = hits[r[2]] /\ r[1] < r[2]})

(* Passages are met in the semantic route first. *)
Met(ranked, p, q) ==
    \/ Above(vector, p, q)
    \/ {p, q} \cap Range(vector) = {} /\ Above(ranked, p, q)

(* _rrf_fuse: by score, and for equal scores in the order in which the     *)
(* passages were met.                                                      *)
Fused ==
    LET keyword == Keyword
        found == Range(vector) \cup Range(keyword)
        score == [p \in found |-> FusedScore(p, keyword)]
        all == Sorted(found, {r \in found \X found :
                                  \/ score[r[1]] > score[r[2]]
                                  \/ score[r[1]] = score[r[2]] /\ Met(keyword, r[1], r[2])})
    IN  SubSeq(all, 1, IF Len(all) < Top THEN Len(all) ELSE Top)

(* A hit of the semantic search brings its own passage. *)
Known == Range(vector) \cup listed

-----------------------------------------------------------------------------
Embed ==
    /\ at = "embed"
    /\ at' = "search"
    /\ UNCHANGED <<world, vector, semanticOk, listed, hits, results, hint>>

(* Mutant: the failure is not remembered.                                  *)
SemanticFailsSilently ==
    /\ at \in {"embed", "search"}
    /\ at' = "list"
    /\ UNCHANGED <<world, vector, semanticOk, listed, hits, results, hint>>

(* The embedding fails, or the search does or takes too long. *)
SemanticFails ==
    /\ at \in {"embed", "search"}
    /\ at' = "list" /\ semanticOk' = FALSE
    /\ UNCHANGED <<world, vector, listed, hits, results, hint>>

SemanticEnds ==
    /\ at = "search"
    /\ at' = "list" /\ vector' = world.ranking
    /\ UNCHANGED <<world, semanticOk, listed, hits, results, hint>>

List ==
    /\ at = "list"
    /\ at' = "count" /\ listed' = {p \in Passages : p <= Limit}
    /\ UNCHANGED <<world, vector, semanticOk, hits, results, hint>>

ListFails ==
    /\ at = "list"
    /\ at' = "count"
    /\ UNCHANGED <<world, vector, semanticOk, listed, hits, results, hint>>

Count ==
    /\ at = "count"
    /\ at' = "fuse" /\ hits' \in [Passages -> 0..Terms]
    /\ UNCHANGED <<world, vector, semanticOk, listed, results, hint>>

Fuse ==
    /\ at = "fuse"
    /\ at' = "classify" /\ results' = Those(Fused, Known)
    /\ UNCHANGED <<world, vector, semanticOk, listed, hits, hint>>

(* max_score: only of a semantic search that worked. *)
MaxScore == IF vector # <<>> /\ semanticOk THEN world.level ELSE "NoScore"

(* classify_retrieval: no caller says that a bid is not parsed. *)
Hint(maxScore) ==
    CASE ~semanticOk -> "SEMANTIC_DOWN"
      [] semanticOk /\ maxScore \in {"NoScore", "none"} -> "NO_EVIDENCE"
      [] OTHER -> ""

Classify ==
    /\ at = "classify"
    /\ at' = "done" /\ hint' = Hint(MaxScore)
    /\ UNCHANGED <<world, vector, semanticOk, listed, hits, results>>

Next ==
    \/ Embed
    \/ SemanticFails
    \/ SemanticEnds
    \/ List
    \/ ListFails
    \/ Count
    \/ Fuse
    \/ Classify

Spec == Init /\ [][Next]_vars

-----------------------------------------------------------------------------
(* The fusion respects agreement: a passage that one route ranks above     *)
(* another, with no route ranking it below, comes before the other, and is *)
(* not cut off for its sake.                                               *)
AgreementKept ==
    at = "done" =>
        \A a, b \in Passages :
            (/\ \E ranked \in {vector, Keyword} : Above(ranked, a, b)
             /\ \A ranked \in {vector, Keyword} : b \in Range(ranked) => Above(ranked, a, b))
            => Above(results, a, b) \/ {a, b} \cap Range(results) = {}

(* Whatever failed, the caller gets every passage that some route found,   *)
(* up to Top: also when the listing failed or stops before the passage.    *)
NothingFoundIsLost ==
    at \in {"classify", "done"} =>
        LET found == Cardinality(Range(vector) \cup Range(Keyword))
        IN  Len(results) = IF found < Top THEN found ELSE Top

(* Neither route is preferred to what both agree on, and none is dropped.  *)
FusionIsFair == AgreementKept /\ NothingFoundIsLost

(* "No evidence" is said of the bid, never of a service that is down, and  *)
(* nothing is said only if the best passage passes the threshold.          *)
HintIsHonest ==
    at = "done" =>
        /\ hint = "NO_EVIDENCE" => world.level \in {"NoScore", "none"}
        /\ hint = "" => world.level \in {"low", "high"} /\ world.ranking = vector

(* A search returns what the routes agree on, and does not call a service  *)
(* that is down a bid without evidence.                                    *)
SearchIsSound == FusionIsFair /\ HintIsHonest
=============================================================================
