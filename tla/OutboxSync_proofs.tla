------------------------- MODULE OutboxSync_proofs -------------------------
(* Proofs about OutboxSync for any aggregates, events, requests and jobs,   *)
(* and about Retrieval for any number of passages and of results: what the  *)
(* two stores beside MySQL, Neo4j and Milvus, are asked for.                *)
EXTENDS OutboxSync, AssistantParts, CountingLemmas, TLAPS

-----------------------------------------------------------------------------
(* Searching.  First what it is to put a set in order.                     *)
IsOrder(R, S) ==
    /\ \A p \in S : <<p, p>> \notin R
    /\ \A p, q \in S : p # q => <<p, q>> \in R \/ <<q, p>> \in R
    /\ \A p, q, s \in S : <<p, q>> \in R /\ <<q, s>> \in R => <<p, s>> \in R

(* f has each element of S in one place, and no other element.             *)
Ranks(f, S) ==
    /\ f \in [1..Cardinality(S) -> S]
    /\ \A p \in S : \E i \in 1..Cardinality(S) : f[i] = p
    /\ \A i, j \in 1..Cardinality(S) : f[i] = f[j] => i = j

LEMMA SearchCounts == \A S : Search!Cardinality(S) = Cardinality(S)
BY DEF Search!Cardinality, Cardinality

(* How many come before an element tells the elements apart.               *)
HowManyBefore(S, R) == [p \in S |-> Cardinality({q \in S : <<q, p>> \in R})]

LEMMA BeforeCounts ==
    ASSUME NEW S, IsFiniteSet(S), NEW R, IsOrder(R, S)
    PROVE  /\ HowManyBefore(S, R) \in [S -> 0..Cardinality(S) - 1]
           /\ \A p, q \in S : <<p, q>> \in R => HowManyBefore(S, R)[p] < HowManyBefore(S, R)[q]
           /\ \A i \in 1..Cardinality(S) : \E p \in S : HowManyBefore(S, R)[p] = i - 1
<1> DEFINE B(p) == {q \in S : <<q, p>> \in R}
           c == [p \in S |-> Cardinality(B(p))]
           n == Cardinality(S)
<1>0. n \in Nat
  BY FS_CardinalityType
<1>1. ASSUME NEW p \in S PROVE /\ IsFiniteSet(B(p)) /\ Cardinality(B(p)) \in Nat /\ Cardinality(B(p)) < n
  <2>1. B(p) \in SUBSET S /\ B(p) # S
    BY DEF IsOrder
  <2> QED
    <3>1. IsFiniteSet(B(p)) /\ Cardinality(B(p)) <= n /\ Cardinality(B(p)) # n
      BY <2>1, FS_Subset
    <3>2. Cardinality(B(p)) \in Nat
      BY <3>1, FS_CardinalityType
    <3> HIDE DEF B
    <3> QED
      BY <1>0, <3>1, <3>2
<1>2. ASSUME NEW p \in S, NEW q \in S, <<p, q>> \in R PROVE Cardinality(B(p)) < Cardinality(B(q))
  <2>1. B(p) \in SUBSET B(q) /\ p \in B(q) /\ p \notin B(p)
    BY <1>2 DEF IsOrder
  <2>2. IsFiniteSet(B(q)) /\ Cardinality(B(q)) \in Nat /\ Cardinality(B(p)) \in Nat
    BY <1>1
  <2> HIDE DEF B
  <2> QED
    BY <2>1, <2>2, FS_Subset
<1>3. c \in [S -> 0..n - 1]
  BY <1>0, <1>1
<1>4. \A p, q \in S : <<p, q>> \in R => c[p] < c[q]
  BY <1>2
<1>5. \A i \in 1..n : \E p \in S : c[p] = i - 1
  <2> HIDE DEF c
  <2>1. c \in Injection(S, 0..n - 1)
    <3>1. ASSUME NEW p \in S, NEW q \in S, c[p] = c[q], p # q PROVE FALSE
      <4>1. c[p] < c[q] \/ c[q] < c[p]
        BY <1>4, <3>1 DEF IsOrder
      <4>2. c[p] \in Int /\ c[q] \in Int
        BY <1>3
      <4> QED
        BY <3>1, <4>1, <4>2
    <3> QED
      BY <1>3, <3>1 DEF Injection, IsInjective
  <2>2. IsFiniteSet(0..n - 1) /\ Cardinality(0..n - 1) = n
    BY <1>0, FS_Interval
  <2>3. c \in Surjection(S, 0..n - 1)
    BY <2>1, <2>2, FS_Injection
  <2> QED
    BY <1>0, <2>3 DEF Surjection
<1> QED
  BY <1>3, <1>4, <1>5 DEF HowManyBefore

(* Sorted puts a finite set in the order it is given.                      *)
LEMMA SortedIs ==
    ASSUME NEW S, IsFiniteSet(S), NEW R, IsOrder(R, S)
    PROVE  /\ Ranks(Search!Sorted(S, R), S)
           /\ \A i, j \in 1..Cardinality(S) :
                  i < j => <<Search!Sorted(S, R)[i], Search!Sorted(S, R)[j]>> \in R
<1> DEFINE n == Cardinality(S)
           c == HowManyBefore(S, R)
           f == Search!Sorted(S, R)
<1>0. n \in Nat
  BY FS_CardinalityType
<1>1. /\ c \in [S -> 0..n - 1]
      /\ \A p, q \in S : <<p, q>> \in R => c[p] < c[q]
      /\ \A i \in 1..n : \E p \in S : c[p] = i - 1
  BY BeforeCounts
<1>2. f = [i \in 1..Search!Cardinality(S) |->
               CHOOSE p \in S : Search!Cardinality({q \in S : <<q, p>> \in R}) = i - 1]
  BY DEF Search!Sorted
<1>3. ASSUME NEW i \in 1..n PROVE f[i] \in S /\ c[f[i]] = i - 1
  <2>1. PICK p \in S : c[p] = i - 1
    BY <1>1
  <2>2. Search!Cardinality({q \in S : <<q, p>> \in R}) = i - 1
    BY <2>1, SearchCounts DEF HowManyBefore
  <2>3. f[i] \in S /\ Search!Cardinality({q \in S : <<q, f[i]>> \in R}) = i - 1
    <3>1. f[i] = CHOOSE x \in S : Search!Cardinality({q \in S : <<q, x>> \in R}) = i - 1
      BY <1>2, SearchCounts
    <3> HIDE DEF f
    <3> QED
      BY <2>2, <3>1
  <2> HIDE DEF f
  <2> QED
    BY <2>3, SearchCounts DEF HowManyBefore
<1> HIDE DEF c, f
<1>4. \A p \in S : \E i \in 1..n : f[i] = p
  <2> SUFFICES ASSUME NEW p \in S PROVE \E i \in 1..n : f[i] = p
    OBVIOUS
  <2>1. c[p] + 1 \in 1..n /\ c[f[c[p] + 1]] = c[p] /\ f[c[p] + 1] \in S
    BY <1>0, <1>1, <1>3
  <2>2. f[c[p] + 1] = p
    <3> DEFINE q == f[c[p] + 1]
    <3>1. q \in S /\ c[q] = c[p] /\ c[p] \in Int
      BY <1>1, <2>1
    <3> HIDE DEF q
    <3>2. ~(c[p] < c[q]) /\ ~(c[q] < c[p])
      BY <3>1
    <3> QED
      BY <1>1, <3>1, <3>2 DEF IsOrder, q
  <2> QED
    BY <2>1, <2>2
<1>5. \A i, j \in 1..n : f[i] = f[j] => i = j
  BY <1>3
<1>6. ASSUME NEW i \in 1..n, NEW j \in 1..n, i < j PROVE <<f[i], f[j]>> \in R
  <2>1. f[i] \in S /\ f[j] \in S /\ c[f[i]] = i - 1 /\ c[f[j]] = j - 1
    BY <1>3
  <2>2. f[i] # f[j] /\ ~(c[f[j]] < c[f[i]])
    BY <1>0, <1>6, <2>1
  <2> QED
    BY <1>1, <2>1, <2>2 DEF IsOrder
<1>7. f \in [1..n -> S]
  BY <1>2, <1>3, SearchCounts
<1> QED
  BY <1>4, <1>5, <1>6, <1>7 DEF Ranks, f

(* A ranking says of each of its elements where it stands.                 *)
LEMMA RanksTell ==
    ASSUME NEW S, IsFiniteSet(S), NEW f, Ranks(f, S)
    PROVE  /\ Search!Range(f) = S
           /\ f \in Seq(S) /\ Len(f) = Cardinality(S) /\ DOMAIN f = 1..Cardinality(S)
           /\ \A p \in S : Search!RankIn(f, p) \in 1..Cardinality(S) /\ f[Search!RankIn(f, p)] = p
           /\ \A i \in 1..Cardinality(S) : Search!RankIn(f, f[i]) = i
<1>0. Cardinality(S) \in Nat
  BY FS_CardinalityType
<1>1. \A p \in S : Search!RankIn(f, p) \in 1..Cardinality(S) /\ f[Search!RankIn(f, p)] = p
  BY DEF Ranks, Search!RankIn
<1>2. \A i \in 1..Cardinality(S) : Search!RankIn(f, f[i]) = i
  BY <1>1 DEF Ranks
<1> QED
  BY <1>0, <1>1, <1>2 DEF Ranks, Search!Range

(* In a sorted set, places are ranked as the order says.                   *)
LEMMA SortedTells ==
    ASSUME NEW S, IsFiniteSet(S), NEW R, IsOrder(R, S), NEW p \in S, NEW q \in S
    PROVE  <<p, q>> \in R <=>
               Search!RankIn(Search!Sorted(S, R), p) < Search!RankIn(Search!Sorted(S, R), q)
<1> DEFINE f == Search!Sorted(S, R)
           i == Search!RankIn(f, p)
           j == Search!RankIn(f, q)
<1>1. /\ i \in 1..Cardinality(S) /\ f[i] = p
      /\ j \in 1..Cardinality(S) /\ f[j] = q
  BY SortedIs, RanksTell
<1>2. i < j => <<p, q>> \in R
  BY <1>1, SortedIs
<1>3. j < i => <<q, p>> \in R
  BY <1>1, SortedIs
<1>4. i = j => p = q
  BY <1>1
<1>5. i \in Int /\ j \in Int
  BY <1>1
<1> HIDE DEF i, j
<1>6. i < j \/ j < i \/ i = j
  BY <1>5
<1>7. ~(i < j) \/ ~(j < i)
  BY <1>5
<1>8. <<p, p>> \notin R /\ (<<p, q>> \in R => <<q, p>> \notin R)
  BY DEF IsOrder
<1>9. i < j => i # j
  BY <1>5
<1> QED
  BY <1>2, <1>3, <1>4, <1>6, <1>7, <1>8, <1>9 DEF i, j, f

(* What the sorting of a part of a ranking by the ranking yields.          *)
LEMMA ThoseIs ==
    ASSUME NEW S, IsFiniteSet(S), NEW f, Ranks(f, S), NEW Z
    PROVE  /\ Search!Range(Search!Those(f, Z)) = S \cap Z
           /\ Len(Search!Those(f, Z)) = Cardinality(S \cap Z)
           /\ Ranks(Search!Those(f, Z), S \cap Z)
           /\ \A p, q \in S \cap Z :
                  Search!RankIn(Search!Those(f, Z), p) < Search!RankIn(Search!Those(f, Z), q)
                      <=> Search!RankIn(f, p) < Search!RankIn(f, q)
<1> DEFINE T == S \cap Z
           R == {r \in T \X T : Search!RankIn(f, r[1]) < Search!RankIn(f, r[2])}
<1>1. IsFiniteSet(T)
  BY FS_Subset
<1>2. Search!Those(f, Z) = Search!Sorted(T, R)
  BY RanksTell DEF Search!Those
<1>3. \A p \in T : Search!RankIn(f, p) \in 1..Cardinality(S) /\ f[Search!RankIn(f, p)] = p
  BY RanksTell
<1>4. \A p, q \in T : <<p, q>> \in R <=> Search!RankIn(f, p) < Search!RankIn(f, q)
  OBVIOUS
<1>5. IsOrder(R, T)
  <2>1. \A p \in T : Search!RankIn(f, p) \in Int
    BY <1>3
  <2> HIDE DEF R, T
  <2>2. \A p, q \in T : p # q => <<p, q>> \in R \/ <<q, p>> \in R
    <3> SUFFICES ASSUME NEW p \in T, NEW q \in T, p # q PROVE <<p, q>> \in R \/ <<q, p>> \in R
      OBVIOUS
    <3>1. Search!RankIn(f, p) # Search!RankIn(f, q)
      BY <1>3
    <3> QED
      BY <1>4, <2>1, <3>1
  <2> QED
    BY <1>4, <2>1, <2>2 DEF IsOrder
<1> HIDE DEF R, T
<1>6. Ranks(Search!Those(f, Z), T)
  BY <1>1, <1>2, <1>5, SortedIs
<1>7. \A p, q \in T : <<p, q>> \in R <=>
        Search!RankIn(Search!Those(f, Z), p) < Search!RankIn(Search!Those(f, Z), q)
  BY <1>1, <1>2, <1>5, SortedTells
<1> QED
  BY <1>1, <1>4, <1>6, <1>7, RanksTell DEF T

(* The first m of a ranking.                                               *)
LEMMA FrontIs ==
    ASSUME NEW S, IsFiniteSet(S), NEW f, Ranks(f, S), NEW m \in 0..Cardinality(S),
           NEW T, T = {p \in S : Search!RankIn(f, p) <= m}
    PROVE  /\ Ranks(SubSeq(f, 1, m), T)
           /\ IsFiniteSet(T) /\ Cardinality(T) = m
           /\ \A p \in T : Search!RankIn(SubSeq(f, 1, m), p) = Search!RankIn(f, p)
<1> DEFINE g == SubSeq(f, 1, m)
           n == Cardinality(S)
<1>0. n \in Nat /\ m \in Nat /\ m <= n
  BY FS_CardinalityType
<1>1. /\ f \in Seq(S) /\ Len(f) = n /\ DOMAIN f = 1..n
      /\ \A p \in S : Search!RankIn(f, p) \in 1..n /\ f[Search!RankIn(f, p)] = p
      /\ \A i \in 1..n : Search!RankIn(f, f[i]) = i /\ f[i] \in S
  BY RanksTell DEF Ranks
<1>2. DOMAIN g = 1..m /\ \A i \in 1..m : g[i] = f[i]
  BY <1>0, <1>1
<1>3. g \in [1..m -> T]
  <2>1. g = [i \in 1..m |-> g[i]]
    BY <1>0, <1>1
  <2>2. \A i \in 1..m : g[i] \in T
    BY <1>0, <1>1, <1>2
  <2> HIDE DEF g
  <2> QED
    BY <2>1, <2>2
<1>4. \A p \in T : Search!RankIn(f, p) \in 1..m /\ g[Search!RankIn(f, p)] = p
  BY <1>0, <1>1, <1>2
<1>5. \A i, j \in 1..m : g[i] = g[j] => i = j
  <2> SUFFICES ASSUME NEW i \in 1..m, NEW j \in 1..m, g[i] = g[j] PROVE i = j
    OBVIOUS
  <2>1. i \in 1..n /\ j \in 1..n
    BY <1>0
  <2> HIDE DEF g
  <2> QED
    BY <1>1, <1>2, <2>1
<1>6. IsFiniteSet(T) /\ Cardinality(T) = m
  <2> HIDE DEF g
  <2>1. g \in Bijection(1..m, T)
    BY <1>3, <1>4, <1>5 DEF Bijection, Injection, IsInjective, Surjection
  <2>2. ExistsBijection(1..m, T)
    BY <2>1 DEF ExistsBijection
  <2>3. IsFiniteSet(1..m) /\ Cardinality(1..m) = m
    BY <1>0, FS_Interval
  <2> QED
    BY <2>2, <2>3, FS_Bijection
<1>7. Ranks(g, T)
  BY <1>3, <1>4, <1>5, <1>6 DEF Ranks
<1>8. ASSUME NEW p \in T PROVE Search!RankIn(g, p) = Search!RankIn(f, p)
  <2>1. Search!RankIn(g, g[Search!RankIn(f, p)]) = Search!RankIn(f, p)
    <3> HIDE DEF g
    <3> QED
      BY <1>4, <1>6, <1>7, <1>8, RanksTell
  <2> QED
    BY <1>4, <2>1
<1> QED
  BY <1>6, <1>7, <1>8
-----------------------------------------------------------------------------
(* What a rank is worth falls with the rank.                               *)
LEMMA LessPerPiece ==
    ASSUME NEW q \in Nat \ {0}, NEW r \in Nat \ {0}, NEW d \in Nat \ {0}, NEW e \in Nat \ {0},
           d < e, q * d = r * e
    PROVE  r < q
<1>1. SUFFICES ASSUME q <= r PROVE FALSE
  OBVIOUS
<1>2. q * d <= r * d /\ r * d \in Nat /\ r * e \in Nat /\ q * d \in Nat
  BY <1>1, TimesMore
<1>3. r * e = r * d + r * (e - d) /\ r * (e - d) > 0
  OBVIOUS
<1> QED
  BY <1>2, <1>3

LEMMA ShareFalls ==
    /\ \A i \in 1..N : Scale \div (60 + i) \in Nat \ {0}
    /\ \A i, j \in 1..N : i < j => Scale \div (60 + j) < Scale \div (60 + i)
<1>0. N \in Nat /\ Scale \in Nat \ {0} /\ \A i \in 1..N : (Scale \div (60 + i)) * (60 + i) = Scale
  BY SearchAssumption DEF Search!RetrievalAssumption, Search!Passages, Search!K
<1>1. ASSUME NEW i \in 1..N
      PROVE  Scale \div (60 + i) \in Nat \ {0} /\ (Scale \div (60 + i)) * (60 + i) = Scale
  <2> DEFINE q == Scale \div (60 + i)
  <2>1. 60 + i \in Nat \ {0} /\ q * (60 + i) = Scale
    BY <1>0
  <2>2. q \in Nat
    BY <1>0, <2>1, Quotient
  <2> HIDE DEF q
  <2>3. q # 0
    BY <1>0, <2>1, <2>2
  <2> QED
    BY <1>0, <2>1, <2>2, <2>3 DEF q
<1>2. ASSUME NEW i \in 1..N, NEW j \in 1..N, i < j
      PROVE  Scale \div (60 + j) < Scale \div (60 + i)
  <2> DEFINE q == Scale \div (60 + i)
             r == Scale \div (60 + j)
  <2>1. q \in Nat \ {0} /\ r \in Nat \ {0} /\ q * (60 + i) = r * (60 + j)
    BY <1>1
  <2>2. 60 + i \in Nat \ {0} /\ 60 + j \in Nat \ {0} /\ 60 + i < 60 + j
    BY <1>0, <1>2
  <2> HIDE DEF q, r
  <2>3. r < q
    BY <2>1, <2>2, LessPerPiece
  <2> QED
    BY <2>3 DEF q, r
<1> QED
  BY <1>1, <1>2

(* The rankings of the semantic search, and that of the keywords.          *)
LEMMA RankingsRank ==
    ASSUME NEW s \in Search!Rankings
    PROVE  /\ IsFiniteSet(Search!Range(s)) /\ Search!Range(s) \subseteq Search!Passages
           /\ Ranks(s, Search!Range(s))
           /\ Cardinality(Search!Range(s)) = Len(s) /\ s \in Seq(Search!Passages)
<1>1. PICK n \in 0..N : s \in [1..n -> Search!Passages]
  BY DEF Search!Rankings
<1>2. N \in Nat /\ n \in Nat /\ s \in Seq(Search!Passages) /\ Len(s) = n /\ DOMAIN s = 1..n
  BY <1>1, SearchAssumption DEF Search!RetrievalAssumption
<1> DEFINE S == Search!Range(s)
<1>3. Cardinality(S) = n
  BY <1>2, SearchCounts DEF Search!Rankings
<1>4. S \subseteq Search!Passages /\ s \in [1..n -> S] /\ \A p \in S : \E i \in 1..n : s[i] = p
  BY <1>1, <1>2 DEF Search!Range
<1> HIDE DEF S
<1>5. s \in Surjection(1..n, S)
  BY <1>4 DEF Surjection
<1>6. IsFiniteSet(1..n) /\ Cardinality(1..n) = n
  BY <1>2, FS_Interval
<1>7. IsFiniteSet(S)
  BY <1>5, <1>6, FS_Surjection
<1>8. s \in Injection(1..n, S)
  BY <1>3, <1>5, <1>6, FS_Surjection
<1> QED
  BY <1>2, <1>3, <1>4, <1>7, <1>8 DEF S, Ranks, Injection, IsInjective

Matching == {p \in listed : hits[p] > 0}

LEMMA KeywordIs ==
    ASSUME listed \in SUBSET Search!Passages, hits \in [Search!Passages -> 0..Terms]
    PROVE  /\ IsFiniteSet(Matching) /\ Matching \subseteq Search!Passages
           /\ Ranks(Search!Keyword, Matching) /\ Search!Range(Search!Keyword) = Matching
<1> DEFINE R == {r \in Matching \X Matching :
                     \/ hits[r[1]] > hits[r[2]]
                     \/ hits[r[1]] = hits[r[2]] /\ r[1] < r[2]}
<1>0. N \in Nat /\ Terms \in Nat
  BY SearchAssumption DEF Search!RetrievalAssumption
<1>1. IsFiniteSet(Search!Passages) /\ Matching \subseteq Search!Passages
  <2>1. Matching \subseteq Search!Passages
    BY DEF Matching
  <2> QED
    BY <1>0, <2>1, FS_Interval DEF Search!Passages
<1>2. IsFiniteSet(Matching)
  BY <1>1, FS_Subset
<1>3. Search!Keyword = Search!Sorted(Matching, R)
  BY DEF Search!Keyword, Matching
<1>4. \A p \in Matching : p \in Int /\ hits[p] \in Int
  BY <1>0, <1>1 DEF Search!Passages
<1>5. \A p, q \in Matching :
         <<p, q>> \in R <=> hits[p] > hits[q] \/ (hits[p] = hits[q] /\ p < q)
  OBVIOUS
<1> HIDE DEF R
<1>6. IsOrder(R, Matching)
  <2>1. \A p \in Matching : <<p, p>> \notin R
    BY <1>4, <1>5
  <2>2. \A p, q \in Matching : p # q => <<p, q>> \in R \/ <<q, p>> \in R
    BY <1>4, <1>5
  <2>3. \A p, q, s \in Matching : <<p, q>> \in R /\ <<q, s>> \in R => <<p, s>> \in R
    BY <1>4, <1>5
  <2> QED
    BY <2>1, <2>2, <2>3 DEF IsOrder
<1> QED
  BY <1>1, <1>2, <1>3, <1>6, SortedIs, RanksTell

(* What the two routes have found, and what of it is known at the fusion.  *)
Searching ==
    /\ vector \in Search!Rankings
    /\ listed \in SUBSET Search!Passages
    /\ hits \in [Search!Passages -> 0..Terms]

FoundNow == Search!Range(vector) \cup Matching

LEMMA RoutesRank ==
    ASSUME Searching
    PROVE  /\ IsFiniteSet(FoundNow) /\ FoundNow \subseteq Search!Passages
           /\ Ranks(vector, Search!Range(vector)) /\ IsFiniteSet(Search!Range(vector))
           /\ Ranks(Search!Keyword, Matching) /\ IsFiniteSet(Matching)
           /\ Search!Range(Search!Keyword) = Matching
           /\ \A p \in Search!Range(vector) :
                  Search!RankIn(vector, p) \in 1..N /\ vector[Search!RankIn(vector, p)] = p
           /\ \A p \in Matching :
                  /\ Search!RankIn(Search!Keyword, p) \in 1..N
                  /\ Search!Keyword[Search!RankIn(Search!Keyword, p)] = p
<1> DEFINE V == Search!Range(vector)
<1>1. /\ Ranks(vector, V) /\ IsFiniteSet(V) /\ V \subseteq Search!Passages
  BY RankingsRank DEF Searching
<1>2. /\ Ranks(Search!Keyword, Matching) /\ IsFiniteSet(Matching)
      /\ Matching \subseteq Search!Passages /\ Search!Range(Search!Keyword) = Matching
  BY KeywordIs DEF Searching
<1>3. N \in Nat /\ IsFiniteSet(Search!Passages) /\ Cardinality(Search!Passages) = N
  <2>1. N \in Nat
    BY SearchAssumption DEF Search!RetrievalAssumption
  <2> QED
    BY <2>1, FS_Interval DEF Search!Passages
<1> HIDE DEF V
<1>4. /\ Cardinality(V) \in Nat /\ Cardinality(V) <= N
      /\ Cardinality(Matching) \in Nat /\ Cardinality(Matching) <= N
  BY <1>1, <1>2, <1>3, FS_Subset, FS_CardinalityType
<1>5. /\ \A p \in V : Search!RankIn(vector, p) \in 1..Cardinality(V)
                      /\ vector[Search!RankIn(vector, p)] = p
      /\ \A p \in Matching :
             /\ Search!RankIn(Search!Keyword, p) \in 1..Cardinality(Matching)
             /\ Search!Keyword[Search!RankIn(Search!Keyword, p)] = p
  BY <1>1, <1>2, RanksTell
<1>6. IsFiniteSet(FoundNow) /\ FoundNow \subseteq Search!Passages
  BY <1>1, <1>2, <1>3, FS_Subset DEF FoundNow, V
<1>7. \A i \in 1..Cardinality(V) : i \in 1..N
  BY <1>3, <1>4
<1>8. \A i \in 1..Cardinality(Matching) : i \in 1..N
  BY <1>3, <1>4
<1> QED
  BY <1>1, <1>2, <1>5, <1>6, <1>7, <1>8 DEF V

(* Where a passage is met: first those of the semantic route.              *)
Place(p) ==
    IF p \in Search!Range(vector) THEN Search!RankIn(vector, p)
    ELSE N + Search!RankIn(Search!Keyword, p)

Score(p) == Search!FusedScore(p, Search!Keyword)

LEMMA PlacesTell ==
    ASSUME Searching
    PROVE  /\ \A p \in FoundNow : Place(p) \in Nat /\ Score(p) \in Nat
           /\ \A p, q \in FoundNow : Place(p) = Place(q) => p = q
           /\ \A p, q \in FoundNow : Search!Met(Search!Keyword, p, q) <=> Place(p) < Place(q)
<1> DEFINE V == Search!Range(vector)
           v(p) == Search!RankIn(vector, p)
           k(p) == Search!RankIn(Search!Keyword, p)
<1>0. N \in Nat
  BY SearchAssumption DEF Search!RetrievalAssumption
<1>1. /\ \A p \in V : v(p) \in 1..N /\ vector[v(p)] = p
      /\ \A p \in Matching : k(p) \in 1..N /\ Search!Keyword[k(p)] = p
      /\ Search!Range(Search!Keyword) = Matching
  BY RoutesRank
<1>2. ASSUME NEW p \in FoundNow PROVE Place(p) \in Nat
  BY <1>0, <1>1, <1>2 DEF FoundNow, Place
<1>3. ASSUME NEW p \in FoundNow PROVE Score(p) \in Nat
  <2>1. p \in V => Scale \div (60 + v(p)) \in Nat
    BY <1>1, ShareFalls
  <2>2. p \in Matching => Scale \div (60 + k(p)) \in Nat
    BY <1>1, ShareFalls
  <2> QED
    BY <1>1, <2>1, <2>2 DEF Score, Search!FusedScore, Search!Share, Search!K
<1>4. ASSUME NEW p \in FoundNow, NEW q \in FoundNow, Place(p) = Place(q) PROVE p = q
  <2>1. \A x \in FoundNow : IF x \in V THEN Place(x) = v(x) ELSE x \in Matching /\ Place(x) = N + k(x)
    BY DEF FoundNow, Place
  <2> HIDE DEF V, v, k
  <2>2. CASE p \in V /\ q \in V
    BY <1>1, <1>4, <2>1, <2>2
  <2>3. CASE p \notin V /\ q \notin V
    <3>1. k(p) = k(q)
      BY <1>0, <1>1, <1>4, <2>1, <2>3
    <3> QED
      BY <1>1, <2>1, <2>3, <3>1
  <2>4. CASE p \in V /\ q \notin V
    BY <1>0, <1>1, <1>4, <2>1, <2>4
  <2>5. CASE p \notin V /\ q \in V
    BY <1>0, <1>1, <1>4, <2>1, <2>5
  <2> QED
    BY <2>2, <2>3, <2>4, <2>5
<1>5. ASSUME NEW p \in FoundNow, NEW q \in FoundNow
      PROVE  Search!Met(Search!Keyword, p, q) <=> Place(p) < Place(q)
  <2>1. \A x \in FoundNow : IF x \in V THEN Place(x) = v(x) ELSE x \in Matching /\ Place(x) = N + k(x)
    BY DEF FoundNow, Place
  <2>2. Search!Met(Search!Keyword, p, q) <=>
            \/ p \in V /\ (q \in V => v(p) < v(q))
            \/ /\ p \notin V /\ q \notin V
               /\ p \in Matching /\ (q \in Matching => k(p) < k(q))
    BY <1>1 DEF Search!Met, Search!Above
  <2> HIDE DEF V, v, k
  <2>3. CASE p \in V /\ q \in V
    BY <2>1, <2>2, <2>3
  <2>4. CASE p \notin V /\ q \notin V
    <3>1. k(p) \in Int /\ k(q) \in Int /\ p \in Matching /\ q \in Matching
      BY <1>1, <2>1, <2>4
    <3>2. k(p) < k(q) <=> N + k(p) < N + k(q)
      BY <1>0, <3>1
    <3> QED
      BY <2>1, <2>2, <2>4, <3>1, <3>2
  <2>5. CASE p \in V /\ q \notin V
    <3>1. v(p) \in 1..N /\ k(q) \in 1..N
      BY <1>1, <2>1, <2>5
    <3>2. v(p) < N + k(q)
      BY <1>0, <3>1
    <3> QED
      BY <2>1, <2>2, <2>5, <3>2
  <2>6. CASE p \notin V /\ q \in V
    <3>1. v(q) \in 1..N /\ k(p) \in 1..N
      BY <1>1, <2>1, <2>6
    <3>2. ~(N + k(p) < v(q))
      BY <1>0, <3>1
    <3> QED
      BY <2>1, <2>2, <2>6, <3>2
  <2> QED
    BY <2>3, <2>4, <2>5, <2>6
<1> QED
  BY <1>2, <1>3, <1>4, <1>5

(* The fusion, before it is cut.                                           *)
FusedOrder ==
    {r \in FoundNow \X FoundNow :
        \/ Score(r[1]) > Score(r[2])
        \/ Score(r[1]) = Score(r[2]) /\ Search!Met(Search!Keyword, r[1], r[2])}

FusedAll == Search!Sorted(FoundNow, FusedOrder)

Least2(a, b) == IF a < b THEN a ELSE b

LEMMA FusedIs ==
    ASSUME Searching
    PROVE  /\ Ranks(FusedAll, FoundNow)
           /\ \A p, q \in FoundNow :
                  Score(p) > Score(q) => Search!RankIn(FusedAll, p) < Search!RankIn(FusedAll, q)
           /\ Search!Fused = SubSeq(FusedAll, 1, Least2(Cardinality(FoundNow), Top))
<1>1. IsFiniteSet(FoundNow)
  BY RoutesRank
<1>2. \A p, q \in FoundNow :
         <<p, q>> \in FusedOrder <=>
             Score(p) > Score(q) \/ (Score(p) = Score(q) /\ Place(p) < Place(q))
  <2>1. \A p, q \in FoundNow :
           <<p, q>> \in FusedOrder <=>
               \/ Score(p) > Score(q)
               \/ Score(p) = Score(q) /\ Search!Met(Search!Keyword, p, q)
    BY DEF FusedOrder
  <2> QED
    BY <2>1, PlacesTell
<1>3. IsOrder(FusedOrder, FoundNow)
  <2>1. \A p \in FoundNow : Score(p) \in Int /\ Place(p) \in Int
    BY PlacesTell
  <2>2. \A p \in FoundNow : <<p, p>> \notin FusedOrder
    BY <1>2, <2>1
  <2>3. \A p, q \in FoundNow : p # q => <<p, q>> \in FusedOrder \/ <<q, p>> \in FusedOrder
    <3> SUFFICES ASSUME NEW p \in FoundNow, NEW q \in FoundNow, p # q
                 PROVE  <<p, q>> \in FusedOrder \/ <<q, p>> \in FusedOrder
      OBVIOUS
    <3>1. Place(p) # Place(q)
      BY PlacesTell
    <3> QED
      BY <1>2, <2>1, <3>1
  <2>4. \A p, q, s \in FoundNow :
           <<p, q>> \in FusedOrder /\ <<q, s>> \in FusedOrder => <<p, s>> \in FusedOrder
    BY <1>2, <2>1
  <2> QED
    BY <2>2, <2>3, <2>4 DEF IsOrder
<1>4. Ranks(FusedAll, FoundNow)
  BY <1>1, <1>3, SortedIs DEF FusedAll
<1>5. \A p, q \in FoundNow :
         Score(p) > Score(q) => Search!RankIn(FusedAll, p) < Search!RankIn(FusedAll, q)
  <2> SUFFICES ASSUME NEW p \in FoundNow, NEW q \in FoundNow, Score(p) > Score(q)
               PROVE  Search!RankIn(FusedAll, p) < Search!RankIn(FusedAll, q)
    OBVIOUS
  <2>1. <<p, q>> \in FusedOrder
    BY <1>2
  <2> QED
    BY <1>1, <1>3, <2>1, SortedTells DEF FusedAll
<1>6. Search!Fused = SubSeq(FusedAll, 1, Least2(Cardinality(FoundNow), Top))
  <2> DEFINE score == [p \in FoundNow |-> Score(p)]
             all == Search!Sorted(FoundNow,
                        {r \in FoundNow \X FoundNow :
                            \/ score[r[1]] > score[r[2]]
                            \/ /\ score[r[1]] = score[r[2]]
                               /\ Search!Met(Search!Keyword, r[1], r[2])})
  <2>1. Search!Range(vector) \cup Search!Range(Search!Keyword) = FoundNow
    BY RoutesRank DEF FoundNow
  <2>2. Search!Fused = SubSeq(all, 1, IF Len(all) < Top THEN Len(all) ELSE Top)
    BY <2>1 DEF Search!Fused, Score
  <2>3. all = FusedAll
    BY DEF FusedAll, FusedOrder
  <2>4. Len(FusedAll) = Cardinality(FoundNow)
    BY <1>1, <1>4, RanksTell
  <2> HIDE DEF all
  <2> QED
    BY <2>2, <2>3, <2>4 DEF Least2
<1> QED
  BY <1>4, <1>5, <1>6

(* What a fusion leaves as the results.                                    *)
LEMMA ResultsAre ==
    ASSUME Searching, results = Search!Those(Search!Fused, Search!Known)
    PROVE  LET m == Least2(Cardinality(FoundNow), Top)
               kept == {p \in FoundNow : Search!RankIn(FusedAll, p) <= m}
           IN  /\ Search!Range(results) = kept /\ Len(results) = m
               /\ \A p, q \in kept :
                      Search!RankIn(results, p) < Search!RankIn(results, q)
                          <=> Search!RankIn(FusedAll, p) < Search!RankIn(FusedAll, q)
<1> DEFINE m == Least2(Cardinality(FoundNow), Top)
           kept == {p \in FoundNow : Search!RankIn(FusedAll, p) <= m}
<1>1. IsFiniteSet(FoundNow) /\ Cardinality(FoundNow) \in Nat
  BY RoutesRank, FS_CardinalityType
<1>2. m \in 0..Cardinality(FoundNow)
  <2>1. Top \in Nat
    BY SearchAssumption DEF Search!RetrievalAssumption
  <2> QED
    BY <1>1, <2>1 DEF Least2
<1>3. Ranks(FusedAll, FoundNow) /\ Search!Fused = SubSeq(FusedAll, 1, m)
  BY FusedIs
<1> HIDE DEF m
<1>4. /\ Ranks(Search!Fused, kept) /\ IsFiniteSet(kept) /\ Cardinality(kept) = m
      /\ \A p \in kept : Search!RankIn(Search!Fused, p) = Search!RankIn(FusedAll, p)
  <2>1. /\ Ranks(SubSeq(FusedAll, 1, m), kept) /\ IsFiniteSet(kept) /\ Cardinality(kept) = m
        /\ \A p \in kept :
               Search!RankIn(SubSeq(FusedAll, 1, m), p) = Search!RankIn(FusedAll, p)
    <3>1. \A T : T = kept =>
              /\ Ranks(SubSeq(FusedAll, 1, m), T) /\ IsFiniteSet(T) /\ Cardinality(T) = m
              /\ \A p \in T :
                     Search!RankIn(SubSeq(FusedAll, 1, m), p) = Search!RankIn(FusedAll, p)
      BY <1>1, <1>2, <1>3, FrontIs
    <3> QED
      BY <3>1, Zenon
  <2> QED
    BY <1>3, <2>1
<1>5. kept \cap Search!Known = kept
  BY DEF FoundNow, Matching, Search!Known
<1> HIDE DEF kept
<1>6. /\ Search!Range(results) = kept /\ Len(results) = m
      /\ \A p, q \in kept :
             Search!RankIn(results, p) < Search!RankIn(results, q)
                 <=> Search!RankIn(Search!Fused, p) < Search!RankIn(Search!Fused, q)
  BY <1>4, <1>5, ThoseIs
<1> QED
  BY <1>4, <1>6 DEF m, kept

(* What one route gives a passage for standing above another.              *)
LEMMA RouteGives ==
    ASSUME NEW f, NEW V, Search!Range(f) = V, \A p \in V : Search!RankIn(f, p) \in 1..N,
           NEW a, NEW b, b \in V => Search!Above(f, a, b)
    PROVE  /\ Search!Share(f, a) \in Nat /\ Search!Share(f, b) \in Nat
           /\ Search!Share(f, b) <= Search!Share(f, a)
           /\ b \in V => a \in V /\ Search!Share(f, b) < Search!Share(f, a)
<1>1. /\ a \in V => Search!Share(f, a) \in Nat
      /\ b \in V => Search!Share(f, b) \in Nat
  BY ShareFalls DEF Search!Share, Search!K
<1>2. (a \notin V => Search!Share(f, a) = 0) /\ (b \notin V => Search!Share(f, b) = 0)
  BY DEF Search!Share
<1>3. ASSUME b \in V PROVE a \in V /\ Search!Share(f, b) < Search!Share(f, a)
  <2>1. a \in V /\ Search!RankIn(f, a) < Search!RankIn(f, b)
    BY <1>3 DEF Search!Above
  <2>2. Search!RankIn(f, a) \in 1..N /\ Search!RankIn(f, b) \in 1..N
    BY <1>3, <2>1
  <2> QED
    BY <1>3, <2>1, <2>2, ShareFalls DEF Search!Share, Search!K
<1> QED
  BY <1>1, <1>2, <1>3

LEMMA AgreementRaises ==
    ASSUME Searching, NEW a, NEW b \in FoundNow,
           \A ranked \in {vector, Search!Keyword} :
               b \in Search!Range(ranked) => Search!Above(ranked, a, b)
    PROVE  a \in FoundNow /\ Score(a) > Score(b)
<1> DEFINE V == Search!Range(vector)
           va == Search!Share(vector, a)
           vb == Search!Share(vector, b)
           ka == Search!Share(Search!Keyword, a)
           kb == Search!Share(Search!Keyword, b)
<1>1. /\ \A p \in V : Search!RankIn(vector, p) \in 1..N
      /\ \A p \in Matching : Search!RankIn(Search!Keyword, p) \in 1..N
      /\ Search!Range(Search!Keyword) = Matching
  BY RoutesRank
<1>2. va \in Nat /\ vb \in Nat /\ vb <= va /\ (b \in V => a \in V /\ vb < va)
  BY <1>1, RouteGives
<1>3. ka \in Nat /\ kb \in Nat /\ kb <= ka /\ (b \in Matching => a \in Matching /\ kb < ka)
  BY <1>1, RouteGives
<1>4. Score(a) = va + ka /\ Score(b) = vb + kb
  BY DEF Score, Search!FusedScore
<1>5. b \in V \/ b \in Matching
  BY DEF FoundNow
<1>6. a \in V \/ a \in Matching => a \in FoundNow
  BY DEF FoundNow
<1> HIDE DEF V, va, vb, ka, kb
<1> QED
  BY <1>2, <1>3, <1>4, <1>5, <1>6

LEMMA ResultsAgree ==
    ASSUME Searching, results = Search!Those(Search!Fused, Search!Known)
    PROVE  Search!AgreementKept /\ Search!NothingFoundIsLost
<1> DEFINE m == Least2(Cardinality(FoundNow), Top)
           kept == {p \in FoundNow : Search!RankIn(FusedAll, p) <= m}
           at(p) == Search!RankIn(FusedAll, p)
<1>1. /\ Search!Range(results) = kept /\ Len(results) = m
      /\ \A p, q \in kept :
             Search!RankIn(results, p) < Search!RankIn(results, q) <=> at(p) < at(q)
  BY ResultsAre
<1>2. Search!NothingFoundIsLost
  <2>1. Search!Range(vector) \cup Search!Range(Search!Keyword) = FoundNow
    BY RoutesRank DEF FoundNow
  <2> QED
    BY <1>1, <2>1, SearchCounts DEF Search!NothingFoundIsLost, Least2
<1>3. ASSUME NEW a \in Search!Passages, NEW b \in Search!Passages,
             \A ranked \in {vector, Search!Keyword} :
                 b \in Search!Range(ranked) => Search!Above(ranked, a, b)
      PROVE  Search!Above(results, a, b) \/ {a, b} \cap Search!Range(results) = {}
  <2>1. CASE b \notin FoundNow
    BY <1>1, <2>1 DEF Search!Above
  <2>2. CASE b \in FoundNow
    <3>1. a \in FoundNow /\ at(a) < at(b)
      BY <1>3, <2>2, AgreementRaises, FusedIs
    <3>2. at(a) \in Int /\ at(b) \in Int /\ m \in Int
      <4>1. /\ at(a) \in 1..Cardinality(FoundNow) /\ at(b) \in 1..Cardinality(FoundNow)
            /\ Cardinality(FoundNow) \in Nat
        BY <2>2, <3>1, RoutesRank, FusedIs, RanksTell, FS_CardinalityType
      <4>2. Top \in Nat
        BY SearchAssumption DEF Search!RetrievalAssumption
      <4> HIDE DEF at
      <4> QED
        BY <4>1, <4>2 DEF Least2
    <3>3. b \in kept => a \in kept
      <4> HIDE DEF at, m
      <4>1. at(b) <= m => at(a) <= m
        BY <3>1, <3>2
      <4> QED
        BY <3>1, <4>1 DEF at
    <3>4. b \in kept => Search!RankIn(results, a) < Search!RankIn(results, b)
      BY <1>1, <3>1, <3>3
    <3> HIDE DEF kept, at, m
    <3> QED
      BY <1>1, <3>3, <3>4 DEF Search!Above
  <2> QED
    BY <2>1, <2>2
<1> QED
  BY <1>2, <1>3 DEF Search!AgreementKept

(* What a search is worth: what failed is remembered, what the semantic    *)
(* route found is what there was, the results are the fusion of the        *)
(* routes, and the hint follows from the best score.                       *)
SearchInv ==
    /\ world \in [ranking : Search!Rankings, level : Search!Levels]
    /\ (world.ranking = <<>>) = (world.level = "NoScore")
    /\ Searching
    /\ semanticOk \in BOOLEAN
    /\ call \in {"embed", "search"} => semanticOk /\ vector = <<>>
    /\ call \notin {"embed", "search"} /\ semanticOk => vector = world.ranking
    /\ call \in {"classify", "done"} => results = Search!Those(Search!Fused, Search!Known)
    /\ call = "done" => hint = Search!Hint(Search!MaxScore)

LEMMA EmptyRanks == <<>> \in Search!Rankings
<1>1. N \in Nat
  BY SearchAssumption DEF Search!RetrievalAssumption
<1>2. 0 \in 0..N /\ <<>> \in [1..0 -> Search!Passages]
  BY <1>1
<1>3. Search!Range(<<>>) = {} /\ Len(<<>>) = 0
  BY DEF Search!Range
<1>4. Search!Cardinality({}) = 0
  BY FS_EmptySet, SearchCounts
<1> QED
  BY <1>2, <1>3, <1>4 DEF Search!Rankings

LEMMA SearchStarts == Search!Init => SearchInv
<1> SUFFICES ASSUME Search!Init PROVE SearchInv
  OBVIOUS
<1>1. PICK r \in Search!Rankings, l \in Search!Levels :
          (r = <<>>) = (l = "NoScore") /\ Search!Start([ranking |-> r, level |-> l])
  BY DEF Search!Init
<1>2. 0 \in 0..Terms
  BY SearchAssumption DEF Search!RetrievalAssumption
<1> QED
  BY <1>1, <1>2, EmptyRanks DEF Search!Start, SearchInv, Searching

(* The fusion reads what the routes found, and nothing else.               *)
LEMMA FusionReads ==
    ASSUME UNCHANGED <<vector, listed, hits>>
    PROVE  Search!Fused' = Search!Fused /\ Search!Known' = Search!Known
<1>1. Search!Keyword' = Search!Keyword
  BY DEF Search!Keyword
<1>2. \A p : Search!FusedScore(p, Search!Keyword)' = Search!FusedScore(p, Search!Keyword)
  BY <1>1 DEF Search!FusedScore, Search!Share
<1>3. \A p, q : Search!Met(Search!Keyword, p, q)' = Search!Met(Search!Keyword, p, q)
  BY <1>1 DEF Search!Met, Search!Above
<1>4. Search!Fused' = Search!Fused
  <2> DEFINE found == Search!Range(vector) \cup Search!Range(Search!Keyword)
             score == [p \in found |-> Search!FusedScore(p, Search!Keyword)]
             order == {r \in found \X found :
                          \/ score[r[1]] > score[r[2]]
                          \/ score[r[1]] = score[r[2]] /\ Search!Met(Search!Keyword, r[1], r[2])}
             all == Search!Sorted(found, order)
  <2>1. found' = found
    BY <1>1
  <2>2. score' = score
    <3> HIDE DEF found
    <3> QED
      BY <1>2, <2>1
  <2>3. order' = order
    <3> HIDE DEF found, score
    <3> QED
      BY <1>3, <2>1, <2>2
  <2>4. all' = all
    <3> HIDE DEF found, score, order
    <3> QED
      BY <2>1, <2>3
  <2>5. Search!Fused = SubSeq(all, 1, IF Len(all) < Top THEN Len(all) ELSE Top)
    BY DEF Search!Fused
  <2>6. Search!Fused' = SubSeq(all', 1, IF Len(all') < Top THEN Len(all') ELSE Top)
    BY DEF Search!Fused
  <2> HIDE DEF all
  <2> QED
    BY <2>4, <2>5, <2>6
<1> QED
  BY <1>4 DEF Search!Known

LEMMA SearchStep == SearchInv /\ [Search!Next]_searchVars => SearchInv'
<1> SUFFICES ASSUME SearchInv, [Search!Next]_searchVars PROVE SearchInv'
  OBVIOUS
<1> USE DEF SearchInv, Searching
<1>1. CASE Search!Embed
  BY <1>1 DEF Search!Embed
<1>2. CASE Search!SemanticFails
  BY <1>2 DEF Search!SemanticFails
<1>3. CASE Search!SemanticEnds
  BY <1>3 DEF Search!SemanticEnds
<1>4. CASE Search!List
  BY <1>4 DEF Search!List
<1>5. CASE Search!ListFails
  BY <1>5 DEF Search!ListFails
<1>6. CASE Search!Count
  BY <1>6 DEF Search!Count
<1>7. CASE Search!Fuse
  <2>1. results' = Search!Those(Search!Fused', Search!Known')
    BY <1>7, FusionReads DEF Search!Fuse
  <2> QED
    BY <1>7, <2>1 DEF Search!Fuse
<1>8. CASE Search!Classify
  <2>1. results' = Search!Those(Search!Fused', Search!Known')
    BY <1>8, FusionReads DEF Search!Classify
  <2>2. hint' = Search!Hint(Search!MaxScore)'
    BY <1>8 DEF Search!Classify, Search!Hint, Search!MaxScore
  <2> QED
    BY <1>8, <2>1, <2>2 DEF Search!Classify
<1>9. CASE UNCHANGED searchVars
  <2>1. Search!Fused' = Search!Fused /\ Search!Known' = Search!Known
    BY <1>9, FusionReads DEF searchVars
  <2> QED
    BY <1>9, <2>1 DEF searchVars, Search!Hint, Search!MaxScore
<1> QED
  BY <1>1, <1>2, <1>3, <1>4, <1>5, <1>6, <1>7, <1>8, <1>9 DEF Search!Next

LEMMA SearchFairEnough == SearchInv => SearchIsSound
<1> SUFFICES ASSUME SearchInv PROVE SearchIsSound
  OBVIOUS
<1>1. CASE call \notin {"classify", "done"}
  BY <1>1 DEF SearchIsSound, Search!SearchIsSound, Search!FusionIsFair, Search!AgreementKept,
              Search!NothingFoundIsLost, Search!HintIsHonest
<1>2. CASE call \in {"classify", "done"}
  <2>1. Search!AgreementKept /\ Search!NothingFoundIsLost
    BY <1>2, ResultsAgree DEF SearchInv
  <2>2. Search!HintIsHonest
    BY <1>2 DEF SearchInv, Search!HintIsHonest, Search!Hint, Search!MaxScore, Search!Levels
  <2> QED
    BY <2>1, <2>2 DEF SearchIsSound, Search!SearchIsSound, Search!FusionIsFair
<1> QED
  BY <1>1, <1>2

(* A search of any number of passages and any number of results returns    *)
(* what its routes agree on and as much as was found, and says "no         *)
(* evidence" only of a bid without any (src/app/ai/rag/retriever.py).      *)
THEOREM SearchIsSoundHolds == Search!Spec => []SearchIsSound
<1>1. Search!Init => SearchInv
  BY SearchStarts
<1>2. SearchInv /\ [Search!Next]_Search!vars => SearchInv'
  BY SearchStep DEF Search!vars, searchVars
<1>3. SearchInv => SearchIsSound
  BY SearchFairEnough
<1> QED
  BY <1>1, <1>2, <1>3, PTL DEF Search!Spec

-----------------------------------------------------------------------------
(* The graph and its outbox. *)
USE GraphAssumption, BoundsAssumption

-----------------------------------------------------------------------------
(* The inductive invariant *)

(* The graph has shown what event e is about. *)
Shown(e) ==
    /\ graph[Node(about[e])] # 0
    /\ newest[Node(about[e])] >= version[e]

(* An event is about the row that was committed with it. *)
EventInv ==
    \A e \in Events :
        /\ status[e] = "NONE" <=> about[e] = NoAggregate
        /\ status[e] # "NONE" => version[e] \in 1..row[about[e]]
        /\ status[e] = "PROCESSED" /\ about[e] \in Rebuilt => Shown(e)

(* A request writes a version that exists, and has a statement to go. *)
RequestInv ==
    \A r \in Requests :
        req[r].pc # "idle" =>
            /\ req[r].agg \in Aggregates /\ row[req[r].agg] # 0
            /\ req[r].at < Len(Statements[req[r].agg])
            /\ req[r].pc = "sync" => req[r].seen # 0

(* A job's claims wait; its snapshot is younger than they are; what it did *)
(* is shown, and so is the event it is in the middle of.                   *)
BatchInv(w) ==
    /\ batch[w].on = "none" => batch[w] = NoBatch
    /\ \A e \in Claimed(w) : status[e] \in {"PENDING", "FAILED"}
    /\ batch[w].seen # NoView =>
            \A e \in Claimed(w) : version[e] <= batch[w].seen[about[e]]
    /\ \A e \in batch[w].done : about[e] \in Rebuilt => Shown(e)
    /\ \A e \in Events : Turn(w, e) /\ batch[w].at # 0 =>
            /\ about[e] \in Rebuilt
            /\ batch[w].at < Len(Statements[about[e]])
            /\ Shown(e)

(* No two jobs have claimed the same event. *)
Locks ==
    \A w, u \in Batches : w # u => Claimed(w) \cap Claimed(u) = {}

Inv ==
    /\ TypeOK /\ EventInv /\ RequestInv /\ Locks
    /\ \A w \in Batches : BatchInv(w)

-----------------------------------------------------------------------------
(* What stays true when the graph is written and rows are added *)

Grows ==
    \A x \in Elements : /\ graph[x] # 0 => graph'[x] # 0
                        /\ newest'[x] >= newest[x]

Remembers ==
    \A e \in Events : status[e] # "NONE" => about'[e] = about[e] /\ version'[e] = version[e]

LEMMA NodeIsElement ==
    \A a \in Aggregates : Node(a) \in Elements /\ 1 \in DOMAIN Statements[a]
                            /\ Len(Statements[a]) \in Nat \ {0}
BY DEF Node

(* The frame of every action for the events that exist. *)
LEMMA ShownGrows ==
    ASSUME TypeOK, newest' \in [Elements -> Versions], EventInv, Grows, Remembers,
           NEW e \in Events, status[e] # "NONE", Shown(e)
    PROVE  Shown(e)'
<1>1. about[e] \in Aggregates
  BY DEF EventInv, TypeOK
<1>2. Node(about[e]) \in Elements
  BY <1>1, NodeIsElement
<1>3. about'[e] = about[e] /\ version'[e] = version[e]
  BY DEF Remembers
<1>4. graph'[Node(about[e])] # 0 /\ newest'[Node(about[e])] >= newest[Node(about[e])]
  BY <1>2, Zenon DEF Grows, Shown
<1>5. /\ newest'[Node(about[e])] \in Nat /\ newest[Node(about[e])] \in Nat
      /\ version[e] \in Nat
  BY <1>2 DEF TypeOK, Versions
<1>6. newest'[Node(about[e])] >= version'[e]
  BY <1>3, <1>4, <1>5 DEF Shown
<1> QED
  BY <1>3, <1>4, <1>6 DEF Shown, Node

LEMMA ShownStays ==
    ASSUME TypeOK, TypeOK', EventInv, Grows, Remembers,
           NEW e \in Events, status[e] # "NONE", Shown(e)
    PROVE  Shown(e)'
BY ShownGrows DEF TypeOK

(* A job that does nothing is not disturbed by what the others do. *)
LEMMA BatchStays ==
    ASSUME TypeOK, TypeOK', EventInv, Grows, Remembers, NEW w \in Batches, BatchInv(w),
           batch'[w] = batch[w], \A e \in Claimed(w) : status'[e] = status[e]
    PROVE  BatchInv(w)' /\ Claimed(w)' = Claimed(w)
<1>1. Claimed(w)' = Claimed(w) /\ Claimed(w) \subseteq Events /\ batch[w].todo \subseteq Claimed(w)
         /\ batch[w].done \subseteq Claimed(w)
  BY DEF Claimed, TypeOK, BatchType
<1>2. \A e \in Claimed(w) : /\ e \in Events /\ status[e] # "NONE"
                            /\ about'[e] = about[e] /\ version'[e] = version[e]
                            /\ Shown(e) => Shown(e)'
  BY <1>1, ShownStays DEF BatchInv, Remembers
<1>3. \A e \in Events : Turn(w, e)' <=> Turn(w, e)
  BY DEF Turn
<1>4. \A e \in Events : Turn(w, e) => e \in Claimed(w)
  BY <1>1 DEF Turn
<1>5. (batch[w].on = "none" => batch[w] = NoBatch)'
  BY DEF BatchInv
<1>6. (\A e \in Claimed(w) : status[e] \in {"PENDING", "FAILED"})'
  BY <1>1 DEF BatchInv
<1>7. (batch[w].seen # NoView => \A e \in Claimed(w) : version[e] <= batch[w].seen[about[e]])'
  BY <1>1, <1>2 DEF BatchInv
<1>8. (\A e \in batch[w].done : about[e] \in Rebuilt => Shown(e))'
  BY <1>1, <1>2 DEF BatchInv
<1>9. (\A e \in Events : Turn(w, e) /\ batch[w].at # 0 =>
            /\ about[e] \in Rebuilt
            /\ batch[w].at < Len(Statements[about[e]])
            /\ Shown(e))'
  BY <1>1, <1>2, <1>3, <1>4 DEF BatchInv
<1> QED
  BY <1>1, <1>5, <1>6, <1>7, <1>8, <1>9 DEF BatchInv

(* What a statement does to the graph. *)
LEMMA Merged ==
    ASSUME TypeOK, NEW x \in Elements, NEW v \in Versions, v # 0, Merge(x, v)
    PROVE  /\ graph' \in [Elements -> Versions] /\ newest' \in [Elements -> Versions]
           /\ Grows
           /\ Needs[x] = {} => graph'[x] # 0 /\ newest'[x] >= v
           /\ \A y \in Elements : graph'[y] = graph[y] \/ (y = x /\ graph'[y] # 0)
<1>1. /\ graph \in [Elements -> Versions] /\ newest \in [Elements -> Versions]
      /\ \A y \in Elements : newest[y] \in Nat
  BY DEF TypeOK, Versions
<1>2. CASE \E n \in Needs[x] : graph[n] = 0
  BY <1>1, <1>2 DEF Merge, Grows
<1>3. CASE ~ \E n \in Needs[x] : graph[n] = 0
  <2>1. /\ graph' = [graph EXCEPT ![x] = v]
        /\ newest' = [newest EXCEPT ![x] = IF v > @ THEN v ELSE @]
    BY <1>3 DEF Merge
  <2>2. v \in Nat
    BY DEF Versions
  <2> QED
    BY <1>1, <2>1, <2>2 DEF Grows
<1> QED
  BY <1>2, <1>3

(* A step that leaves events, rows and the graph alone. *)
LEMMA Frame ==
    ASSUME TypeOK, UNCHANGED <<row, status, about, graph, version, newest>>
    PROVE  Grows /\ Remembers /\ (EventInv => EventInv')
<1>1. Grows
  BY DEF Grows, TypeOK, Versions
<1>2. Remembers
  BY DEF Remembers
<1>3. EventInv => EventInv'
  BY DEF EventInv, Shown
<1> QED
  BY <1>1, <1>2, <1>3

(* A step that only writes the graph. *)
LEMMA EventsStay ==
    ASSUME TypeOK, TypeOK', EventInv, Grows, UNCHANGED <<row, status, about, version>>
    PROVE  Remembers /\ EventInv'
<1>1. Remembers
  BY DEF Remembers
<1>2. \A e \in Events : status[e] = "PROCESSED" /\ Shown(e) => Shown(e)'
  BY <1>1, ShownStays
<1> QED
  BY <1>1, <1>2 DEF EventInv

-----------------------------------------------------------------------------
(* Types *)

THEOREM InitInv == Init => Inv
<1> SUFFICES ASSUME Init PROVE Inv
  OBVIOUS
<1>1. TypeOK
  BY DEF Init, TypeOK, Versions, Events, EventStatus, Idle, RequestType, NoBatch, BatchType
<1>2. EventInv
  BY DEF Init, EventInv
<1>3. RequestInv
  BY DEF Init, RequestInv, Idle
<1>4. \A w \in Batches : BatchInv(w) /\ Claimed(w) = {}
  BY DEF Init, BatchInv, Claimed, NoBatch, Turn
<1>5. Locks
  BY <1>4 DEF Locks
<1> QED
  BY <1>1, <1>2, <1>3, <1>4, <1>5 DEF Inv

-----------------------------------------------------------------------------
(* Requests *)

LEMMA RequestStep ==
    ASSUME TypeOK, RequestInv, NEW r \in Requests, NEW q \in RequestType,
           req' = [req EXCEPT ![r] = q],
           \A a \in Aggregates : row[a] # 0 => row'[a] # 0,
           q.pc # "idle" => /\ q.agg \in Aggregates /\ row'[q.agg] # 0
                            /\ q.at < Len(Statements[q.agg])
                            /\ q.pc = "sync" => q.seen # 0
    PROVE  RequestInv' /\ req' \in [Requests -> RequestType]
<1>1. \A t \in Requests : req'[t] = IF t = r THEN q ELSE req[t]
  BY DEF TypeOK
<1>2. req' \in [Requests -> RequestType]
  BY DEF TypeOK
<1>3. \A t \in Requests :
          req'[t].pc # "idle" =>
            /\ req'[t].agg \in Aggregates /\ row'[req'[t].agg] # 0
            /\ req'[t].at < Len(Statements[req'[t].agg])
            /\ req'[t].pc = "sync" => req'[t].seen # 0
  BY <1>1 DEF RequestInv
<1> QED
  BY <1>2, <1>3 DEF RequestInv

LEMMA Published ==
    ASSUME TypeOK, EventInv, NEW a \in Aggregates,
           row' \in [Aggregates -> Versions], row'[a] # 0,
           \A b \in Aggregates : row'[b] >= row[b],
           Publish(a), UNCHANGED <<graph, newest>>
    PROVE  /\ status' \in [Events -> EventStatus]
           /\ about' \in [Events -> Aggregates \cup {NoAggregate}]
           /\ version' \in [Events -> Versions]
           /\ Grows /\ Remembers /\ EventInv'
           /\ \A e \in Events : status[e] # "NONE" => status'[e] = status[e]
<1>1. PICK e \in Events :
        /\ status[e] = "NONE"
        /\ status' = [status EXCEPT ![e] = "PENDING"]
        /\ about' = [about EXCEPT ![e] = a]
        /\ version' = [version EXCEPT ![e] = row'[a]]
  BY DEF Publish
<1>2. row'[a] \in Versions
  OBVIOUS
<1>3. /\ status' \in [Events -> EventStatus]
      /\ about' \in [Events -> Aggregates \cup {NoAggregate}]
      /\ version' \in [Events -> Versions]
  BY <1>1, <1>2 DEF TypeOK, EventStatus
<1>4. /\ status'[e] = "PENDING" /\ about'[e] = a /\ version'[e] = row'[a]
      /\ \A f \in Events \ {e} :
            status'[f] = status[f] /\ about'[f] = about[f] /\ version'[f] = version[f]
  BY <1>1 DEF TypeOK
<1>5. Grows
  BY DEF Grows, TypeOK, Versions
<1>6. Remembers
  BY <1>1, <1>4 DEF Remembers
<1>7. \A f \in Events \ {e} : Shown(f) => Shown(f)'
  BY <1>4 DEF Shown
<1>8. row'[a] \in 1..row'[a]
  BY <1>2 DEF Versions
<1>9. \A f \in Events \ {e} : status[f] # "NONE" => version'[f] \in 1..row'[about'[f]]
  <2> TAKE f \in Events \ {e}
  <2> HAVE status[f] # "NONE"
  <2>1. about[f] \in Aggregates /\ version[f] \in 1..row[about[f]]
    BY DEF EventInv, TypeOK
  <2>2. row[about[f]] \in Int /\ row'[about[f]] \in Int /\ row'[about[f]] >= row[about[f]]
    BY <2>1 DEF TypeOK, Versions
  <2> QED
    BY <1>4, <2>1, <2>2
<1>10. EventInv'
  <2>1. \A f \in Events : status'[f] = "NONE" <=> about'[f] = NoAggregate
    BY <1>4 DEF EventInv
  <2>2. \A f \in Events : status'[f] # "NONE" => version'[f] \in 1..row'[about'[f]]
    BY <1>4, <1>8, <1>9
  <2>3. \A f \in Events : status'[f] = "PROCESSED" /\ about'[f] \in Rebuilt => Shown(f)'
    BY <1>4, <1>7 DEF EventInv
  <2> QED
    BY <2>1, <2>2, <2>3 DEF EventInv
<1> QED
  BY <1>1, <1>3, <1>4, <1>5, <1>6, <1>10

(* A step that touches no job. *)
LEMMA JobsStay ==
    ASSUME Inv, TypeOK', EventInv', RequestInv', Grows, Remembers, batch' = batch,
           \A e \in Events : status[e] # "NONE" => status'[e] = status[e]
    PROVE  Inv'
<1>1. \A w \in Batches : \A e \in Claimed(w) : e \in Events /\ status[e] # "NONE"
  BY DEF Inv, TypeOK, BatchInv, Claimed, BatchType
<1>2. /\ \A u \in Batches : batch'[u] = batch[u]
      /\ \A u \in Batches : \A e \in Claimed(u) : status'[e] = status[e]
  BY <1>1
<1>3. \A u \in Batches : BatchInv(u)' /\ Claimed(u)' = Claimed(u)
  BY <1>2, BatchStays DEF Inv
<1> QED
  BY <1>3 DEF Inv, Locks

LEMMA CreateInv ==
    ASSUME Inv, NEW r \in Requests, NEW a \in Aggregates, Create(r, a)
    PROVE  Inv'
<1> DEFINE q == [pc |-> "sync", agg |-> a, seen |-> 1, at |-> 0]
<1>1. TypeOK /\ EventInv /\ RequestInv
  BY DEF Inv
<1>2. 1 \in Versions
  BY DEF Versions
<1>3. /\ row' \in [Aggregates -> Versions] /\ row'[a] # 0
      /\ \A b \in Aggregates : row'[b] >= row[b]
  BY <1>1, <1>2 DEF Create, TypeOK, Versions
<1>4. /\ status' \in [Events -> EventStatus]
      /\ about' \in [Events -> Aggregates \cup {NoAggregate}]
      /\ version' \in [Events -> Versions]
      /\ Grows /\ Remembers /\ EventInv'
      /\ \A e \in Events : status[e] # "NONE" => status'[e] = status[e]
  BY <1>1, <1>3, Published DEF Create
<1>5. q \in RequestType
  BY <1>2 DEF RequestType
<1>6. \A b \in Aggregates : row[b] # 0 => row'[b] # 0
  BY <1>1, <1>3 DEF TypeOK, Versions
<1>7. q.at < Len(Statements[q.agg]) /\ q.agg \in Aggregates /\ q.seen # 0 /\ row'[q.agg] # 0
  BY <1>3, NodeIsElement
<1>8. RequestInv' /\ req' \in [Requests -> RequestType]
  <2>1. req' = [req EXCEPT ![r] = q]
    BY DEF Create
  <2> HIDE DEF q
  <2> QED
    BY <1>1, <1>5, <1>6, <1>7, <2>1, RequestStep
<1>9. TypeOK'
  BY <1>1, <1>3, <1>4, <1>8 DEF Create, TypeOK
<1> QED
  BY <1>4, <1>8, <1>9, JobsStay DEF Create

LEMMA ChangeInv ==
    ASSUME Inv, NEW r \in Requests, NEW a \in Aggregates, Change(r, a)
    PROVE  Inv'
<1> DEFINE q == [pc |-> "refresh", agg |-> a, seen |-> 0, at |-> 0]
<1>1. TypeOK /\ EventInv /\ RequestInv
  BY DEF Inv
<1>2. row[a] + 1 \in Versions /\ row[a] \in Nat
  BY DEF Change, Versions
<1>3. /\ row' \in [Aggregates -> Versions] /\ row'[a] # 0
      /\ \A b \in Aggregates : row'[b] >= row[b]
  BY <1>1, <1>2 DEF Change, TypeOK, Versions
<1>4. /\ status' \in [Events -> EventStatus]
      /\ about' \in [Events -> Aggregates \cup {NoAggregate}]
      /\ version' \in [Events -> Versions]
      /\ Grows /\ Remembers /\ EventInv'
      /\ \A e \in Events : status[e] # "NONE" => status'[e] = status[e]
  <2>1. CASE Publish(a)
    BY <1>1, <1>3, <2>1, Published DEF Change
  <2>2. CASE UNCHANGED <<status, about, version>>
    <3>1. UNCHANGED <<graph, newest>>
      BY DEF Change
    <3>2. Grows /\ Remembers
      BY <1>1, <2>2, <3>1 DEF Grows, Remembers, TypeOK, Versions
    <3>3. \A e \in Events : status[e] # "NONE" => version[e] \in 1..row'[about[e]]
      <4> TAKE e \in Events
      <4> HAVE status[e] # "NONE"
      <4>1. about[e] \in Aggregates /\ version[e] \in 1..row[about[e]]
        BY <1>1 DEF EventInv, TypeOK
      <4>2. row[about[e]] \in Int /\ row'[about[e]] \in Int /\ row'[about[e]] >= row[about[e]]
        BY <1>1, <1>3, <4>1 DEF TypeOK, Versions
      <4> QED
        BY <4>1, <4>2
    <3>4. EventInv'
      BY <1>1, <2>2, <3>1, <3>3 DEF EventInv, Shown
    <3> QED
      BY <1>1, <2>2, <3>2, <3>4 DEF TypeOK
  <2> QED
    BY <2>1, <2>2 DEF Change
<1>5. q \in RequestType
  BY DEF RequestType, Versions
<1>6. \A b \in Aggregates : row[b] # 0 => row'[b] # 0
  BY <1>1, <1>3 DEF TypeOK, Versions
<1>7. q.at < Len(Statements[q.agg]) /\ q.agg \in Aggregates /\ q.pc # "sync" /\ row'[q.agg] # 0
  BY <1>3, NodeIsElement
<1>8. RequestInv' /\ req' \in [Requests -> RequestType]
  <2>1. req' = [req EXCEPT ![r] = q]
    BY DEF Change
  <2> HIDE DEF q
  <2> QED
    BY <1>1, <1>5, <1>6, <1>7, <2>1, RequestStep
<1>9. TypeOK'
  BY <1>1, <1>3, <1>4, <1>8 DEF Change, TypeOK
<1> QED
  BY <1>4, <1>8, <1>9, JobsStay DEF Change

LEMMA RefreshInv ==
    ASSUME Inv, NEW r \in Requests, Refresh(r)
    PROVE  Inv'
<1> DEFINE q == [req[r] EXCEPT !.pc = "sync", !.seen = row[req[r].agg]]
<1>1. TypeOK /\ EventInv /\ RequestInv
  BY DEF Inv
<1>2. /\ req[r] \in RequestType /\ req[r].pc = "refresh"
      /\ req[r].agg \in Aggregates /\ row[req[r].agg] # 0 /\ row[req[r].agg] \in Versions
      /\ req[r].at < Len(Statements[req[r].agg])
  BY <1>1 DEF Refresh, RequestInv, TypeOK
<1>3. q = [[req[r] EXCEPT !.pc = "sync"] EXCEPT !.seen = row[req[r].agg]]
  BY <1>2 DEF RequestType
<1>4. /\ q \in RequestType /\ q.pc = "sync" /\ q.agg = req[r].agg /\ q.at = req[r].at
      /\ q.seen = row[req[r].agg]
  BY <1>2, <1>3 DEF RequestType
<1>5. req' = [req EXCEPT ![r] = q] /\ row' = row
  BY <1>1 DEF Refresh, TypeOK
<1>6. RequestInv' /\ req' \in [Requests -> RequestType]
  <2> HIDE DEF q
  <2> QED
    BY <1>1, <1>2, <1>4, <1>5, RequestStep
<1>7. TypeOK'
  BY <1>1, <1>6 DEF Refresh, TypeOK
<1> QED
  BY <1>1, <1>6, <1>7, Frame, JobsStay DEF Refresh

LEMMA RequestEndsInv ==
    ASSUME Inv, NEW r \in Requests, RequestEnds(r)
    PROVE  Inv'
<1>1. TypeOK /\ EventInv /\ RequestInv
  BY DEF Inv
<1>2. Idle \in RequestType /\ Idle.pc = "idle"
  BY DEF Idle, RequestType, Versions
<1>3. RequestInv' /\ req' \in [Requests -> RequestType]
  BY <1>1, <1>2, RequestStep DEF RequestEnds
<1>4. TypeOK'
  BY <1>1, <1>3 DEF RequestEnds, TypeOK
<1> QED
  BY <1>1, <1>3, <1>4, Frame, JobsStay DEF RequestEnds

LEMMA Advanced ==
    ASSUME TypeOK, RequestInv, NEW r \in Requests, req[r].pc = "sync", Advance(r), row' = row
    PROVE  /\ RequestInv' /\ req' \in [Requests -> RequestType]
           /\ Statements[req[r].agg][req[r].at + 1] \in Elements
           /\ req[r].seen \in Versions /\ req[r].seen # 0
<1> DEFINE next == req[r].at + 1
           moved == [req[r] EXCEPT !.at = next]
           q == IF next = Len(Statements[req[r].agg]) THEN Idle ELSE moved
<1>1. /\ req[r] \in RequestType
      /\ req[r].agg \in Aggregates /\ row[req[r].agg] # 0
      /\ req[r].at \in Nat /\ req[r].at < Len(Statements[req[r].agg])
      /\ req[r].seen \in Versions /\ req[r].seen # 0
  BY DEF RequestInv, TypeOK, RequestType
<1>2. /\ Statements[req[r].agg][next] \in Elements /\ next \in Nat
      /\ Len(Statements[req[r].agg]) \in Nat
  BY <1>1
<1>3. Idle \in RequestType /\ Idle.pc = "idle"
  BY DEF Idle, RequestType, Versions
<1>4. /\ moved \in RequestType /\ moved.pc = "sync" /\ moved.agg = req[r].agg
      /\ moved.at = next /\ moved.seen = req[r].seen
  BY <1>1, <1>2 DEF RequestType
<1>5. req' = [req EXCEPT ![r] = q]
  BY DEF Advance, TypeOK
<1> HIDE DEF moved
<1>6. q \in RequestType /\ (q.pc # "idle" => q = moved)
  BY <1>3, <1>4
<1>7. q.pc # "idle" => next < Len(Statements[req[r].agg])
  BY <1>1, <1>2, <1>3
<1> HIDE DEF q, next
<1>8. RequestInv' /\ req' \in [Requests -> RequestType]
  BY <1>1, <1>4, <1>5, <1>6, <1>7, RequestStep
<1> QED
  BY <1>1, <1>2, <1>8 DEF next

LEMMA DirectMergeInv ==
    ASSUME Inv, NEW r \in Requests, DirectMerge(r)
    PROVE  Inv'
<1> DEFINE x == Statements[req[r].agg][req[r].at + 1]
           v == req[r].seen
<1>1. TypeOK /\ EventInv /\ RequestInv
  BY DEF Inv
<1>2. /\ RequestInv' /\ req' \in [Requests -> RequestType]
      /\ x \in Elements /\ v \in Versions /\ v # 0
  BY <1>1, Advanced DEF DirectMerge
<1>3. Merge(x, v)
  BY DEF DirectMerge
<1>4. /\ graph' \in [Elements -> Versions] /\ newest' \in [Elements -> Versions]
      /\ Grows
  <2> HIDE DEF x, v
  <2> QED
    BY <1>1, <1>2, <1>3, Merged
<1>5. TypeOK'
  BY <1>1, <1>2, <1>4 DEF DirectMerge, TypeOK
<1>6. Remembers /\ EventInv'
  BY <1>1, <1>4, <1>5, EventsStay DEF DirectMerge
<1> QED
  BY <1>2, <1>4, <1>5, <1>6, JobsStay DEF DirectMerge

LEMMA StatementFailsInv ==
    ASSUME Inv, NEW r \in Requests, StatementFails(r)
    PROVE  Inv'
<1>1. TypeOK /\ EventInv /\ RequestInv
  BY DEF Inv
<1>2. RequestInv' /\ req' \in [Requests -> RequestType]
  BY <1>1, Advanced DEF StatementFails
<1>3. TypeOK'
  BY <1>1, <1>2 DEF StatementFails, TypeOK
<1> QED
  BY <1>1, <1>2, <1>3, Frame, JobsStay DEF StatementFails

LEMMA Neo4jInv ==
    ASSUME Inv, Neo4j
    PROVE  Inv'
<1>1. TypeOK' /\ RequestInv'
  BY DEF Inv, Neo4j, TypeOK, RequestInv
<1> QED
  BY <1>1, Frame, JobsStay DEF Neo4j, Inv

-----------------------------------------------------------------------------
(* Jobs *)

(* What a step of job w has to show: the others are not disturbed. *)
LEMMA JobStep ==
    ASSUME Inv, NEW w \in Batches, NEW b \in BatchType, batch' = [batch EXCEPT ![w] = b],
           UNCHANGED <<row, about, up, req, version>>,
           status' \in [Events -> EventStatus],
           graph' \in [Elements -> Versions], newest' \in [Elements -> Versions],
           Grows, EventInv', BatchInv(w)',
           \A u \in Batches \ {w} : /\ \A e \in Claimed(u) : status'[e] = status[e]
                                    /\ Claimed(w)' \cap Claimed(u) = {}
    PROVE  Inv'
<1>1. TypeOK'
  BY DEF Inv, TypeOK
<1>2. Remembers
  BY DEF Remembers
<1>3. \A u \in Batches \ {w} : batch'[u] = batch[u]
  BY DEF Inv, TypeOK
<1>4. \A u \in Batches \ {w} : BatchInv(u)' /\ Claimed(u)' = Claimed(u)
  BY <1>1, <1>2, <1>3, BatchStays DEF Inv
<1>5. Locks'
  BY <1>4 DEF Inv, Locks
<1>6. RequestInv'
  BY DEF Inv, RequestInv
<1> QED
  BY <1>1, <1>4, <1>5, <1>6 DEF Inv

(* The smallest of the claims is one only. *)
LEMMA OneTurn ==
    ASSUME TypeOK, NEW w \in Batches, NEW e, NEW f, Turn(w, e), Turn(w, f)
    PROVE  e = f /\ e \in Events /\ e \in Claimed(w)
<1>1. e \in Events /\ f \in Events /\ e <= f /\ f <= e /\ e \in Claimed(w)
  BY DEF Turn, TypeOK, BatchType, Claimed
<1> QED
  BY <1>1 DEF Events

LEMMA ClaimInv ==
    ASSUME Inv, NEW w \in Batches, NEW s \in {"PENDING", "FAILED"}, Claim(w, s)
    PROVE  Inv'
<1> DEFINE S == FirstOf(Unlocked(s))
           b == [[NoBatch EXCEPT !.on = s] EXCEPT !.todo = S]
<1>1. TypeOK /\ EventInv /\ batch[w] = NoBatch
  BY DEF Inv, BatchInv, Claim
<1>2. S \subseteq Unlocked(s) /\ S \subseteq Events
  BY DEF FirstOf, Unlocked
<1>3. batch' = [batch EXCEPT ![w] = b]
  BY <1>1 DEF Claim, TypeOK
<1>4. /\ b \in BatchType /\ b.on = s /\ b.todo = S /\ b.done = {} /\ b.failed = {}
      /\ b.seen = NoView /\ b.at = 0
  BY <1>2 DEF NoBatch, BatchType
<1>5. batch'[w] = b
  BY <1>1, <1>3 DEF TypeOK
<1> HIDE DEF b
<1>6. Claimed(w)' = S
  BY <1>4, <1>5 DEF Claimed
<1>7. status' = status
  BY DEF Claim
<1>8. BatchInv(w)'
  <2>1. \A e \in S : status'[e] \in {"PENDING", "FAILED"}
    BY <1>2, <1>7 DEF Unlocked
  <2> QED
    BY <1>4, <1>5, <1>6, <2>1 DEF BatchInv
<1>9. \A u \in Batches : S \cap Claimed(u) = {}
  BY <1>2 DEF Unlocked
<1>10. Grows /\ EventInv'
  BY <1>1, <1>7, Frame DEF Claim
<1>11. UNCHANGED <<row, about, up, req, version, graph, newest>>
  BY DEF Claim
<1> HIDE DEF S
<1> QED
  BY <1>1, <1>3, <1>4, <1>6, <1>7, <1>8, <1>9, <1>10, <1>11, JobStep DEF TypeOK

LEMMA ReadInv ==
    ASSUME Inv, NEW w \in Batches, Read(w)
    PROVE  Inv'
<1> DEFINE b == [batch[w] EXCEPT !.seen = row]
<1>1. TypeOK /\ EventInv /\ BatchInv(w) /\ batch[w] \in BatchType /\ row \in [Aggregates -> Versions]
  BY DEF Inv, TypeOK
<1>2. /\ b \in BatchType /\ b.on = batch[w].on /\ b.todo = batch[w].todo
      /\ b.done = batch[w].done /\ b.failed = batch[w].failed
      /\ b.seen = row /\ b.at = batch[w].at
  BY <1>1 DEF BatchType
<1>3. batch' = [batch EXCEPT ![w] = b] /\ batch'[w] = b
  BY <1>1 DEF Read, TypeOK
<1> HIDE DEF b
<1>4. UNCHANGED <<row, status, about, graph, up, req, version, newest>>
  BY DEF Read
<1>5. Claimed(w)' = Claimed(w) /\ \A e \in Events : Turn(w, e)' <=> Turn(w, e)
  BY <1>2, <1>3 DEF Claimed, Turn
<1>6. BatchInv(w)'
  <2>1. batch[w].on # "none"
    BY <1>1 DEF Read, BatchInv, NoBatch
  <2>2. \A e \in Claimed(w) : version[e] <= row[about[e]]
    <3> TAKE e \in Claimed(w)
    <3>1. e \in Events /\ status[e] # "NONE"
      BY <1>1 DEF Claimed, BatchType, BatchInv
    <3>2. about[e] \in Aggregates /\ version[e] \in 1..row[about[e]]
      BY <1>1, <3>1 DEF EventInv, TypeOK
    <3> QED
      BY <3>2
  <2>3. \A e : Shown(e)' <=> Shown(e)
    BY <1>4 DEF Shown
  <2> QED
    BY <1>1, <1>2, <1>3, <1>4, <1>5, <2>1, <2>2, <2>3 DEF BatchInv
<1>7. Grows /\ EventInv'
  BY <1>1, <1>4, Frame
<1>8. \A u \in Batches \ {w} : Claimed(w)' \cap Claimed(u) = {}
  BY <1>5 DEF Inv, Locks
<1> QED
  BY <1>1, <1>2, <1>3, <1>4, <1>6, <1>7, <1>8, JobStep DEF TypeOK

(* The job goes on to the next event, e being shown if it counts as done. *)
LEMMA TurnEnds ==
    ASSUME Inv, NEW w \in Batches, NEW e \in Events, Turn(w, e), NEW b \in BatchType,
           batch' = [batch EXCEPT ![w] = b],
           b.on = batch[w].on, b.todo = batch[w].todo \ {e}, b.seen = batch[w].seen, b.at = 0,
           \/ /\ b.done = batch[w].done \cup {e} /\ b.failed = batch[w].failed
              /\ about[e] \in Rebuilt => Shown(e)'
           \/ b.done = batch[w].done /\ b.failed = batch[w].failed \cup {e},
           UNCHANGED <<row, status, about, up, req, version>>,
           graph' \in [Elements -> Versions], newest' \in [Elements -> Versions], Grows
    PROVE  Inv'
<1>1. TypeOK /\ EventInv /\ BatchInv(w) /\ batch[w] \in BatchType
  BY DEF Inv, TypeOK
<1>2. batch'[w] = b
  BY <1>1 DEF TypeOK
<1>3. TypeOK'
  BY <1>1 DEF TypeOK
<1>4. Remembers /\ EventInv'
  BY <1>1, <1>3, EventsStay
<1>5. e \in batch[w].todo
  BY DEF Turn
<1>6. Claimed(w)' = Claimed(w)
  BY <1>2, <1>5 DEF Claimed
<1>7. BatchInv(w)'
  <2>1. b.on # "none"
    BY <1>1, <1>5 DEF BatchInv, NoBatch
  <2>2. \A f \in batch[w].done : about[f] \in Rebuilt => Shown(f)'
    <3> TAKE f \in batch[w].done
    <3> HAVE about[f] \in Rebuilt
    <3>1. f \in Events /\ status[f] # "NONE" /\ Shown(f)
      BY <1>1 DEF BatchType, BatchInv, Claimed
    <3> QED
      BY <1>1, <1>3, <1>4, <3>1, ShownStays
  <2>3. \A f \in b.done : about'[f] \in Rebuilt => Shown(f)'
    BY <2>2
  <2>4. (\A f \in Claimed(w) : status[f] \in {"PENDING", "FAILED"})'
    BY <1>1, <1>6 DEF BatchInv
  <2>5. (batch[w].seen # NoView => \A f \in Claimed(w) : version[f] <= batch[w].seen[about[f]])'
    BY <1>1, <1>2, <1>6 DEF BatchInv
  <2> QED
    BY <1>2, <2>1, <2>3, <2>4, <2>5 DEF BatchInv
<1>8. \A u \in Batches \ {w} : Claimed(w)' \cap Claimed(u) = {}
  BY <1>6 DEF Inv, Locks
<1> QED
  BY <1>1, <1>4, <1>7, <1>8, JobStep DEF TypeOK

LEMMA FinishRecord ==
    ASSUME TypeOK, NEW w \in Batches, NEW e \in Events, Finish(w, e)
    PROVE  \E b \in BatchType :
              /\ batch' = [batch EXCEPT ![w] = b]
              /\ b.on = batch[w].on /\ b.todo = batch[w].todo \ {e} /\ b.seen = batch[w].seen
              /\ b.done = batch[w].done \cup {e} /\ b.failed = batch[w].failed /\ b.at = 0
<1> DEFINE b == [[[batch[w] EXCEPT !.todo = batch[w].todo \ {e}]
                           EXCEPT !.done = batch[w].done \cup {e}] EXCEPT !.at = 0]
<1>1. batch[w] \in BatchType
  BY DEF TypeOK
<1>2. batch' = [batch EXCEPT ![w] = b]
  BY <1>1 DEF Finish, TypeOK, BatchType
<1>3. /\ b \in BatchType /\ b.on = batch[w].on /\ b.todo = batch[w].todo \ {e}
      /\ b.seen = batch[w].seen /\ b.done = batch[w].done \cup {e}
      /\ b.failed = batch[w].failed /\ b.at = 0
  BY <1>1 DEF BatchType
<1> HIDE DEF b
<1> QED
  BY <1>2, <1>3

LEMMA SkipInv ==
    ASSUME Inv, NEW w \in Batches, Skip(w)
    PROVE  Inv'
<1>1. TypeOK
  BY DEF Inv
<1>2. PICK e \in Events : Turn(w, e) /\ about[e] \notin Rebuilt /\ Finish(w, e)
  BY DEF Skip
<1>3. PICK b \in BatchType :
        /\ batch' = [batch EXCEPT ![w] = b]
        /\ b.on = batch[w].on /\ b.todo = batch[w].todo \ {e} /\ b.seen = batch[w].seen
        /\ b.done = batch[w].done \cup {e} /\ b.failed = batch[w].failed /\ b.at = 0
  BY <1>1, <1>2, FinishRecord
<1>4. UNCHANGED <<row, status, about, graph, up, req, version, newest>>
  BY DEF Skip
<1>5. Grows /\ graph' \in [Elements -> Versions] /\ newest' \in [Elements -> Versions]
  BY <1>1, <1>4, Frame DEF TypeOK
<1> QED
  BY <1>2, <1>3, <1>4, <1>5, TurnEnds

LEMMA EventFailsInv ==
    ASSUME Inv, NEW w \in Batches, EventFails(w)
    PROVE  Inv'
<1>1. TypeOK /\ batch[w] \in BatchType
  BY DEF Inv, TypeOK
<1>2. PICK e \in Events :
        /\ Turn(w, e)
        /\ batch' = [batch EXCEPT ![w].todo = @ \ {e}, ![w].failed = @ \cup {e}, ![w].at = 0]
  BY DEF EventFails
<1> DEFINE b == [[[batch[w] EXCEPT !.todo = batch[w].todo \ {e}]
                           EXCEPT !.failed = batch[w].failed \cup {e}] EXCEPT !.at = 0]
<1>3. batch' = [batch EXCEPT ![w] = b]
  BY <1>1, <1>2 DEF TypeOK, BatchType
<1>4. /\ b \in BatchType /\ b.on = batch[w].on /\ b.todo = batch[w].todo \ {e}
      /\ b.seen = batch[w].seen /\ b.done = batch[w].done
      /\ b.failed = batch[w].failed \cup {e} /\ b.at = 0
  BY <1>1 DEF BatchType
<1> HIDE DEF b
<1>5. UNCHANGED <<row, status, about, graph, up, req, version, newest>>
  BY DEF EventFails
<1>6. Grows /\ graph' \in [Elements -> Versions] /\ newest' \in [Elements -> Versions]
  BY <1>1, <1>5, Frame DEF TypeOK
<1> QED
  BY <1>2, <1>3, <1>4, <1>5, <1>6, TurnEnds

(* What a job is about to write for the event whose turn it is. *)
LEMMA Turned ==
    ASSUME Inv, NEW w \in Batches, NEW e \in Events, Turn(w, e), about[e] \in Rebuilt,
           batch[w].seen # NoView
    PROVE  /\ about[e] \in Aggregates /\ status[e] \in {"PENDING", "FAILED"}
           /\ batch[w].seen[about[e]] \in Versions /\ batch[w].seen[about[e]] # 0
           /\ version[e] <= batch[w].seen[about[e]]
           /\ batch[w].at + 1 \in 1..Len(Statements[about[e]])
           /\ Statements[about[e]][batch[w].at + 1] \in Elements
           /\ batch[w].on # "none"
<1>1. /\ TypeOK /\ EventInv /\ BatchInv(w) /\ batch[w] \in BatchType
      /\ batch[w].at \in Nat
  BY DEF Inv, TypeOK, BatchType
<1>2. e \in Claimed(w) /\ about[e] \in Aggregates
  BY <1>1, OneTurn DEF TypeOK
<1>3. status[e] \in {"PENDING", "FAILED"}
  BY <1>1, <1>2 DEF BatchInv
<1>4. version[e] \in Nat \ {0} /\ version[e] <= batch[w].seen[about[e]]
  <2>1. version[e] \in 1..row[about[e]]
    BY <1>1, <1>3 DEF EventInv
  <2> QED
    BY <1>1, <1>2, <2>1 DEF BatchInv
<1>5. batch[w].seen[about[e]] \in Versions
  BY <1>1, <1>2 DEF BatchType
<1>6. batch[w].seen[about[e]] # 0
  BY <1>4, <1>5 DEF Versions
<1>7. batch[w].at + 1 \in 1..Len(Statements[about[e]])
  <2>1. Len(Statements[about[e]]) \in Nat \ {0}
    BY <1>2, NodeIsElement
  <2>2. batch[w].at = 0 \/ batch[w].at < Len(Statements[about[e]])
    BY <1>1 DEF BatchInv
  <2> QED
    BY <1>1, <2>1, <2>2
<1>8. Statements[about[e]][batch[w].at + 1] \in Elements
  <2>1. Statements[about[e]] \in Seq(Elements)
    BY <1>2
  <2> QED
    BY <1>7, <2>1
<1>9. batch[w].on # "none"
  BY <1>1 DEF BatchInv, NoBatch
<1> QED
  BY <1>2, <1>3, <1>4, <1>5, <1>6, <1>7, <1>8, <1>9

LEMMA WorkerMergeInv ==
    ASSUME Inv, NEW w \in Batches, WorkerMerge(w)
    PROVE  Inv'
<1>1. TypeOK /\ EventInv /\ BatchInv(w) /\ batch[w] \in BatchType /\ batch[w].seen # NoView
  BY DEF Inv, TypeOK, WorkerMerge
<1>2. UNCHANGED <<row, status, about, up, req, version>>
  BY DEF WorkerMerge
<1>3. PICK e \in Events :
        /\ Turn(w, e) /\ about[e] \in Rebuilt
        /\ Merge(Statements[about[e]][batch[w].at + 1], batch[w].seen[about[e]])
        /\ IF batch[w].at + 1 = Len(Statements[about[e]])
           THEN Finish(w, e)
           ELSE batch' = [batch EXCEPT ![w].at = batch[w].at + 1]
  BY DEF WorkerMerge
<1> DEFINE x == Statements[about[e]][batch[w].at + 1]
           v == batch[w].seen[about[e]]
<1>4. /\ about[e] \in Aggregates /\ status[e] \in {"PENDING", "FAILED"}
      /\ v \in Versions /\ v # 0 /\ version[e] <= v
      /\ batch[w].at + 1 \in 1..Len(Statements[about[e]])
      /\ x \in Elements /\ batch[w].on # "none"
  BY <1>1, <1>3, Turned
<1>5. /\ graph' \in [Elements -> Versions] /\ newest' \in [Elements -> Versions]
      /\ Grows
      /\ Needs[x] = {} => graph'[x] # 0 /\ newest'[x] >= v
  <2>1. Merge(x, v)
    BY <1>3
  <2> HIDE DEF x, v
  <2> QED
    BY <1>1, <1>4, <2>1, Merged
<1>6. Shown(e)'
  <2>1. CASE batch[w].at = 0
    <3>1. x = Node(about[e]) /\ Needs[x] = {}
      BY <1>3, <2>1, NodeAssumption DEF Node
    <3>2. graph'[Node(about[e])] # 0 /\ newest'[Node(about[e])] >= v
      BY <1>5, <3>1
    <3>3. newest'[Node(about[e])] >= version[e]
      <4>1. newest'[Node(about[e])] \in Int /\ v \in Int /\ version[e] \in Int
        <5>1. Node(about[e]) \in Elements
          BY <1>4, <3>1
        <5>2. newest'[Node(about[e])] \in Versions /\ version[e] \in Versions
          BY <1>1, <1>5, <5>1 DEF TypeOK
        <5> HIDE DEF v
        <5> QED
          BY <1>4, <5>2 DEF Versions
      <4> HIDE DEF v
      <4> QED
        BY <1>4, <3>2, <4>1
    <3> QED
      BY <1>2, <3>2, <3>3 DEF Shown, Node
  <2>2. CASE batch[w].at # 0
    <3>1. Shown(e) /\ status[e] # "NONE"
      BY <1>1, <1>3, <1>4, <2>2 DEF BatchInv
    <3>2. TypeOK /\ EventInv /\ Grows /\ Remembers
      BY <1>1, <1>2, <1>5 DEF Remembers
    <3> QED
      BY <1>2, <1>5, <3>1, <3>2, ShownGrows
  <2> QED
    BY <2>1, <2>2
<1>7. CASE batch[w].at + 1 = Len(Statements[about[e]])
  <2>1. PICK b \in BatchType :
          /\ batch' = [batch EXCEPT ![w] = b]
          /\ b.on = batch[w].on /\ b.todo = batch[w].todo \ {e} /\ b.seen = batch[w].seen
          /\ b.done = batch[w].done \cup {e} /\ b.failed = batch[w].failed /\ b.at = 0
    BY <1>1, <1>3, <1>7, FinishRecord
  <2> QED
    BY <1>2, <1>3, <1>5, <1>6, <2>1, TurnEnds
<1>8. CASE batch[w].at + 1 # Len(Statements[about[e]])
  <2> DEFINE b == [batch[w] EXCEPT !.at = batch[w].at + 1]
  <2> batch[w].at + 1 \in Nat
    BY <1>4
  <2>1. /\ b \in BatchType /\ b.on = batch[w].on /\ b.todo = batch[w].todo
        /\ b.done = batch[w].done /\ b.failed = batch[w].failed
        /\ b.seen = batch[w].seen /\ b.at = batch[w].at + 1
    BY <1>1 DEF BatchType
  <2>2. batch' = [batch EXCEPT ![w] = b] /\ batch'[w] = b
    BY <1>1, <1>3, <1>8 DEF TypeOK
  <2> HIDE DEF b
  <2>3. TypeOK'
    BY <1>1, <1>2, <1>5, <2>1, <2>2 DEF TypeOK
  <2>4. Remembers /\ EventInv'
    BY <1>1, <1>2, <1>5, <2>3, EventsStay
  <2>5. Claimed(w)' = Claimed(w) /\ \A f \in Events : Turn(w, f)' <=> Turn(w, f)
    BY <2>1, <2>2 DEF Claimed, Turn
  <2>6. BatchInv(w)'
    <3>1. \A f \in batch'[w].done : about'[f] \in Rebuilt => Shown(f)'
      <4> TAKE f \in batch'[w].done
      <4> HAVE about'[f] \in Rebuilt
      <4>1. f \in Events /\ status[f] # "NONE" /\ Shown(f)
        BY <1>1, <1>2, <2>1, <2>2 DEF BatchType, BatchInv, Claimed
      <4> QED
        BY <1>1, <1>5, <2>4, <4>1, ShownGrows
    <3>2. \A f \in Events : Turn(w, f) => f = e
      BY <1>1, <1>3, OneTurn
    <3>3. batch[w].at + 1 < Len(Statements[about[e]])
      BY <1>1, <1>4, <1>8
    <3>4. (\A f \in Claimed(w) : status[f] \in {"PENDING", "FAILED"})'
      BY <1>1, <1>2, <2>5 DEF BatchInv
    <3>5. (\A f \in Claimed(w) : version[f] <= batch[w].seen[about[f]])'
      BY <1>1, <1>2, <2>1, <2>2, <2>5 DEF BatchInv
    <3>6. (\A f \in Events : Turn(w, f) /\ batch[w].at # 0 =>
              /\ about[f] \in Rebuilt
              /\ batch[w].at < Len(Statements[about[f]])
              /\ Shown(f))'
      BY <1>2, <1>3, <1>6, <2>1, <2>2, <2>5, <3>2, <3>3
    <3>7. batch'[w].on # "none"
      BY <1>4, <2>1, <2>2
    <3> QED
      BY <3>1, <3>4, <3>5, <3>6, <3>7 DEF BatchInv
  <2>7. \A u \in Batches \ {w} : Claimed(w)' \cap Claimed(u) = {}
    BY <2>5 DEF Inv, Locks
  <2>8. status' \in [Events -> EventStatus] /\ \A f : status'[f] = status[f]
    BY <1>1, <1>2 DEF TypeOK
  <2> QED
    BY <1>2, <1>5, <2>1, <2>2, <2>4, <2>6, <2>7, <2>8, JobStep
<1> QED
  BY <1>7, <1>8

(* A transaction ends: the job has no claims left. *)
LEMMA JobEnds ==
    ASSUME Inv, NEW w \in Batches, batch' = [batch EXCEPT ![w] = NoBatch],
           UNCHANGED <<row, about, graph, up, req, version, newest>>,
           status' \in [Events -> EventStatus],
           \A e \in Events \ Claimed(w) : status'[e] = status[e],
           \A e \in Claimed(w) :
              \/ status'[e] = status[e]
              \/ status'[e] = "FAILED"
              \/ status'[e] = "PROCESSED" /\ e \in batch[w].done
    PROVE  Inv'
<1>1. TypeOK /\ EventInv /\ BatchInv(w)
  BY DEF Inv
<1>2. NoBatch \in BatchType /\ batch'[w] = NoBatch
  BY <1>1 DEF TypeOK, NoBatch, BatchType
<1>3. Claimed(w)' = {}
  BY <1>2 DEF Claimed, NoBatch
<1>4. BatchInv(w)'
  BY <1>2, <1>3 DEF BatchInv, NoBatch, Turn
<1>5. \A u \in Batches \ {w} : \A e \in Claimed(u) : status'[e] = status[e]
  <2> TAKE u \in Batches \ {w}
  <2> TAKE e \in Claimed(u)
  <2>1. e \in Events /\ e \notin Claimed(w)
    BY <1>1 DEF Inv, Locks, Claimed, TypeOK, BatchType
  <2> QED
    BY <2>1
<1>6. \A e : Shown(e)' <=> Shown(e)
  BY DEF Shown
<1>7. \A e \in Events :
          \/ status'[e] = status[e]
          \/ status[e] # "NONE" /\ status'[e] = "FAILED"
          \/ /\ status[e] # "NONE" /\ status'[e] = "PROCESSED"
             /\ about[e] \in Rebuilt => Shown(e)
  BY <1>1 DEF BatchInv
<1>8. EventInv'
  BY <1>1, <1>6, <1>7 DEF EventInv
<1>9. Grows
  BY <1>1 DEF Grows, TypeOK, Versions
<1> QED
  BY <1>1, <1>2, <1>3, <1>4, <1>5, <1>8, <1>9, JobStep DEF TypeOK

LEMMA CommitInv ==
    ASSUME Inv, NEW w \in Batches, Commit(w)
    PROVE  Inv'
<1>1. TypeOK /\ status' = Marked(w) /\ batch' = [batch EXCEPT ![w] = NoBatch]
  BY DEF Inv, Commit, After
<1>2. Marked(w) \in [Events -> EventStatus]
  BY <1>1 DEF Marked, TypeOK, EventStatus
<1>3. /\ \A e \in Events \ Claimed(w) : status'[e] = status[e]
      /\ \A e \in Events :
            \/ status'[e] = status[e]
            \/ status'[e] = "FAILED"
            \/ status'[e] = "PROCESSED" /\ e \in batch[w].done
  BY <1>1 DEF Marked, Claimed
<1>4. Claimed(w) \subseteq Events
  BY <1>1 DEF Claimed, TypeOK, BatchType
<1> QED
  BY <1>1, <1>2, <1>3, <1>4, JobEnds DEF Commit

LEMMA AbortInv ==
    ASSUME Inv, NEW w \in Batches, Abort(w)
    PROVE  Inv'
<1>1. Claimed(w) \subseteq Events /\ status \in [Events -> EventStatus]
  BY DEF Inv, Claimed, TypeOK, BatchType
<1> QED
  BY <1>1, JobEnds DEF Abort

-----------------------------------------------------------------------------
THEOREM NextInv == Inv /\ [Next]_vars => Inv'
<1> SUFFICES ASSUME Inv, [Next]_vars PROVE Inv'
  OBVIOUS
<1>1. ASSUME NEW r \in Requests, Request(r) PROVE Inv'
  BY <1>1, CreateInv, ChangeInv, RefreshInv, DirectMergeInv,
     StatementFailsInv, RequestEndsInv DEF Request
<1>2. ASSUME NEW w \in Batches, Progress(w) PROVE Inv'
  BY <1>2, ReadInv, SkipInv, WorkerMergeInv, EventFailsInv, CommitInv DEF Progress
<1>3. ASSUME NEW w \in Batches, NEW s \in {"PENDING", "FAILED"}, Claim(w, s) PROVE Inv'
  BY <1>3, ClaimInv
<1>4. CASE UNCHANGED vars
  <2>1. TypeOK' /\ RequestInv' /\ batch' = batch
    BY <1>4 DEF Inv, TypeOK, RequestInv, vars
  <2>2. Grows /\ Remembers /\ EventInv' /\ status' = status
    BY <1>4, Frame DEF Inv, vars
  <2> QED
    BY <2>1, <2>2, JobsStay
<1> QED
  BY <1>1, <1>2, <1>3, <1>4, AbortInv, Neo4jInv DEF Next

THEOREM Correct == Spec => []Inv
<1> QED
  BY InitInv, NextInv, PTL DEF Spec

(* Every variable keeps its type: a status is one the consumer knows. *)
THEOREM TypeCorrect == Spec => []TypeOK
<1>1. Inv => TypeOK
  BY DEF Inv
<1> QED
  BY <1>1, Correct, PTL

(* The graph has shown what a processed event was written for. *)
THEOREM ProcessedIsShownHolds == Spec => []ProcessedIsShown
<1>1. Inv => ProcessedIsShown
  BY DEF Inv, EventInv, Shown, ProcessedIsShown
<1> QED
  BY <1>1, Correct, PTL

-----------------------------------------------------------------------------
(* OutboxSync implements Mirror *)

(* The barred variables. *)
Delivered == {e \in Events : status[e] = "PROCESSED"}
OnGraph == {a \in Aggregates : graph[Node(a)] # 0}

LEMMA StatementShows ==
    ASSUME TypeOK, NEW x \in Elements, NEW v \in Versions, v # 0, Merge(x, v)
    PROVE  OnGraph' = OnGraph \/ \E a \in Aggregates : OnGraph' = OnGraph \cup {a}
<1>1. /\ \A y \in Elements : graph'[y] = graph[y] \/ (y = x /\ graph'[y] # 0)
      /\ \A y \in Elements : graph[y] # 0 => graph'[y] # 0
  BY Merged, Zenon DEF Grows
<1>2. \A a \in Aggregates : Node(a) \in Elements /\ Node(a)' = Node(a)
  BY NodeIsElement DEF Node
<1>3. CASE \E a \in Aggregates : Node(a) = x
  <2>1. PICK a \in Aggregates : Node(a) = x
    BY <1>3
  <2>2. \A b \in Aggregates \ {a} : Node(b) # x
    BY <2>1, NodeAssumption
  <2>3. \A b \in Aggregates \ {a} : b \in OnGraph' <=> b \in OnGraph
    BY <1>1, <1>2, <2>2 DEF OnGraph
  <2>4. a \in OnGraph => a \in OnGraph'
    BY <1>1, <1>2 DEF OnGraph
  <2>5. OnGraph \subseteq Aggregates /\ OnGraph' \subseteq Aggregates
    BY DEF OnGraph
  <2>6. CASE a \in OnGraph'
    <3>1. OnGraph' = OnGraph \cup {a}
      BY <2>3, <2>5, <2>6
    <3> QED
      BY <2>1, <3>1
  <2>7. CASE a \notin OnGraph'
    <3>1. \A b \in Aggregates : b \in OnGraph' <=> b \in OnGraph
      BY <2>3, <2>4, <2>7
    <3>2. OnGraph' = OnGraph
      BY <2>5, <3>1
    <3> QED
      BY <3>2
  <2> QED
    BY <2>6, <2>7
<1>4. CASE \A a \in Aggregates : Node(a) # x
  <2>1. \A a \in Aggregates : graph'[Node(a)] = graph[Node(a)] /\ Node(a)' = Node(a)
    BY <1>1, <1>2, <1>4
  <2> QED
    BY <2>1 DEF OnGraph
<1> QED
  BY <1>3, <1>4

LEMMA Implements ==
    ASSUME Inv, Next
    PROVE  [Promise!Next]_(Promise!vars)
<1>1. TypeOK /\ EventInv
  BY DEF Inv
<1> USE DEF Promise!Next, Promise!vars
<1>2. ASSUME UNCHANGED <<status, about, graph>>
      PROVE  UNCHANGED Promise!vars
  BY <1>2 DEF Node
<1>3. ASSUME NEW a \in Aggregates, Publish(a), UNCHANGED graph
      PROVE  \E e \in Events, b \in Aggregates : Promise!Publish(e, b)
  <2>1. PICK e \in Events : /\ status[e] = "NONE"
                            /\ status' = [status EXCEPT ![e] = "PENDING"]
                            /\ about' = [about EXCEPT ![e] = a]
    BY <1>3 DEF Publish
  <2>2. about[e] = NoAggregate
    BY <1>1, <2>1 DEF EventInv
  <2>3. \A f \in Events : status'[f] = "PROCESSED" <=> status[f] = "PROCESSED"
    BY <1>1, <2>1 DEF TypeOK
  <2>4. Delivered' = Delivered /\ OnGraph' = OnGraph
    BY <1>3, <2>3 DEF Delivered, OnGraph, Node
  <2>5. Promise!Publish(e, a)
    BY <2>1, <2>2, <2>4 DEF Promise!Publish, Delivered, OnGraph
  <2> QED
    BY <2>5
<1>4. ASSUME NEW x \in Elements, NEW v \in Versions, v # 0, Merge(x, v),
             UNCHANGED <<status, about>>
      PROVE  (\E a \in Aggregates : Promise!Show(a)) \/ UNCHANGED Promise!vars
  <2>1. OnGraph' = OnGraph \/ \E a \in Aggregates : OnGraph' = OnGraph \cup {a}
    BY <1>1, <1>4, StatementShows
  <2>2. Delivered' = Delivered
    BY <1>4 DEF Delivered
  <2> QED
    BY <1>4, <2>1, <2>2 DEF Promise!Show, Delivered, OnGraph
<1>5. ASSUME NEW r \in Requests, Request(r) PROVE [Promise!Next]_(Promise!vars)
  <2>1. ASSUME NEW a \in Aggregates, Create(r, a) PROVE [Promise!Next]_(Promise!vars)
    BY <1>3, <2>1 DEF Create
  <2>2. ASSUME NEW a \in Aggregates, Change(r, a) PROVE [Promise!Next]_(Promise!vars)
    BY <1>2, <1>3, <2>2 DEF Change
  <2>3. CASE DirectMerge(r)
    <3> DEFINE x == Statements[req[r].agg][req[r].at + 1]
               v == req[r].seen
    <3>1. x \in Elements /\ v \in Versions /\ v # 0
      BY <2>3, Advanced DEF Inv, DirectMerge
    <3>2. Merge(x, v) /\ UNCHANGED <<status, about>>
      BY <2>3 DEF DirectMerge
    <3> HIDE DEF x, v
    <3> QED
      BY <1>4, <3>1, <3>2
  <2>4. CASE Refresh(r) \/ StatementFails(r) \/ RequestEnds(r)
    BY <1>2, <2>4 DEF Refresh, StatementFails, RequestEnds
  <2> QED
    BY <1>5, <2>1, <2>2, <2>3, <2>4 DEF Request
<1>6. ASSUME NEW w \in Batches, WorkerMerge(w) PROVE [Promise!Next]_(Promise!vars)
  <2>1. PICK e \in Events :
          /\ Turn(w, e) /\ about[e] \in Rebuilt
          /\ Merge(Statements[about[e]][batch[w].at + 1], batch[w].seen[about[e]])
    BY <1>6 DEF WorkerMerge
  <2> DEFINE x == Statements[about[e]][batch[w].at + 1]
             v == batch[w].seen[about[e]]
  <2>2. x \in Elements /\ v \in Versions /\ v # 0
    BY <1>6, <2>1, Turned DEF WorkerMerge
  <2>3. Merge(x, v) /\ UNCHANGED <<status, about>>
    BY <1>6, <2>1 DEF WorkerMerge
  <2> HIDE DEF x, v
  <2> QED
    BY <1>4, <2>2, <2>3
<1>7. ASSUME NEW w \in Batches, Commit(w) PROVE [Promise!Next]_(Promise!vars)
  <2>1. BatchInv(w) /\ batch[w] \in BatchType /\ status' = Marked(w)
        /\ UNCHANGED <<about, graph>>
    BY <1>1, <1>7 DEF Inv, TypeOK, Commit
  <2>2. \A e \in batch[w].done : /\ e \in Events /\ about[e] # NoAggregate
                                 /\ about[e] \in Rebuilt => about[e] \in OnGraph
    <3> TAKE e \in batch[w].done
    <3>1. e \in Events /\ status[e] \in {"PENDING", "FAILED"}
      BY <2>1 DEF BatchType, BatchInv, Claimed
    <3>2. about[e] \in Aggregates
      BY <1>1, <3>1 DEF EventInv, TypeOK
    <3> QED
      BY <2>1, <3>1, <3>2 DEF BatchInv, Shown, OnGraph
  <2>3. \A e \in Events : e \in batch[w].failed => status[e] # "PROCESSED"
    BY <2>1 DEF BatchInv, Claimed
  <2>4. Delivered' = Delivered \cup batch[w].done
    <3>1. \A e \in Events : status'[e] = "PROCESSED"
                                 <=> status[e] = "PROCESSED" \/ e \in batch[w].done
      BY <2>1, <2>3 DEF Marked
    <3> QED
      BY <2>2, <3>1 DEF Delivered
  <2>5. OnGraph' = OnGraph
    BY <2>1 DEF OnGraph, Node
  <2>6. PICK S \in SUBSET Events : S = batch[w].done
    BY <2>2
  <2>7. Promise!Deliver(S)
    BY <2>1, <2>2, <2>4, <2>5, <2>6 DEF Promise!Deliver, Delivered, OnGraph
  <2> QED
    BY <2>7
<1>8. ASSUME NEW w \in Batches, Read(w) \/ Skip(w) \/ EventFails(w) \/ Abort(w)
      PROVE  [Promise!Next]_(Promise!vars)
  BY <1>2, <1>8 DEF Read, Skip, EventFails, Abort
<1>9. ASSUME NEW w \in Batches, NEW s \in {"PENDING", "FAILED"}, Claim(w, s)
      PROVE  [Promise!Next]_(Promise!vars)
  BY <1>2, <1>9 DEF Claim
<1>10. CASE Neo4j
  BY <1>2, <1>10 DEF Neo4j
<1> QED
  BY <1>5, <1>6, <1>7, <1>8, <1>9, <1>10 DEF Next, Progress

(* An event that is processed stays so, and its node is in the graph. *)
THEOREM KeepsPromiseHolds == Spec => KeepsPromise
<1>1. Init => Promise!Init
  BY NodeIsElement DEF Init, Promise!Init
<1>2. Inv /\ [Next]_vars => [Promise!Next]_(Promise!vars)
  <2>1. UNCHANGED vars => UNCHANGED Promise!vars
    BY DEF vars, Promise!vars, Node
  <2> QED
    BY <2>1, Implements
<1> QED
  BY <1>1, <1>2, Correct, PTL DEF Spec, KeepsPromise, Promise!Spec
=============================================================================
