-------------------------- MODULE LotSetup_proofs --------------------------
(* Proofs about LotSetup, for any requests, lots, experts, budgets, lists   *)
(* of dimensions and criteria, about LoginLimiter, for any attempts, limit  *)
(* and times, and about Chunker, for any text and lengths.  They stand      *)
(* together because all three rest on sums over a finite set.               *)
EXTENDS LotSetup, LoginLimiter, Chunker, CountingLemmas, SequenceTheorems, TLAPS

-----------------------------------------------------------------------------
(* Chunker: what is cut into chunks is the whole text, in order, and every  *)
(* chunk says where it stood.  The lines of a text have consecutive numbers *)
(* for tokens, so that what a section, a paragraph, a piece and a window    *)
(* hold are stretches of numbers, and the argument is about their ends.     *)

-----------------------------------------------------------------------------
(* Stretches of numbers *)

Stretches == {a..b : a \in Nat \ {0}, b \in Nat} \ {{}}

LEMMA StretchEnds ==
    ASSUME NEW a \in Nat, NEW b \in Nat, a <= b
    PROVE  /\ a..b # {} /\ Min(a..b) = a /\ Max(a..b) = b /\ Cardinality(a..b) = b - a + 1
           /\ a > 0 => a..b \in Stretches
<1>1. a \in a..b /\ b \in a..b
  OBVIOUS
<1>2. Min(a..b) = a
  <2>1. \A x \in a..b : (\A y \in a..b : x <= y) <=> x = a
    BY <1>1
  <2> QED
    BY <1>1, <2>1 DEF Min
<1>3. Max(a..b) = b
  <2>1. \A x \in a..b : (\A y \in a..b : x >= y) <=> x = b
    BY <1>1
  <2> QED
    BY <1>1, <2>1 DEF Max
<1>4. Cardinality(a..b) = b - a + 1
  BY FS_Interval
<1>5. a > 0 => a..b \in Stretches
  <2>1. a..b # {}
    BY <1>1
  <2> QED
    BY <2>1 DEF Stretches
<1> QED
  BY <1>1, <1>2, <1>3, <1>4, <1>5

LEMMA StretchTells ==
    ASSUME NEW p \in Stretches
    PROVE  /\ Min(p) \in Nat \ {0} /\ Max(p) \in Nat /\ Min(p) <= Max(p) /\ p = Min(p)..Max(p)
           /\ Cardinality(p) = Max(p) - Min(p) + 1 /\ Min(p) \in p /\ Max(p) \in p
           /\ p # {} /\ p \subseteq Nat \ {0} /\ IsFiniteSet(p) /\ Cardinality(p) \in Nat
<1>1. PICK a \in Nat \ {0}, b \in Nat : p = a..b /\ p # {}
  BY DEF Stretches
<1>2. a <= b
  BY <1>1
<1>3. Min(p) = a /\ Max(p) = b /\ Cardinality(p) = b - a + 1
  BY <1>1, <1>2, StretchEnds
<1>4. IsFiniteSet(p)
  BY <1>1, FS_Interval
<1> QED
  BY <1>1, <1>2, <1>3, <1>4

(* Two stretches without a common number stand one before the other.       *)
LEMMA StretchesApart ==
    ASSUME NEW p \in Stretches, NEW q \in Stretches, p \cap q = {}
    PROVE  Max(p) < Min(q) \/ Max(q) < Min(p)
<1> DEFINE a == Min(p)  b == Max(p)  c == Min(q)  d == Max(q)
<1>1. /\ a \in Nat /\ b \in Nat /\ c \in Nat /\ d \in Nat /\ a <= b /\ c <= d
      /\ p = a..b /\ q = c..d
  BY StretchTells
<1> HIDE DEF a, b, c, d
<1>2. ~(b < c) /\ ~(d < a) => \E x \in a..b : x \in c..d
  <2>1. CASE a <= c
    <3>1. ~(b < c) => c \in a..b /\ c \in c..d
      BY <1>1, <2>1
    <3> QED
      BY <3>1
  <2>2. CASE ~(a <= c)
    <3>1. ~(d < a) => a \in a..b /\ a \in c..d
      BY <1>1, <2>2
    <3> QED
      BY <3>1
  <2> QED
    BY <2>1, <2>2
<1> QED
  BY <1>1, <1>2 DEF a, b, c, d

LEMMA MaxTells ==
    ASSUME NEW n \in Nat, NEW S \in SUBSET (0..n), NEW k \in S
    PROVE  Max(S) \in S /\ Max(S) \in 0..n /\ \A j \in S : j <= Max(S)
<1>1. PICK m \in S : \A j \in S : j <= m
  BY Greatest
<1>2. \A j \in S : m >= j
  BY <1>1
<1>3. Max(S) \in S /\ \A j \in S : Max(S) >= j
  BY <1>2 DEF Max
<1>4. \A x \in S : x \in Int
  OBVIOUS
<1> QED
  BY <1>3, <1>4

LEMMA MaxIs ==
    ASSUME NEW S \in SUBSET Int, NEW m \in S, \A j \in S : j <= m
    PROVE  Max(S) = m
<1>1. \A x \in S : (\A y \in S : x >= y) <=> x = m
  OBVIOUS
<1> QED
  BY <1>1 DEF Max

LEMMA MinTells ==
    ASSUME NEW S \in SUBSET Nat, NEW k \in S
    PROVE  Min(S) \in S /\ \A j \in S : Min(S) <= j
<1>1. PICK m \in S : \A j \in S : m <= j
  BY Least
<1> QED
  BY <1>1 DEF Min

-----------------------------------------------------------------------------
(* The tokens of a text *)

Written == text \in Seq(Line)

LEMMA LinesTyped ==
    ASSUME Written
    PROVE  /\ Len(text) \in Nat /\ DOMAIN text = 1..Len(text)
           /\ \A i \in 1..Len(text) :
                  /\ text[i].kind \in {"page", "heading", "text"}
                  /\ Size(i) \in Nat
                  /\ text[i].kind = "page" => text[i].number \in Nat /\ Size(i) = 0
<1>1. Len(text) \in Nat /\ DOMAIN text = 1..Len(text) /\ \A i \in 1..Len(text) : text[i] \in Line
  BY DEF Written
<1>2. ASSUME NEW i \in 1..Len(text)
      PROVE  /\ text[i].kind \in {"page", "heading", "text"}
             /\ Size(i) \in Nat
             /\ text[i].kind = "page" => text[i].number \in Nat /\ Size(i) = 0
  <2>1. text[i] \in Line
    BY <1>1
  <2> QED
    BY <2>1 DEF Line, Size
<1> QED
  BY <1>1, <1>2

SizesBefore(i) == [j \in 1..Len(text) |-> IF j < i THEN Size(j) ELSE 0]

LEMMA OffsetSums ==
    ASSUME Written, NEW i \in 1..Len(text) + 1
    PROVE  /\ SizesBefore(i) \in [1..Len(text) -> Nat]
           /\ Offset(i) = SumOver(1..Len(text), SizesBefore(i))
           /\ Offset(i) \in Nat
<1>1. SizesBefore(i) \in [1..Len(text) -> Nat]
  BY LinesTyped DEF SizesBefore
<1>2. Offset(i) = SumFunction(SizesBefore(i))
  BY LinesTyped DEF Offset, SizesBefore
<1>3. IsFiniteSet(1..Len(text))
  BY LinesTyped, FS_Interval
<1> QED
  BY <1>1, <1>2, <1>3, SumOfFunction, SumIsNat

(* The offset of the next line is that of this one and its size.           *)
LEMMA OffsetsGrow ==
    ASSUME Written
    PROVE  /\ \A i \in 1..Len(text) + 1 : Offset(i) \in Nat
           /\ \A i \in 1..Len(text) : Offset(i + 1) = Offset(i) + Size(i)
           /\ \A i, j \in 1..Len(text) + 1 : i <= j => Offset(i) <= Offset(j)
<1>1. Len(text) \in Nat /\ IsFiniteSet(1..Len(text))
  BY LinesTyped, FS_Interval
<1>2. ASSUME NEW i \in 1..Len(text) PROVE Offset(i + 1) = Offset(i) + Size(i)
  <2> DEFINE b == SizesBefore(i)
             c == SizesBefore(i + 1)
  <2>1. i \in 1..Len(text) + 1 /\ i + 1 \in 1..Len(text) + 1
    BY <1>1
  <2>2. b \in [1..Len(text) -> Nat] /\ c \in [1..Len(text) -> Nat]
        /\ Offset(i) = SumOver(1..Len(text), b) /\ Offset(i + 1) = SumOver(1..Len(text), c)
    BY <2>1, OffsetSums
  <2>3. \A x \in 1..Len(text) : x # i => c[x] = b[x]
    BY <1>1 DEF SizesBefore
  <2>4. b[i] = 0 /\ c[i] = Size(i) /\ Size(i) \in Nat
    BY <1>1, LinesTyped DEF SizesBefore
  <2> HIDE DEF b, c
  <2>5. PICK t \in Nat : SumOver(1..Len(text), b) = t + b[i] /\ SumOver(1..Len(text), c) = t + c[i]
    BY <1>1, <2>2, <2>3, SumDiffers
  <2> QED
    BY <2>2, <2>4, <2>5
<1>3. ASSUME NEW i \in 1..Len(text) + 1, NEW j \in 1..Len(text) + 1, i <= j
      PROVE  Offset(i) <= Offset(j)
  <2>1. \A x \in 1..Len(text) : SizesBefore(i)[x] <= SizesBefore(j)[x]
    BY <1>1, <1>3, LinesTyped DEF SizesBefore
  <2> QED
    BY <1>1, <2>1, OffsetSums, SumMonotone
<1> QED
  BY <1>2, <1>3, OffsetSums

LEMMA TokensAre ==
    ASSUME Written, NEW i \in 1..Len(text)
    PROVE  /\ Tokens(i) = Offset(i) + 1 .. Offset(i + 1)
           /\ Offset(i) \in Nat /\ Offset(i + 1) \in Nat /\ Offset(i) <= Offset(i + 1)
           /\ Tokens(i) \subseteq Nat \ {0}
           /\ Blank(i) <=> Tokens(i) = {}
           /\ ~Blank(i) => Tokens(i) \in Stretches
<1>1. /\ Offset(i) \in Nat /\ Offset(i + 1) \in Nat
      /\ Offset(i + 1) = Offset(i) + Size(i) /\ Size(i) \in Nat
  BY LinesTyped, OffsetsGrow
<1>2. Tokens(i) = Offset(i) + 1 .. Offset(i + 1)
  BY <1>1 DEF Tokens
<1> DEFINE a == Offset(i)  b == Offset(i + 1)
<1>3. a \in Nat /\ b \in Nat /\ b = a + Size(i) /\ Size(i) \in Nat
  BY <1>1
<1> HIDE DEF a, b
<1>4. (Size(i) = 0) <=> (a + 1 .. b = {})
  <2>1. Size(i) # 0 => b \in a + 1 .. b
    BY <1>3
  <2>2. Size(i) = 0 => \A x \in a + 1 .. b : FALSE
    BY <1>3
  <2> QED
    BY <2>1, <2>2
<1>5. Size(i) # 0 => a + 1 .. b \in Stretches
  <2>1. Size(i) # 0 => a + 1 <= b
    BY <1>3
  <2> QED
    BY <1>3, <2>1, StretchEnds
<1>6. a + 1 .. b \subseteq Nat \ {0} /\ a <= b
  BY <1>3
<1> QED
  BY <1>1, <1>2, <1>4, <1>5, <1>6 DEF a, b, Blank

(* Every number up to an offset is a token of a line before it.            *)
LEMMA LineOf ==
    ASSUME Written, NEW a \in 1..Len(text) + 1, NEW b \in 1..Len(text) + 1,
           NEW t \in Offset(a) + 1 .. Offset(b)
    PROVE  \E i \in a..b - 1 : i \in 1..Len(text) /\ t \in Tokens(i)
<1> DEFINE n == Len(text)
           S == {i \in 1..n + 1 : t <= Offset(i)}
<1>1. n \in Nat /\ Offset(a) \in Nat /\ Offset(b) \in Nat
  BY LinesTyped, OffsetsGrow
<1>2. t \in Nat /\ Offset(a) < t /\ t <= Offset(b)
  BY <1>1
<1>3. S \in SUBSET Nat /\ b \in S
  BY <1>1, <1>2
<1>4. PICK m \in S : \A j \in S : m <= j
  <2> HIDE DEF S
  <2> QED
    BY <1>3, Least
<1>5. m \in 1..n + 1 /\ t <= Offset(m) /\ m <= b /\ Offset(m) \in Nat
  BY <1>3, <1>4, OffsetsGrow
<1>6. a < m
  <2>1. m <= a => Offset(m) <= Offset(a)
    BY <1>5, OffsetsGrow
  <2>2. Offset(m) <= Offset(a) => FALSE
    BY <1>1, <1>2, <1>5
  <2> QED
    BY <1>1, <1>5, <2>1, <2>2
<1>7. m - 1 \in 1..n /\ m - 1 \in a..b - 1 /\ m - 1 \in 1..n + 1 /\ m - 1 + 1 = m /\ ~(m <= m - 1)
  BY <1>1, <1>5, <1>6
<1>8. ~(t <= Offset(m - 1)) /\ Offset(m - 1) \in Nat
  BY <1>4, <1>7, OffsetsGrow
<1>9. Tokens(m - 1) = Offset(m - 1) + 1 .. Offset(m)
  BY <1>7, TokensAre
<1>10. t \in Offset(m - 1) + 1 .. Offset(m)
  <2> DEFINE x == Offset(m - 1)  y == Offset(m)
  <2>1. x \in Nat /\ y \in Nat /\ ~(t <= x) /\ t <= y /\ t \in Nat
    BY <1>2, <1>5, <1>8
  <2> HIDE DEF x, y
  <2>2. t \in x + 1 .. y
    BY <2>1
  <2> QED
    BY <2>2 DEF x, y
<1> QED
  BY <1>7, <1>9, <1>10

(* Later lines have greater tokens.                                         *)
LEMMA TokensOrdered ==
    ASSUME Written, NEW i \in 1..Len(text), NEW j \in 1..Len(text), i < j,
           NEW t \in Tokens(i), NEW u \in Tokens(j)
    PROVE  t < u
<1> DEFINE x == Offset(i + 1)  y == Offset(j)
<1>1. Len(text) \in Nat
  BY LinesTyped
<1>2. i + 1 \in 1..Len(text) + 1 /\ j \in 1..Len(text) + 1 /\ i + 1 <= j
  BY <1>1
<1>3. x \in Nat /\ y \in Nat /\ x <= y
  BY <1>2, OffsetsGrow
<1>4. t \in Offset(i) + 1 .. x /\ u \in y + 1 .. Offset(j + 1)
      /\ Offset(i) \in Nat /\ Offset(j + 1) \in Nat
  BY TokensAre
<1> HIDE DEF x, y
<1>5. t <= x /\ y < u /\ t \in Int /\ u \in Int
  BY <1>3, <1>4
<1> QED
  BY <1>3, <1>5

LEMMA TokensApart ==
    ASSUME Written, NEW i \in 1..Len(text), NEW j \in 1..Len(text),
           NEW t \in Tokens(i), t \in Tokens(j)
    PROVE  i = j
<1>1. t \in Nat /\ ~(t < t)
  BY TokensAre
<1>2. ~(i < j) /\ ~(j < i)
  BY <1>1, TokensOrdered
<1>3. i \in Int /\ j \in Int
  BY LinesTyped
<1> QED
  BY <1>2, <1>3

(* The lines from a to b, but for those without a token, have all numbers  *)
(* between their offsets.                                                  *)
LEMMA LinesInARow ==
    ASSUME Written, NEW a \in 1..Len(text) + 1, NEW b \in 1..Len(text) + 1,
           NEW ls \in SUBSET (a..b - 1),
           \A i \in a..b - 1 : i \in ls \/ Size(i) = 0
    PROVE  TokensOf(ls) = Offset(a) + 1 .. Offset(b)
<1>1. Len(text) \in Nat
  BY LinesTyped
<1>2. ASSUME NEW t \in TokensOf(ls) PROVE t \in Offset(a) + 1 .. Offset(b)
  <2>1. PICK i \in ls : t \in Tokens(i)
    BY <1>2 DEF TokensOf
  <2>2. i \in 1..Len(text) /\ i \in 1..Len(text) + 1 /\ i + 1 \in 1..Len(text) + 1 /\ a <= i /\ i + 1 <= b
    BY <1>1, <2>1
  <2> DEFINE v == Offset(a)  w == Offset(i)  x == Offset(i + 1)  y == Offset(b)
  <2>3. v <= w /\ x <= y /\ v \in Nat /\ w \in Nat /\ x \in Nat /\ y \in Nat
    BY <2>2, OffsetsGrow
  <2>4. t \in w + 1 .. x
    BY <2>1, <2>2, TokensAre
  <2> HIDE DEF v, w, x, y
  <2>5. t \in v + 1 .. y
    BY <2>3, <2>4
  <2> QED
    BY <2>5 DEF v, y
<1>3. ASSUME NEW t \in Offset(a) + 1 .. Offset(b) PROVE t \in TokensOf(ls)
  <2>1. PICK i \in a..b - 1 : i \in 1..Len(text) /\ t \in Tokens(i)
    BY <1>3, LineOf
  <2>2. Size(i) # 0
    BY <2>1, TokensAre DEF Blank
  <2> QED
    BY <2>1, <2>2 DEF TokensOf
<1> QED
  BY <1>2, <1>3
-----------------------------------------------------------------------------
(* Paragraphs *)

TextIn(a, b) == {i \in a..b : text[i].kind = "text"}
Clear(a, b) == \A i \in a..b : text[i].kind # "heading"

(* The text between two headings has all numbers between two offsets.       *)
LEMMA BodyIsStretch ==
    ASSUME Written, NEW a \in 1..Len(text) + 1, NEW b \in 0..Len(text), Clear(a, b)
    PROVE  /\ TextIn(a, b) \subseteq 1..Len(text)
           /\ TokensOf(TextIn(a, b)) = Offset(a) + 1 .. Offset(b + 1)
<1>1. Len(text) \in Nat
  BY LinesTyped
<1>2. b + 1 \in 1..Len(text) + 1 /\ b + 1 - 1 = b /\ a..b \subseteq 1..Len(text)
  BY <1>1
<1>3. TextIn(a, b) \in SUBSET (a..b)
  BY DEF TextIn
<1>4. \A i \in a..b : i \in TextIn(a, b) \/ Size(i) = 0
  BY <1>2, LinesTyped DEF TextIn, Clear
<1> QED
  BY <1>2, <1>3, <1>4, LinesInARow

(* A text is divided where no stretch of it is in two parts, and no line.   *)
Divided(P, ls) ==
    /\ P \subseteq Stretches
    /\ \A p, q \in P : p = q \/ p \cap q = {}
    /\ UNION P = TokensOf(ls)
    /\ \A i \in ls : Blank(i) \/ \E p \in P : Tokens(i) \subseteq p

LEMMA GroupsDivide ==
    ASSUME Written, NEW ls \in SUBSET (1..Len(text)), NEW G,
           \A g \in G : g \subseteq Spoken(ls) /\ TokensOf(g) \in Stretches,
           \A g, h \in G : g = h \/ g \cap h = {},
           \A i \in Spoken(ls) : \E g \in G : i \in g
    PROVE  Divided({TokensOf(g) : g \in G}, ls)
<1> DEFINE P == {TokensOf(g) : g \in G}
<1>1. P \subseteq Stretches
  OBVIOUS
<1>2. Spoken(ls) \subseteq ls
  BY DEF Spoken
<1>3. ASSUME NEW g \in G, NEW h \in G PROVE TokensOf(g) = TokensOf(h) \/ TokensOf(g) \cap TokensOf(h) = {}
  <2>1. ASSUME NEW t \in TokensOf(g), t \in TokensOf(h) PROVE g = h
    <3>1. PICK i \in g : t \in Tokens(i)
      BY <2>1 DEF TokensOf
    <3>2. PICK j \in h : t \in Tokens(j)
      BY <2>1 DEF TokensOf
    <3>3. i \in 1..Len(text) /\ j \in 1..Len(text)
      BY <1>2
    <3>4. i = j
      BY <3>1, <3>2, <3>3, TokensApart
    <3> QED
      BY <3>4
  <2> QED
    BY <2>1
<1>4. ASSUME NEW t \in TokensOf(ls) PROVE t \in UNION P
  <2>1. PICK i \in ls : t \in Tokens(i)
    BY <1>4 DEF TokensOf
  <2>2. i \in Spoken(ls)
    <3>1. i \in 1..Len(text) /\ Tokens(i) # {}
      BY <2>1
    <3> QED
      BY <3>1, TokensAre DEF Spoken
  <2>3. PICK g \in G : i \in g
    BY <2>2
  <2> QED
    BY <2>1, <2>3 DEF TokensOf
<1>5. ASSUME NEW g \in G PROVE TokensOf(g) \subseteq TokensOf(ls)
  <2>1. g \subseteq ls
    BY <1>2
  <2> QED
    BY <2>1 DEF TokensOf
<1>6. ASSUME NEW i \in ls, ~Blank(i) PROVE \E p \in P : Tokens(i) \subseteq p
  <2>1. PICK g \in G : i \in g
    BY <1>6 DEF Spoken
  <2>2. Tokens(i) \subseteq TokensOf(g)
    BY <2>1 DEF TokensOf
  <2> QED
    BY <2>2
<1> QED
  BY <1>1, <1>3, <1>4, <1>5, <1>6 DEF Divided

LEMMA LinesDivide ==
    ASSUME Written, NEW ls \in SUBSET (1..Len(text))
    PROVE  Divided({TokensOf(g) : g \in ByLine(ls)}, ls)
<1>1. ASSUME NEW i \in Spoken(ls) PROVE TokensOf({i}) \in Stretches
  <2>1. TokensOf({i}) = Tokens(i)
    BY DEF TokensOf
  <2> QED
    BY <2>1, TokensAre DEF Spoken
<1>2. \A g \in ByLine(ls) : g \subseteq Spoken(ls) /\ TokensOf(g) \in Stretches
  BY <1>1 DEF ByLine
<1>3. \A g, h \in ByLine(ls) : g = h \/ g \cap h = {}
  BY DEF ByLine
<1>4. \A i \in Spoken(ls) : \E g \in ByLine(ls) : i \in g
  BY DEF ByLine
<1> QED
  BY <1>2, <1>3, <1>4, GroupsDivide

(* What stands together: a blank line is between all of it or none.         *)
LEMMA TogetherTells ==
    ASSUME NEW ls \in SUBSET Nat, NEW i \in Spoken(ls)
    PROVE  /\ Together(ls, i) \subseteq Spoken(ls) /\ i \in Together(ls, i)
           /\ \A j \in Together(ls, i) : Together(ls, j) = Together(ls, i)
           /\ \A j, m \in Together(ls, i), k \in ls : j <= k /\ k <= m => k \in Together(ls, i)
<1>1. i \in ls /\ ~Blank(i) /\ i \in Nat
  BY DEF Spoken
<1>2. \A j, k, x \in Nat : x \in j..k => ~(x < j) /\ ~(k < x)
  OBVIOUS
<1>3. \A x, y \in Nat : x \in x..y \cup y..x
  OBVIOUS
<1>4. Together(ls, i) \subseteq Spoken(ls) /\ i \in Together(ls, i)
  <2>1. \A k \in ls : k \in i..i \cup i..i => k = i
    BY <1>1
  <2>2. i \in Together(ls, i)
    BY <1>1, <2>1 DEF Together
  <2>3. ASSUME NEW j \in Together(ls, i) PROVE j \in Spoken(ls)
    <3>1. j \in ls /\ j \in i..j \cup j..i
      BY <1>1 DEF Together
    <3> QED
      BY <3>1 DEF Together, Spoken
  <2> QED
    BY <2>2, <2>3
<1>5. ASSUME NEW j \in ls, NEW k \in ls, NEW l \in ls, j \in Together(ls, l), k \in Together(ls, j)
      PROVE  k \in Together(ls, l)
  <2>1. ASSUME NEW x \in ls, x \in l..k \cup k..l PROVE ~Blank(x)
    <3>1. x \in l..j \cup j..l \/ x \in j..k \cup k..j
      BY <2>1
    <3> QED
      BY <1>5, <3>1 DEF Together
  <2> QED
    BY <2>1 DEF Together
<1>6. ASSUME NEW j \in ls, NEW k \in ls, k \in Together(ls, j) PROVE j \in Together(ls, k)
  BY <1>6 DEF Together
<1>7. ASSUME NEW j \in Together(ls, i) PROVE Together(ls, j) = Together(ls, i)
  <2>1. j \in ls /\ Together(ls, j) \subseteq ls /\ Together(ls, i) \subseteq ls
    BY DEF Together
  <2>2. i \in Together(ls, j)
    BY <1>1, <1>6, <2>1
  <2> QED
    BY <1>1, <1>5, <2>1, <2>2
<1>8. ASSUME NEW j \in Together(ls, i), NEW m \in Together(ls, i), NEW k \in ls, j <= k, k <= m
      PROVE  k \in Together(ls, i)
  <2>1. j \in ls /\ m \in ls
    BY DEF Together
  <2>2. ASSUME NEW x \in ls, x \in i..k \cup k..i PROVE ~Blank(x)
    <3>1. x \in i..m \cup m..i \/ x \in i..j \cup j..i
      BY <1>1, <1>8, <2>1, <2>2
    <3> QED
      BY <3>1 DEF Together
  <2> QED
    BY <2>2 DEF Together
<1> QED
  BY <1>4, <1>7, <1>8

(* ... so that its lines and the page marks between them are in a row.      *)
LEMMA GroupsAreStretches ==
    ASSUME Written, NEW a \in 1..Len(text) + 1, NEW b \in 0..Len(text), Clear(a, b)
    PROVE  Divided({TokensOf(g) : g \in Groups(TextIn(a, b))}, TextIn(a, b))
<1> DEFINE ls == TextIn(a, b)
           n == Len(text)
<1>1. n \in Nat /\ ls \in SUBSET (1..n) /\ ls \in SUBSET Nat
  BY LinesTyped, BodyIsStretch
<1>2. ASSUME NEW i \in Spoken(ls) PROVE TokensOf(Together(ls, i)) \in Stretches
  <2> DEFINE g == Together(ls, i)
  <2>1. /\ g \subseteq Spoken(ls) /\ i \in g /\ g \subseteq ls
        /\ \A j, m \in g, k \in ls : j <= k /\ k <= m => k \in g
    <3> HIDE DEF ls
    <3> QED
      BY <1>1, TogetherTells DEF Spoken
  <2>2. i \in 1..n /\ ~Blank(i) /\ g \in SUBSET Nat /\ g \in SUBSET (0..n)
    <3> HIDE DEF ls, g
    <3> QED
      BY <1>1, <2>1 DEF Spoken
  <2>3. PICK x \in g : \A j \in g : x <= j
    <3> HIDE DEF g
    <3> QED
      BY <2>1, <2>2, Least
  <2>4. PICK y \in g : \A j \in g : j <= y
    <3> HIDE DEF g
    <3> QED
      BY <1>1, <2>1, <2>2, Greatest
  <2>5. x \in ls /\ y \in ls /\ x \in 1..n /\ y \in 1..n /\ x <= i /\ i <= y /\ x \in a..b /\ y \in a..b
    BY <1>1, <2>1, <2>3, <2>4 DEF TextIn
  <2>6. g \in SUBSET (x..y)
    <3>1. \A j \in g : j \in Nat /\ x <= j /\ j <= y
      BY <2>2, <2>3, <2>4
    <3> HIDE DEF g
    <3> QED
      BY <2>5, <3>1
  <2>7. ASSUME NEW k \in x..y PROVE k \in g \/ Size(k) = 0
    <3>1. k \in a..b /\ k \in 1..n
      BY <1>1, <2>5
    <3>2. CASE k \in ls
      BY <2>1, <2>7, <3>2
    <3>3. CASE k \notin ls
      <4>1. text[k].kind # "text" /\ text[k].kind # "heading"
        BY <3>1, <3>3 DEF TextIn, Clear
      <4> QED
        BY <3>1, <4>1, LinesTyped
    <3> QED
      BY <3>2, <3>3
  <2>8. TokensOf(g) = Offset(x) + 1 .. Offset(y + 1)
    <3>1. x \in 1..n + 1 /\ y + 1 \in 1..n + 1 /\ y + 1 - 1 = y
      BY <1>1, <2>5
    <3> HIDE DEF g
    <3> QED
      BY <2>6, <2>7, <3>1, LinesInARow
  <2>9. TokensOf(g) # {}
    <3>1. Tokens(i) # {}
      BY <2>2, TokensAre
    <3> QED
      BY <2>1, <3>1 DEF TokensOf
  <2>10. Offset(x) \in Nat /\ Offset(y + 1) \in Nat
    BY <2>5, TokensAre
  <2> HIDE DEF g
  <2>11. Offset(x) + 1 \in Nat \ {0}
    BY <2>10
  <2> QED
    BY <2>8, <2>9, <2>10, <2>11 DEF Stretches, g
<1> HIDE DEF ls
<1>3. ASSUME NEW g \in Groups(ls) PROVE g \subseteq Spoken(ls) /\ TokensOf(g) \in Stretches
  <2>1. PICK i \in Spoken(ls) : g = Together(ls, i)
    BY DEF Groups
  <2>2. Together(ls, i) \subseteq Spoken(ls)
    BY <1>1, TogetherTells
  <2> QED
    BY <1>2, <2>1, <2>2
<1>4. ASSUME NEW g \in Groups(ls), NEW h \in Groups(ls), NEW j \in g, j \in h PROVE g = h
  <2>1. PICK i \in Spoken(ls) : g = Together(ls, i)
    BY DEF Groups
  <2>2. PICK k \in Spoken(ls) : h = Together(ls, k)
    BY DEF Groups
  <2>3. Together(ls, j) = g /\ Together(ls, j) = h
    BY <1>1, <1>4, <2>1, <2>2, TogetherTells
  <2> QED
    BY <2>3
<1>5. \A i \in Spoken(ls) : \E g \in Groups(ls) : i \in g
  BY <1>1, TogetherTells DEF Groups
<1>6. Divided({TokensOf(g) : g \in Groups(ls)}, ls)
  BY <1>1, <1>3, <1>4, <1>5, GroupsDivide
<1> QED
  BY <1>6 DEF ls

LEMMA ParagraphsDivide ==
    ASSUME Written, NEW a \in 1..Len(text) + 1, NEW b \in 0..Len(text), Clear(a, b)
    PROVE  Divided(Paragraphs(TextIn(a, b)), TextIn(a, b))
<1>1. TextIn(a, b) \in SUBSET (1..Len(text))
  BY BodyIsStretch
<1> QED
  BY <1>1, LinesDivide, GroupsAreStretches DEF Paragraphs

-----------------------------------------------------------------------------
(* The first paragraph, and the last ones                                   *)

Apart(P) == \A p, q \in P : p = q \/ p \cap q = {}

(* The first paragraph begins where what is left does.                      *)
LEMMA FirstIs ==
    ASSUME NEW P \in SUBSET Stretches, Apart(P), P # {},
           NEW m \in Nat, NEW e \in Nat, UNION P = m + 1 .. e
    PROVE  /\ First(P) \in P /\ Min(First(P)) = m + 1 /\ Max(First(P)) \in m + 1 .. e
           /\ UNION (P \ {First(P)}) = Max(First(P)) + 1 .. e
<1> DEFINE S == {Min(p) : p \in P}
           p == First(P)
<1>1. S \in SUBSET Nat
  BY StretchTells
<1>2. PICK q \in P : \A o \in P : Min(q) <= Min(o)
  <2>1. PICK o \in P : TRUE
    OBVIOUS
  <2>2. Min(o) \in S
    OBVIOUS
  <2>3. PICK s \in S : \A x \in S : s <= x
    <3> HIDE DEF S
    <3> QED
      BY <1>1, <2>2, Least
  <2> QED
    BY <2>3
<1>3. p \in P /\ \A o \in P : Min(p) <= Min(o)
  BY <1>2 DEF First
<1>4. /\ Min(p) \in Nat /\ Max(p) \in Nat /\ p = Min(p)..Max(p) /\ Min(p) \in p /\ Max(p) \in p
  BY <1>3, StretchTells
<1>5. Min(p) \in m + 1 .. e /\ Max(p) \in m + 1 .. e
  BY <1>3, <1>4
<1>6. Min(p) = m + 1
  <2>1. m + 1 \in m + 1 .. e
    BY <1>5
  <2>2. PICK o \in P : m + 1 \in o
    BY <2>1
  <2>3. o = Min(o)..Max(o) /\ Min(o) \in Nat /\ Max(o) \in Nat
    BY StretchTells
  <2>4. Min(o) <= m + 1
    BY <2>2, <2>3
  <2> QED
    BY <1>3, <1>4, <1>5, <2>3, <2>4
<1> HIDE DEF p
<1>7. ASSUME NEW o \in P \ {p}, NEW t \in o PROVE t \in Max(p) + 1 .. e
  <2>1. t \in m + 1 .. e /\ t \notin p
    BY <1>3 DEF Apart
  <2> QED
    BY <1>4, <1>6, <2>1
<1>8. ASSUME NEW t \in Max(p) + 1 .. e PROVE t \in UNION (P \ {p})
  <2>1. t \in m + 1 .. e /\ t \notin p
    BY <1>4, <1>5
  <2>2. PICK o \in P : t \in o
    BY <2>1
  <2> QED
    BY <2>1, <2>2
<1> QED
  BY <1>3, <1>5, <1>6, <1>7, <1>8 DEF p

(* What a piece repeats is its end, shorter than a paragraph and an         *)
(* overlap, or a single paragraph.                                          *)
LEMMA TailIs ==
    ASSUME ChunkerAssumption, NEW P \in SUBSET Stretches, Apart(P), P # {},
           \A p \in P : Cardinality(p) <= MaxTokens,
           NEW f \in Nat, NEW m \in Nat, UNION P = f + 1 .. m
    PROVE  \E g \in Nat : /\ f <= g /\ g <= m /\ UNION TailOf(P) = g + 1 .. m
                          /\ m - g < MaxTokens + OverlapTokens \/ m - g <= MaxTokens
<1> DEFINE T == TailOf(P)
           S == {Min(p) : p \in T}
<1>0. MaxTokens \in Nat /\ OverlapTokens \in Nat
  BY DEF ChunkerAssumption
<1>1. T \subseteq P
  BY DEF TailOf
<1>2. ASSUME NEW p \in P, NEW q \in P, NEW t \in q, Max(p) < t PROVE q \in After(P, p)
  <2>1. /\ Min(p) \in Nat /\ Max(p) \in Nat /\ Min(p) <= Max(p) /\ p = Min(p)..Max(p)
        /\ Min(q) \in Nat /\ Max(q) \in Nat /\ Min(q) <= Max(q) /\ q = Min(q)..Max(q)
    BY StretchTells
  <2>2. t \in Nat /\ Min(q) <= t /\ t <= Max(q)
    BY <2>1
  <2>3. p # q
    BY <1>2, <2>1, <2>2
  <2>4. p \cap q = {}
    BY <2>3 DEF Apart
  <2>5. Max(p) < Min(q) \/ Max(q) < Min(p)
    BY <2>4, StretchesApart
  <2>6. Min(p) < Min(q)
    BY <1>2, <2>1, <2>2, <2>5
  <2> QED
    BY <2>6 DEF After
<1>3. PICK l \in P : m \in l
  <2>1. PICK p \in P : TRUE
    OBVIOUS
  <2>2. Max(p) \in f + 1 .. m
    BY StretchTells
  <2>3. m \in f + 1 .. m
    BY <2>2
  <2> QED
    BY <2>3
<1>4. l \in T
  <2>1. ASSUME NEW q \in After(P, l) PROVE FALSE
    <3>1. q \in P /\ Min(l) < Min(q)
      BY <2>1 DEF After
    <3>2. /\ Min(l) \in Nat /\ Max(l) \in Nat /\ l = Min(l)..Max(l)
          /\ Min(q) \in Nat /\ Min(q) \in q
      BY <3>1, StretchTells
    <3>3. Min(q) \in f + 1 .. m
      BY <3>1, <3>2
    <3>4. Min(q) \in l
      BY <1>3, <3>1, <3>2, <3>3
    <3>5. l \cap q # {} /\ l # q
      BY <3>1, <3>2, <3>4
    <3> QED
      BY <3>1, <3>5 DEF Apart
  <2> QED
    BY <2>1 DEF TailOf
<1>5. PICK k \in T : \A q \in T : Min(k) <= Min(q)
  <2>1. S \in SUBSET Nat
    BY <1>1, StretchTells
  <2>2. Min(l) \in S
    BY <1>4
  <2>3. PICK s \in S : \A x \in S : s <= x
    <3> HIDE DEF S
    <3> QED
      BY <2>1, <2>2, Least
  <2> QED
    BY <2>3
<1> DEFINE a == Min(k)  z == Max(k)
<1>6. /\ k \in P /\ a \in Nat \ {0} /\ z \in Nat /\ a <= z /\ k = a..z /\ a \in k /\ z \in k
      /\ Cardinality(k) = z - a + 1
  BY <1>1, <1>5, StretchTells
<1>7. a \in f + 1 .. m /\ z \in f + 1 .. m
  BY <1>6
<1>8. ASSUME NEW q \in T, NEW t \in q PROVE t \in a..m
  <2>1. /\ q \in P /\ Min(q) \in Nat /\ Max(q) \in Nat /\ q = Min(q)..Max(q) /\ a <= Min(q)
    BY <1>1, <1>5, StretchTells
  <2>2. t \in f + 1 .. m
    BY <2>1
  <2> HIDE DEF a
  <2> QED
    BY <1>6, <2>1, <2>2
<1>9. ASSUME NEW p \in P, a <= Min(p) PROVE p \in T
  <2>1. After(P, p) \subseteq After(P, k)
    <3>1. ASSUME NEW q \in P, Min(p) < Min(q) PROVE a < Min(q)
      <4>1. Min(p) \in Nat /\ Min(q) \in Nat
        BY StretchTells
      <4> HIDE DEF a
      <4> QED
        BY <1>6, <1>9, <3>1, <4>1
    <3> QED
      BY <3>1 DEF After
  <2>2. CASE After(P, k) = {}
    BY <2>1, <2>2 DEF TailOf
  <2>3. CASE SizeOf(After(P, k)) < OverlapTokens
    <3>1. UNION After(P, k) \subseteq f + 1 .. m /\ UNION After(P, p) \subseteq UNION After(P, k)
      BY <2>1 DEF After
    <3>2. IsFiniteSet(f + 1 .. m)
      BY FS_Interval
    <3>3. IsFiniteSet(UNION After(P, k))
      BY <3>1, <3>2, FS_Subset
    <3>4. /\ IsFiniteSet(UNION After(P, p))
          /\ Cardinality(UNION After(P, p)) <= Cardinality(UNION After(P, k))
      BY <3>1, <3>3, FS_Subset
    <3>5. Cardinality(UNION After(P, p)) \in Nat /\ Cardinality(UNION After(P, k)) \in Nat
      BY <3>3, <3>4, FS_CardinalityType
    <3>6. SizeOf(After(P, p)) < OverlapTokens
      BY <1>0, <2>3, <3>4, <3>5 DEF SizeOf
    <3> QED
      BY <3>6 DEF TailOf
  <2> QED
    BY <1>5, <2>2, <2>3 DEF TailOf
<1>10. ASSUME NEW t \in a..m PROVE t \in UNION T
  <2>1. t \in f + 1 .. m
    BY <1>6, <1>7
  <2>2. PICK p \in P : t \in p
    BY <2>1
  <2>3. CASE t \in k
    BY <1>5, <2>3
  <2>4. CASE t \notin k
    <3>1. z < t /\ t \in Nat
      BY <1>6, <2>1, <2>4
    <3>2. p \in After(P, k)
      BY <1>2, <1>6, <2>2, <3>1
    <3>3. a < Min(p) /\ Min(p) \in Nat
      BY <3>2, StretchTells DEF After
    <3>4. a <= Min(p)
      <4> HIDE DEF a
      <4> QED
        BY <1>6, <3>3
    <3> QED
      BY <1>9, <2>2, <3>4
  <2> QED
    BY <2>3, <2>4
<1>11. UNION T = a - 1 + 1 .. m
  <2>1. a - 1 + 1 = a
    BY <1>6
  <2> QED
    BY <1>8, <1>10, <2>1
<1>12. m - (a - 1) < MaxTokens + OverlapTokens \/ m - (a - 1) <= MaxTokens
  <2>1. z - a + 1 <= MaxTokens
    BY <1>6
  <2>2. ASSUME NEW t \in z + 1 .. m PROVE t \in UNION After(P, k)
    <3>1. t \in f + 1 .. m /\ z < t
      BY <1>6, <1>7
    <3>2. PICK p \in P : t \in p
      BY <3>1
    <3> QED
      BY <1>2, <1>6, <3>1, <3>2
  <2>3. CASE After(P, k) = {}
    <3>1. m <= z
      <4>1. z < m => m \in z + 1 .. m
        BY <1>6
      <4>2. ~(z < m)
        BY <2>2, <2>3, <4>1
      <4> HIDE DEF z
      <4> QED
        BY <1>6, <4>2
    <3> HIDE DEF a, z
    <3> QED
      BY <1>0, <1>6, <2>1, <3>1
  <2>4. CASE SizeOf(After(P, k)) < OverlapTokens
    <3>1. UNION After(P, k) \subseteq f + 1 .. m
      BY DEF After
    <3>2. IsFiniteSet(f + 1 .. m) /\ Cardinality(z + 1 .. m) = IF z + 1 > m THEN 0 ELSE m - (z + 1) + 1
      <4>1. z + 1 \in Int /\ m \in Int /\ f + 1 \in Int
        BY <1>6
      <4> HIDE DEF z
      <4> QED
        BY <4>1, FS_Interval
    <3>3. IsFiniteSet(UNION After(P, k))
      BY <3>1, <3>2, FS_Subset
    <3>4. z + 1 .. m \subseteq UNION After(P, k)
      BY <2>2
    <3>5. Cardinality(z + 1 .. m) <= Cardinality(UNION After(P, k))
      BY <3>3, <3>4, FS_Subset
    <3>6. Cardinality(UNION After(P, k)) \in Nat
      BY <3>3, FS_CardinalityType
    <3> DEFINE c == Cardinality(UNION After(P, k))  d == Cardinality(z + 1 .. m)
    <3>7. c \in Nat /\ d <= c /\ c < OverlapTokens /\ d = IF z + 1 > m THEN 0 ELSE m - (z + 1) + 1
      BY <2>4, <3>2, <3>5, <3>6 DEF SizeOf
    <3> HIDE DEF c, d, a, z
    <3>8. m - z < OverlapTokens
      BY <1>0, <1>6, <3>7
    <3> QED
      BY <1>0, <1>6, <2>1, <3>8
  <2> QED
    BY <1>5, <2>3, <2>4 DEF TailOf
<1> DEFINE g == a - 1
<1>13. g \in Nat /\ f <= g /\ g <= m
  BY <1>6, <1>7
<1> QED
  BY <1>11, <1>12, <1>13

-----------------------------------------------------------------------------
(* Windows over a long paragraph *)

Starts(a, k) == a + (k - 1) * Step

LEMMA StepIs == ASSUME ChunkerAssumption
    PROVE  /\ MaxTokens \in Nat /\ OverlapTokens \in Nat /\ Step \in Nat \ {0}
           /\ Step + OverlapTokens = MaxTokens /\ Step <= MaxTokens
BY DEF ChunkerAssumption, Step

LEMMA StartsGrow ==
    ASSUME ChunkerAssumption, NEW a \in Nat
    PROVE  /\ Starts(a, 1) = a
           /\ \A k \in Nat \ {0} : /\ Starts(a, k) \in Nat /\ a + k - 1 <= Starts(a, k)
                                   /\ Starts(a, k + 1) = Starts(a, k) + Step
           /\ \A j, k \in Nat \ {0} : j < k => Starts(a, j) + Step <= Starts(a, k)
<1> DEFINE s == Step
<1>0. s \in Nat \ {0}
  BY StepIs
<1> HIDE DEF s
<1>1. a + (1 - 1) * s = a
  BY <1>0
<1>2. ASSUME NEW k \in Nat \ {0}
      PROVE  /\ a + (k - 1) * s \in Nat /\ a + k - 1 <= a + (k - 1) * s
             /\ a + (k + 1 - 1) * s = a + (k - 1) * s + s
  <2>1. PICK i \in Nat : i = k - 1
    OBVIOUS
  <2>2. i * s \in Nat /\ (i + 1) * s = i * s + s
    BY <1>0
  <2>3. 1 * i <= s * i
    BY <1>0, TimesMore
  <2>4. 1 * i = i /\ s * i = i * s
    BY <1>0
  <2>5. (k - 1) * s = i * s /\ (k + 1 - 1) * s = (i + 1) * s
    <3>1. k - 1 = i /\ k + 1 - 1 = i + 1
      BY <2>1
    <3> QED
      BY <3>1
  <2> DEFINE x == i * s
  <2>6. x \in Nat /\ i <= x /\ (k - 1) * s = x /\ (k + 1 - 1) * s = x + s
    BY <2>2, <2>3, <2>4, <2>5
  <2> HIDE DEF x
  <2> QED
    BY <1>0, <2>1, <2>6
<1>3. ASSUME NEW j \in Nat \ {0}, NEW k \in Nat \ {0}, j < k
      PROVE  a + (j - 1) * s + s <= a + (k - 1) * s
  <2>1. PICK i \in Nat, l \in Nat : i = j - 1 /\ l = k - 1
    OBVIOUS
  <2>2. i + 1 <= l
    BY <1>3, <2>1
  <2>3. (i + 1) * s <= l * s
    BY <1>0, <2>2, TimesMore
  <2>4. (i + 1) * s = i * s + s /\ i * s \in Nat /\ l * s \in Nat
    BY <1>0
  <2> QED
    BY <1>0, <2>1, <2>3, <2>4
<1> QED
  BY <1>1, <1>2, <1>3 DEF Starts, s

(* The windows start at Starts and are full, but for the last.              *)
LEMMA WindowsAre ==
    ASSUME ChunkerAssumption, NEW p \in Stretches, Cardinality(p) > MaxTokens
    PROVE  /\ LastWindow(p) \in Nat \ {0}
           /\ \A k \in 1..LastWindow(p) - 1 :
                  /\ Window(p, k) = Starts(Min(p), k) .. Starts(Min(p), k) + MaxTokens - 1
                  /\ Starts(Min(p), k) + MaxTokens - 1 < Max(p)
           /\ Window(p, LastWindow(p)) = Starts(Min(p), LastWindow(p)) .. Max(p)
           /\ Starts(Min(p), LastWindow(p)) <= Max(p)
           /\ Max(p) <= Starts(Min(p), LastWindow(p)) + MaxTokens - 1
<1> DEFINE a == Min(p)  b == Max(p)  n == Cardinality(p)
           R == {k \in Nat \ {0} : b <= Starts(a, k) + MaxTokens - 1}
           K == {k \in 1..n : b \in Window(p, k)}
<1>0. /\ MaxTokens \in Nat /\ OverlapTokens \in Nat /\ Step \in Nat \ {0} /\ Step <= MaxTokens
  BY StepIs
<1>1. /\ a \in Nat \ {0} /\ b \in Nat /\ a <= b /\ p = a..b /\ n = b - a + 1 /\ n > MaxTokens
  BY StretchTells
<1>2. /\ Starts(a, 1) = a
      /\ \A k \in Nat \ {0} : /\ Starts(a, k) \in Nat /\ a + k - 1 <= Starts(a, k)
                              /\ Starts(a, k + 1) = Starts(a, k) + Step
      /\ \A j, k \in Nat \ {0} : j < k => Starts(a, j) + Step <= Starts(a, k)
  BY <1>1, StartsGrow
<1>3. \A k \in Nat : Window(p, k) = p \cap (Starts(a, k) .. Starts(a, k) + MaxTokens - 1)
  BY DEF Window, Starts
<1> HIDE DEF a, b, n
<1>4. n \in Nat \ {0} /\ n \in R
  <2>1. n \in Nat \ {0}
    BY <1>0, <1>1
  <2>2. a + n - 1 <= Starts(a, n) /\ Starts(a, n) \in Nat
    BY <1>2, <2>1
  <2>3. b <= Starts(a, n) + MaxTokens - 1
    BY <1>0, <1>1, <2>2
  <2> QED
    BY <2>1, <2>3
<1>5. PICK l \in R : \A k \in R : l <= k
  <2>1. R \in SUBSET Nat
    OBVIOUS
  <2> HIDE DEF R
  <2> QED
    BY <1>4, <2>1, Least
<1>6. /\ l \in Nat \ {0} /\ b <= Starts(a, l) + MaxTokens - 1 /\ l <= n /\ l \in 1..n
      /\ Starts(a, l) \in Nat
  BY <1>2, <1>4, <1>5
<1>7. ASSUME NEW k \in 1..l - 1
      PROVE  /\ k \in Nat \ {0} /\ Starts(a, k) \in Nat /\ Starts(a, k) + MaxTokens - 1 < b
             /\ a <= Starts(a, k)
  <2>1. k \in Nat \ {0} /\ ~(l <= k)
    BY <1>6
  <2>2. k \notin R
    BY <1>5, <2>1
  <2>3. Starts(a, k) \in Nat /\ a + k - 1 <= Starts(a, k)
    BY <1>2, <2>1
  <2>4. ~(b <= Starts(a, k) + MaxTokens - 1)
    BY <2>1, <2>2
  <2> QED
    BY <1>0, <1>1, <2>1, <2>3, <2>4
<1>8. a <= Starts(a, l) /\ Starts(a, l) <= b
  <2>1. a <= Starts(a, l)
    <3>1. a + l - 1 <= Starts(a, l)
      BY <1>2, <1>6
    <3> QED
      BY <1>1, <1>6, <3>1
  <2>2. CASE l = 1
    BY <1>1, <1>2, <2>1, <2>2
  <2>3. CASE l # 1
    <3>1. l - 1 \in 1..l - 1 /\ l - 1 \in Nat \ {0} /\ l - 1 + 1 = l
      BY <1>6, <2>3
    <3>2. Starts(a, l) = Starts(a, l - 1) + Step
      BY <1>2, <3>1
    <3>3. Starts(a, l - 1) + MaxTokens - 1 < b /\ Starts(a, l - 1) \in Nat
      BY <1>7, <3>1
    <3> QED
      BY <1>0, <1>1, <2>1, <3>2, <3>3
  <2> QED
    BY <2>2, <2>3
<1>9. Window(p, l) = Starts(a, l)..b
  <2> DEFINE s == Starts(a, l)
  <2>1. s \in Nat /\ a <= s /\ s <= b /\ b <= s + MaxTokens - 1
    BY <1>6, <1>8
  <2>2. Window(p, l) = (a..b) \cap (s .. s + MaxTokens - 1)
    BY <1>1, <1>3, <1>6
  <2> HIDE DEF s
  <2>3. (a..b) \cap (s .. s + MaxTokens - 1) = s..b
    BY <1>0, <1>1, <2>1
  <2> QED
    BY <2>2, <2>3 DEF s
<1>10. ASSUME NEW k \in 1..l - 1 PROVE Window(p, k) = Starts(a, k) .. Starts(a, k) + MaxTokens - 1
  <2> DEFINE s == Starts(a, k)
  <2>1. s \in Nat /\ a <= s /\ s + MaxTokens - 1 < b /\ k \in Nat
    BY <1>7
  <2>2. Window(p, k) = (a..b) \cap (s .. s + MaxTokens - 1)
    BY <1>1, <1>3, <2>1
  <2> HIDE DEF s
  <2>3. (a..b) \cap (s .. s + MaxTokens - 1) = s .. s + MaxTokens - 1
    BY <1>0, <1>1, <2>1
  <2> QED
    BY <2>2, <2>3 DEF s
<1>11. LastWindow(p) = l
  <2>1. l \in K
    BY <1>1, <1>6, <1>8, <1>9
  <2>2. ASSUME NEW k \in K PROVE l <= k
    <3>1. k \in 1..n /\ b \in Window(p, k)
      OBVIOUS
    <3>2. k \in Nat \ {0} /\ b \in Starts(a, k) .. Starts(a, k) + MaxTokens - 1
      BY <1>3, <1>4, <3>1
    <3>3. k \in R
      BY <1>0, <1>2, <3>2
    <3> QED
      BY <1>5, <3>3
  <2>3. K \in SUBSET Nat
    BY <1>4
  <2>4. LastWindow(p) = Min(K)
    BY DEF LastWindow, b, n
  <2> HIDE DEF K
  <2>5. \A x \in K : (\A y \in K : x <= y) <=> x = l
    BY <1>6, <2>1, <2>2, <2>3
  <2>6. Min(K) = l
    BY <2>1, <2>5 DEF Min
  <2> QED
    BY <2>4, <2>6
<1> QED
  BY <1>6, <1>7, <1>8, <1>9, <1>10, <1>11 DEF a, b
-----------------------------------------------------------------------------
(* Pieces *)

Bound == 2 * MaxTokens + Max({OverlapTokens, 1})

Pieces(ps) == {ps[k] : k \in 1..Len(ps)}
Grows(ps) == \A j, k \in 1..Len(ps) : j < k => Max(ps[j]) < Max(ps[k])

(* Pieces of a section whose tokens are S.                                  *)
Good(ps, S) ==
    /\ ps \in Seq(Stretches)
    /\ Grows(ps)
    /\ \A k \in 1..Len(ps) : ps[k] \subseteq S /\ Cardinality(ps[k]) < Bound

(* No stretch of a line is cut by all of them.                              *)
KeptIn(S, Ps) == \A t \in S : \E p \in Ps : S \cap (t .. t + OverlapTokens) \subseteq p

LEMMA BoundIs == ASSUME ChunkerAssumption
    PROVE  /\ Bound \in Nat /\ 2 * MaxTokens + OverlapTokens <= Bound /\ 2 * MaxTokens + 1 <= Bound
           /\ MaxTokens < Bound
<1>1. MaxTokens \in Nat /\ OverlapTokens \in Nat
  BY StepIs
<1> DEFINE m == Max({OverlapTokens, 1})
<1>2. m \in {OverlapTokens, 1} /\ OverlapTokens <= m /\ 1 <= m
  <2>1. CASE OverlapTokens <= 1
    <3>1. m = 1
      BY <1>1, <2>1, MaxIs
    <3> QED
      BY <2>1, <3>1
  <2>2. CASE ~(OverlapTokens <= 1)
    <3>1. m = OverlapTokens
      BY <1>1, <2>2, MaxIs
    <3> QED
      BY <1>1, <2>2, <3>1
  <2> QED
    BY <2>1, <2>2
<1>3. Bound = 2 * MaxTokens + m
  BY DEF Bound
<1> HIDE DEF m
<1> QED
  BY <1>1, <1>2, <1>3

(* A token that is not in the last window is in one that holds as much      *)
(* after it as the overlap.                                                 *)
LEMMA SlideIs ==
    ASSUME ChunkerAssumption, NEW p \in Stretches, Cardinality(p) > MaxTokens
    PROVE  /\ Good(Slide(p), p)
           /\ \A S \in SUBSET p : KeptIn(S, Pieces(Slide(p)))
<1> DEFINE a == Min(p)  b == Max(p)  l == LastWindow(p)
<1>0. /\ MaxTokens \in Nat \ {0} /\ OverlapTokens \in Nat /\ Step \in Nat \ {0}
      /\ Step + OverlapTokens = MaxTokens
  <2>1. /\ MaxTokens \in Nat /\ OverlapTokens \in Nat /\ Step \in Nat \ {0}
        /\ Step + OverlapTokens = MaxTokens
    BY StepIs
  <2> QED
    BY <2>1
<1>1. /\ a \in Nat \ {0} /\ b \in Nat /\ a <= b /\ p = a..b
  BY StretchTells
<1>2. /\ Starts(a, 1) = a
      /\ \A k \in Nat \ {0} : /\ Starts(a, k) \in Nat /\ a + k - 1 <= Starts(a, k)
                              /\ Starts(a, k + 1) = Starts(a, k) + Step
      /\ \A j, k \in Nat \ {0} : j < k => Starts(a, j) + Step <= Starts(a, k)
  BY <1>1, StartsGrow
<1>3. /\ l \in Nat \ {0}
      /\ \A k \in 1..l - 1 : /\ Window(p, k) = Starts(a, k) .. Starts(a, k) + MaxTokens - 1
                             /\ Starts(a, k) + MaxTokens - 1 < b
      /\ Window(p, l) = Starts(a, l) .. b
      /\ Starts(a, l) <= b
      /\ b <= Starts(a, l) + MaxTokens - 1
  BY WindowsAre
<1>4. Slide(p) = [k \in 1..l |-> Window(p, k)]
  BY DEF Slide
<1> HIDE DEF a, b, l
<1> DEFINE last(k) == IF k = l THEN b ELSE Starts(a, k) + MaxTokens - 1
<1>5. ASSUME NEW k \in 1..l
      PROVE  /\ Window(p, k) = Starts(a, k)..last(k) /\ Starts(a, k) \in Nat \ {0} /\ a <= Starts(a, k)
             /\ last(k) \in Nat /\ Starts(a, k) <= last(k) /\ last(k) <= Starts(a, k) + MaxTokens - 1
             /\ last(k) <= b
  <2>1. k = l \/ k \in 1..l - 1
    BY <1>3
  <2>2. k \in Nat \ {0}
    BY <1>3
  <2>3. Starts(a, k) \in Nat /\ a + k - 1 <= Starts(a, k)
    BY <1>2, <2>2
  <2>4. a <= Starts(a, k) /\ Starts(a, k) \in Nat \ {0}
    BY <1>1, <2>2, <2>3
  <2>5. CASE k = l
    BY <1>1, <1>3, <2>3, <2>4, <2>5
  <2>6. CASE k # l
    <3>1. k \in 1..l - 1
      BY <2>1, <2>6
    <3>2. Window(p, k) = Starts(a, k) .. Starts(a, k) + MaxTokens - 1 /\ Starts(a, k) + MaxTokens - 1 < b
      BY <1>3, <3>1
    <3> QED
      BY <1>0, <1>1, <2>4, <2>6, <3>2
  <2> QED
    BY <2>5, <2>6
<1>6. ASSUME NEW k \in 1..l
      PROVE  /\ Window(p, k) \in Stretches /\ Max(Window(p, k)) = last(k)
             /\ Window(p, k) \subseteq p /\ Cardinality(Window(p, k)) <= MaxTokens
  <2> DEFINE s == Starts(a, k)  e == last(k)
  <2>1. /\ Window(p, k) = s..e /\ s \in Nat \ {0} /\ e \in Nat /\ s <= e /\ a <= s
        /\ e <= b /\ e <= s + MaxTokens - 1
    BY <1>5
  <2> HIDE DEF s, e
  <2>2. s..e \in Stretches /\ Max(s..e) = e /\ Cardinality(s..e) = e - s + 1
    BY <2>1, StretchEnds
  <2>3. s..e \subseteq a..b
    BY <1>1, <2>1
  <2>4. e - s + 1 <= MaxTokens
    BY <1>0, <2>1
  <2> QED
    BY <1>1, <2>1, <2>2, <2>3, <2>4 DEF e
<1>7. ASSUME NEW j \in 1..l, NEW k \in 1..l, j < k PROVE last(j) < last(k)
  <2>1. j \in 1..l - 1 /\ j # l /\ j \in Nat \ {0} /\ k \in Nat \ {0}
    BY <1>3, <1>7
  <2>2. Starts(a, j) \in Nat /\ Starts(a, k) \in Nat /\ Starts(a, j) + Step <= Starts(a, k)
    BY <1>2, <1>7, <2>1
  <2>3. CASE k = l
    BY <1>3, <2>1, <2>3
  <2>4. CASE k # l
    BY <1>0, <2>1, <2>2, <2>4
  <2> QED
    BY <2>3, <2>4
<1>8. /\ Len(Slide(p)) = l /\ Slide(p) \in Seq(Stretches)
      /\ \A k \in 1..l : Slide(p)[k] = Window(p, k)
  <2>1. Slide(p) \in [1..l -> Stretches]
    BY <1>4, <1>6
  <2> QED
    BY <1>3, <1>4, <2>1
<1> HIDE DEF last
<1>9. Grows(Slide(p))
  BY <1>6, <1>7, <1>8 DEF Grows
<1>10. \A k \in 1..l : Cardinality(Window(p, k)) < Bound
  <2>1. ASSUME NEW k \in 1..l PROVE Cardinality(Window(p, k)) \in Nat
    BY <1>6, StretchTells
  <2> QED
    BY <1>0, <1>6, <2>1, BoundIs
<1>11. Good(Slide(p), p)
  BY <1>6, <1>8, <1>9, <1>10 DEF Good
<1>12. ASSUME NEW S \in SUBSET p, NEW t \in S
       PROVE  \E k \in 1..l : S \cap (t .. t + OverlapTokens) \subseteq Window(p, k)
  <2> DEFINE B == {k \in 1..l : Starts(a, k) <= t}
  <2>1. t \in Nat /\ a <= t /\ t <= b
    BY <1>1
  <2>2. 1 \in B /\ B \in SUBSET (0..l)
    <3>1. 1 \in 1..l /\ 1..l \subseteq 0..l
      BY <1>3
    <3> QED
      BY <1>2, <2>1, <3>1
  <2>3. PICK k \in B : \A j \in B : j <= k
    <3> HIDE DEF B
    <3> QED
      BY <1>3, <2>2, Greatest
  <2>4. k \in 1..l /\ Starts(a, k) <= t
    OBVIOUS
  <2> DEFINE s == Starts(a, k)  e == last(k)
  <2>5. Window(p, k) = s..e /\ s \in Nat /\ e \in Nat /\ s <= t
    BY <1>5, <2>4
  <2>6. e = b \/ t + OverlapTokens <= e
    <3>1. CASE k = l
      BY <3>1 DEF last
    <3>2. CASE k # l
      <4>1. k + 1 \in 1..l /\ k \in Nat \ {0} /\ ~(k + 1 <= k)
        BY <1>3, <2>4, <3>2
      <4>2. ~(Starts(a, k + 1) <= t)
        BY <2>3, <4>1
      <4>3. Starts(a, k + 1) = s + Step
        BY <1>2, <4>1
      <4>4. e = s + MaxTokens - 1
        BY <3>2 DEF last
      <4> HIDE DEF s, e
      <4>5. t < s + Step
        BY <1>0, <2>1, <2>5, <4>2, <4>3
      <4> QED
        BY <1>0, <2>1, <2>5, <4>4, <4>5
    <3> QED
      BY <3>1, <3>2
  <2>7. ASSUME NEW u \in S, u \in t .. t + OverlapTokens PROVE u \in s..e
    <3>1. u \in a..b
      BY <1>1
    <3> HIDE DEF s, e
    <3> QED
      BY <1>0, <1>1, <2>1, <2>5, <2>6, <2>7, <3>1
  <2> QED
    BY <2>4, <2>5, <2>7
<1>13. \A S \in SUBSET p : KeptIn(S, Pieces(Slide(p)))
  <2>1. \A k \in 1..l : Window(p, k) \in Pieces(Slide(p))
    BY <1>8 DEF Pieces
  <2> QED
    BY <1>12, <2>1 DEF KeptIn
<1> QED
  BY <1>11, <1>13

LEMMA GoodJoins ==
    ASSUME NEW S, NEW ps, NEW qs, Good(ps, S), Good(qs, S),
           \A x \in Pieces(ps), y \in Pieces(qs) : Max(x) < Max(y)
    PROVE  /\ Good(ps \o qs, S)
           /\ Pieces(ps \o qs) = Pieces(ps) \cup Pieces(qs)
<1> DEFINE m == Len(ps)  n == Len(qs)  rs == ps \o qs
<1>1. ps \in Seq(Stretches) /\ qs \in Seq(Stretches) /\ m \in Nat /\ n \in Nat
  BY DEF Good
<1>2. /\ rs \in Seq(Stretches) /\ Len(rs) = m + n
      /\ \A k \in 1..m + n : rs[k] = IF k <= m THEN ps[k] ELSE qs[k - m]
  BY <1>1, ConcatProperties
<1> HIDE DEF m, n, rs
<1>3. ASSUME NEW k \in 1..m + n
      PROVE  \/ k \in 1..m /\ rs[k] = ps[k]
             \/ k > m /\ k - m \in 1..n /\ rs[k] = qs[k - m]
  BY <1>1, <1>2
<1>4. ASSUME NEW k \in 1..m PROVE k \in 1..m + n /\ rs[k] = ps[k]
  BY <1>1, <1>2
<1>5. ASSUME NEW k \in 1..n PROVE m + k \in 1..m + n /\ rs[m + k] = qs[k]
  <2> DEFINE j == m + k
  <2>2. j \in 1..m + n /\ ~(j <= m) /\ j - m = k
    BY <1>1
  <2> HIDE DEF j
  <2>3. rs[j] = qs[k]
    BY <1>2, <2>2
  <2> QED
    BY <2>2, <2>3 DEF j
<1>6. \A k \in 1..m + n : rs[k] \subseteq S /\ Cardinality(rs[k]) < Bound
  BY <1>3 DEF Good, m, n
<1>7. ASSUME NEW j \in 1..m + n, NEW k \in 1..m + n, j < k PROVE Max(rs[j]) < Max(rs[k])
  <2>1. CASE k \in 1..m /\ rs[k] = ps[k]
    <3>1. j \in 1..m /\ rs[j] = ps[j]
      BY <1>1, <1>3, <1>7, <2>1
    <3> QED
      BY <1>7, <2>1, <3>1 DEF Good, Grows, m
  <2>2. CASE k > m /\ k - m \in 1..n /\ rs[k] = qs[k - m]
    <3>1. CASE j \in 1..m /\ rs[j] = ps[j]
      <4>1. rs[j] \in Pieces(ps) /\ rs[k] \in Pieces(qs)
        BY <2>2, <3>1 DEF Pieces, m, n
      <4> QED
        BY <4>1
    <3>2. CASE j > m /\ j - m \in 1..n /\ rs[j] = qs[j - m]
      <4>1. j - m < k - m
        BY <1>1, <1>7
      <4> QED
        BY <2>2, <3>2, <4>1 DEF Good, Grows, n
    <3> QED
      BY <1>3, <3>1, <3>2
  <2> QED
    BY <1>3, <2>1, <2>2
<1>8. Pieces(rs) = Pieces(ps) \cup Pieces(qs)
  <2>1. Pieces(rs) = {rs[k] : k \in 1..m + n} /\ Pieces(ps) = {ps[k] : k \in 1..m}
        /\ Pieces(qs) = {qs[k] : k \in 1..n}
    BY <1>2 DEF Pieces, m, n
  <2>2. ASSUME NEW x \in Pieces(rs) PROVE x \in Pieces(ps) \cup Pieces(qs)
    <3>1. PICK k \in 1..m + n : x = rs[k]
      BY <2>1
    <3> QED
      BY <1>3, <2>1, <3>1
  <2>3. ASSUME NEW x \in Pieces(ps) PROVE x \in Pieces(rs)
    <3>1. PICK k \in 1..m : x = ps[k]
      BY <2>1
    <3> QED
      BY <1>4, <2>1, <3>1
  <2>4. ASSUME NEW x \in Pieces(qs) PROVE x \in Pieces(rs)
    <3>1. PICK k \in 1..n : x = qs[k]
      BY <2>1
    <3> QED
      BY <1>5, <2>1, <3>1
  <2> QED
    BY <2>2, <2>3, <2>4
<1>9. Grows(rs)
  BY <1>2, <1>7 DEF Grows
<1>10. Good(rs, S)
  BY <1>2, <1>6, <1>9 DEF Good
<1> QED
  BY <1>8, <1>10 DEF rs

LEMMA OnePiece ==
    ASSUME NEW x \in Stretches, NEW S, x \subseteq S, Cardinality(x) < Bound
    PROVE  Good(<<x>>, S) /\ Pieces(<<x>>) = {x}
<1>1. <<x>> \in Seq(Stretches) /\ Len(<<x>>) = 1 /\ <<x>>[1] = x
  OBVIOUS
<1>2. \A k \in 1..1 : k = 1
  OBVIOUS
<1>3. 1 \in 1..1 /\ ~(1 < 1)
  OBVIOUS
<1>4. Grows(<<x>>)
  BY <1>1, <1>2, <1>3 DEF Grows
<1>5. Pieces(<<x>>) = {x}
  BY <1>1, <1>2, <1>3 DEF Pieces
<1> QED
  BY <1>1, <1>2, <1>4, <1>5 DEF Good

LEMMA NoPiece == ASSUME NEW S PROVE Good(<<>>, S) /\ Pieces(<<>>) = {}
<1>1. <<>> \in Seq(Stretches) /\ Len(<<>>) = 0 /\ \A k \in 1..0 : FALSE
  OBVIOUS
<1> QED
  BY <1>1 DEF Good, Grows, Pieces

(* A section that is being split: its lines ls have the tokens S, of which  *)
(* those up to f are in the pieces ps, those up to m in the paragraphs C of *)
(* the piece that grows, the others in the paragraphs P.                    *)
SplitAt(S, ls, ps, C, P, f, m, e) ==
    /\ f \in Nat /\ m \in Nat /\ e \in Nat /\ f <= m /\ m <= e /\ m - f < Bound
    /\ Good(ps, S)
    /\ C \subseteq Stretches /\ P \subseteq Stretches
    /\ Apart(C \cup P) /\ UNION (C \cup P) \subseteq S
    /\ UNION C = f + 1 .. m /\ UNION P = m + 1 .. e
    /\ \A p \in C : Cardinality(p) <= MaxTokens
    /\ \A x \in Pieces(ps) : Max(x) \in Nat /\ Max(x) <= m /\ (C # {} => Max(x) < m)
    /\ \A i \in ls : \/ KeptIn(Tokens(i), Pieces(ps))
                     \/ \E p \in C \cup P : Tokens(i) \subseteq p

(* The piece that grows is finished.                                        *)
LEMMA JoinedIs ==
    ASSUME ChunkerAssumption,
           NEW S, NEW ls, NEW ps, NEW C, NEW P, NEW f, NEW m, NEW e, SplitAt(S, ls, ps, C, P, f, m, e)
    PROVE  /\ Good(ps \o Joined(C), S)
           /\ \A x \in Pieces(ps \o Joined(C)) : Max(x) \in Nat /\ Max(x) <= m
           /\ \A i \in ls : \/ KeptIn(Tokens(i), Pieces(ps \o Joined(C)))
                            \/ \E p \in P : Tokens(i) \subseteq p
           /\ C = {} => f = m
           /\ C # {} => f < m /\ SizeOf(C) = m - f
<1>1. ps \in Seq(Stretches) /\ f \in Nat /\ m \in Nat /\ f <= m
  BY DEF SplitAt, Good
<1>2. CASE C = {}
  <2>1. ps \o Joined(C) = ps
    BY <1>1, <1>2, ConcatEmptySeq DEF Joined
  <2>2. f = m
    <3>1. f + 1 .. m = {}
      BY <1>2 DEF SplitAt
    <3>2. f < m => m \in f + 1 .. m
      BY <1>1
    <3> QED
      BY <1>1, <3>1, <3>2
  <2> QED
    BY <1>2, <2>1, <2>2 DEF SplitAt
<1>3. CASE C # {}
  <2> DEFINE x == UNION C
  <2>1. x = f + 1 .. m /\ x \subseteq S
    BY DEF SplitAt
  <2>2. f < m
    <3>1. PICK p \in C : TRUE
      BY <1>3
    <3>2. p # {} /\ p \subseteq f + 1 .. m
      BY StretchTells DEF SplitAt
    <3>3. ~(f < m) => \A t \in f + 1 .. m : FALSE
      BY <1>1
    <3> QED
      BY <3>2, <3>3
  <2>3. f + 1 .. m \in Stretches /\ Max(f + 1 .. m) = m /\ Cardinality(f + 1 .. m) = m - f
    <3>1. f + 1 \in Nat /\ f + 1 <= m /\ f + 1 > 0 /\ m - (f + 1) + 1 = m - f
      BY <1>1, <2>2
    <3> QED
      BY <1>1, <3>1, StretchEnds
  <2>4. Joined(C) = <<x>>
    BY <1>3 DEF Joined
  <2>5. Good(<<x>>, S) /\ Pieces(<<x>>) = {x}
    <3>1. x \in Stretches /\ Cardinality(x) < Bound
      BY <2>1, <2>3 DEF SplitAt
    <3> HIDE DEF x
    <3> QED
      BY <2>1, <3>1, OnePiece
  <2>6. \A y \in Pieces(ps) : Max(y) < Max(x)
    BY <1>3, <2>1, <2>3 DEF SplitAt
  <2>7. Good(ps \o <<x>>, S) /\ Pieces(ps \o <<x>>) = Pieces(ps) \cup {x}
    <3>1. Good(ps, S)
      BY DEF SplitAt
    <3> HIDE DEF x
    <3> DEFINE qs == <<x>>
    <3>2. Good(qs, S) /\ Pieces(qs) = {x}
      BY <2>5
    <3> HIDE DEF qs
    <3>3. \A y \in Pieces(ps), z \in Pieces(qs) : Max(y) < Max(z)
      BY <2>6, <3>2
    <3>4. Good(ps \o qs, S) /\ Pieces(ps \o qs) = Pieces(ps) \cup Pieces(qs)
      BY <3>1, <3>2, <3>3, GoodJoins
    <3> QED
      BY <3>2, <3>4 DEF qs
  <2>8. \A y \in Pieces(ps \o Joined(C)) : Max(y) \in Nat /\ Max(y) <= m
    <3>1. Max(x) = m /\ \A y \in Pieces(ps) : Max(y) \in Nat /\ Max(y) <= m
      BY <2>1, <2>3 DEF SplitAt
    <3>2. Pieces(ps \o Joined(C)) = Pieces(ps) \cup {x}
      BY <2>4, <2>7
    <3> HIDE DEF x
    <3> QED
      BY <1>1, <3>1, <3>2
  <2>9. ASSUME NEW i \in ls
        PROVE  \/ KeptIn(Tokens(i), Pieces(ps \o Joined(C)))
               \/ \E p \in P : Tokens(i) \subseteq p
    <3>1. CASE KeptIn(Tokens(i), Pieces(ps))
      BY <2>4, <2>7, <3>1 DEF KeptIn
    <3>2. CASE \E p \in C : Tokens(i) \subseteq p
      <4>1. Tokens(i) \subseteq x
        BY <3>2
      <4> HIDE DEF x
      <4>2. KeptIn(Tokens(i), Pieces(ps) \cup {x})
        BY <4>1 DEF KeptIn
      <4> QED
        BY <2>4, <2>7, <4>2
    <3> QED
      BY <3>1, <3>2 DEF SplitAt
  <2>10. SizeOf(C) = m - f
    BY <2>1, <2>3 DEF SizeOf
  <2> QED
    BY <1>3, <2>2, <2>4, <2>7, <2>8, <2>9, <2>10
<1> QED
  BY <1>2, <1>3

(* What the next paragraph is.                                              *)
LEMMA NextIs ==
    ASSUME NEW S, NEW ls, NEW ps, NEW C, NEW P, NEW f, NEW m, NEW e,
           SplitAt(S, ls, ps, C, P, f, m, e), P # {}
    PROVE  LET p == First(P) IN
           /\ p \in P /\ p \in Stretches /\ p \subseteq S /\ p = m + 1 .. Max(p)
           /\ Max(p) \in Nat /\ m < Max(p) /\ Max(p) <= e /\ Cardinality(p) = Max(p) - m
           /\ P \ {p} \subseteq Stretches /\ UNION (P \ {p}) = Max(p) + 1 .. e
<1> DEFINE p == First(P)
<1>1. P \in SUBSET Stretches /\ Apart(P) /\ m \in Nat /\ e \in Nat /\ UNION P = m + 1 .. e
  BY DEF SplitAt, Apart
<1>2. /\ p \in P /\ Min(p) = m + 1 /\ Max(p) \in m + 1 .. e
      /\ UNION (P \ {p}) = Max(p) + 1 .. e
  BY <1>1, FirstIs
<1> HIDE DEF p
<1>3. p \in Stretches /\ p \subseteq S
  BY <1>1, <1>2 DEF SplitAt
<1>4. p = Min(p)..Max(p) /\ Cardinality(p) = Max(p) - Min(p) + 1 /\ Max(p) \in Nat
  BY <1>3, StretchTells
<1>5. m < Max(p) /\ Max(p) <= e /\ Cardinality(p) = Max(p) - m
  BY <1>1, <1>2, <1>4
<1> QED
  BY <1>1, <1>2, <1>3, <1>4, <1>5 DEF p

(* A paragraph that fits into the piece ...                                 *)
LEMMA ParagraphTaken ==
    ASSUME ChunkerAssumption,
           NEW S, NEW ls, NEW ps, NEW C, NEW P, NEW f, NEW m, NEW e,
           SplitAt(S, ls, ps, C, P, f, m, e), P # {},
           SizeOf(C) + Cardinality(First(P)) <= MaxTokens
    PROVE  SplitAt(S, ls, ps, C \cup {First(P)}, P \ {First(P)}, f, Max(First(P)), e)
<1> DEFINE p == First(P)
<1>0. /\ MaxTokens \in Nat /\ MaxTokens < Bound /\ Bound \in Nat
  BY BoundIs, StepIs
<1>1. /\ p \in P /\ p \in Stretches /\ p \subseteq S /\ p = m + 1 .. Max(p)
      /\ Max(p) \in Nat /\ m < Max(p) /\ Max(p) <= e /\ Cardinality(p) = Max(p) - m
      /\ P \ {p} \subseteq Stretches /\ UNION (P \ {p}) = Max(p) + 1 .. e
  BY NextIs
<1>2. (C = {} => f = m) /\ (C # {} => f < m /\ SizeOf(C) = m - f)
  BY JoinedIs
<1>3. f \in Nat /\ m \in Nat /\ e \in Nat /\ f <= m
  BY DEF SplitAt
<1>4. SizeOf(C) = m - f
  <2>1. C = {} => SizeOf(C) = 0
    <3>1. UNION {} = {}
      OBVIOUS
    <3> QED
      BY <3>1, FS_EmptySet DEF SizeOf
  <2> QED
    BY <1>2, <1>3, <2>1
<1>5. Max(p) - f <= MaxTokens /\ Cardinality(p) <= MaxTokens
  BY <1>0, <1>1, <1>3, <1>4
<1> HIDE DEF p
<1>6. Max(p) - f < Bound /\ f <= Max(p)
  BY <1>0, <1>1, <1>3, <1>5
<1>7. UNION (C \cup {p}) = f + 1 .. Max(p)
  <2>1. UNION C = f + 1 .. m
    BY DEF SplitAt
  <2> DEFINE z == Max(p)
  <2>2. z \in Nat /\ m < z
    BY <1>1
  <2>3. p = m + 1 .. z
    BY <1>1
  <2> HIDE DEF z
  <2>4. (f + 1 .. m) \cup (m + 1 .. z) = f + 1 .. z
    BY <1>3, <2>2
  <2>5. UNION (C \cup {p}) = (f + 1 .. m) \cup (m + 1 .. z)
    BY <2>1, <2>3
  <2> QED
    BY <2>4, <2>5 DEF z
<1>8. (C \cup {p}) \cup (P \ {p}) = C \cup P
  BY <1>1
<1>9. \A x \in Pieces(ps) : Max(x) \in Nat /\ Max(x) < Max(p) /\ Max(x) <= Max(p)
  BY <1>1, <1>3 DEF SplitAt
<1>10. C \cup {p} \subseteq Stretches /\ \A q \in C \cup {p} : Cardinality(q) <= MaxTokens
  BY <1>1, <1>5 DEF SplitAt
<1> QED
  BY <1>1, <1>3, <1>6, <1>7, <1>8, <1>9, <1>10 DEF SplitAt, p

(* ... one that does not, and so begins the next, after what is repeated ... *)
LEMMA PieceBroken ==
    ASSUME ChunkerAssumption,
           NEW S, NEW ls, NEW ps, NEW C, NEW P, NEW f, NEW m, NEW e,
           SplitAt(S, ls, ps, C, P, f, m, e), P # {},
           Cardinality(First(P)) <= MaxTokens,
           SizeOf(C) + Cardinality(First(P)) > MaxTokens
    PROVE  \E g \in Nat : SplitAt(S, ls, ps \o Joined(C), TailOf(C) \cup {First(P)},
                                  P \ {First(P)}, g, Max(First(P)), e)
<1> DEFINE p == First(P)  qs == ps \o Joined(C)
<1>0. /\ MaxTokens \in Nat /\ OverlapTokens \in Nat /\ Bound \in Nat
      /\ 2 * MaxTokens + OverlapTokens <= Bound /\ 2 * MaxTokens + 1 <= Bound
  BY BoundIs, StepIs
<1>1. /\ p \in P /\ p \in Stretches /\ p \subseteq S /\ p = m + 1 .. Max(p)
      /\ Max(p) \in Nat /\ m < Max(p) /\ Max(p) <= e /\ Cardinality(p) = Max(p) - m
      /\ P \ {p} \subseteq Stretches /\ UNION (P \ {p}) = Max(p) + 1 .. e
  BY NextIs
<1>2. /\ Good(qs, S)
      /\ \A x \in Pieces(qs) : Max(x) \in Nat /\ Max(x) <= m
      /\ \A i \in ls : \/ KeptIn(Tokens(i), Pieces(qs))
                       \/ \E o \in P : Tokens(i) \subseteq o
  BY JoinedIs
<1>3. f \in Nat /\ m \in Nat /\ e \in Nat /\ f <= m /\ C \in SUBSET Stretches
  BY DEF SplitAt
<1>4. C # {}
  <2>1. SizeOf({}) = 0
    <3>1. UNION {} = {}
      OBVIOUS
    <3> QED
      BY <3>1, FS_EmptySet DEF SizeOf
  <2>2. Cardinality(p) \in Int
    BY <1>1, <1>3
  <2>3. Cardinality(p) <= MaxTokens /\ SizeOf(C) + Cardinality(p) > MaxTokens
    OBVIOUS
  <2> DEFINE c == Cardinality(p)
  <2> HIDE DEF c
  <2>4. ~(0 + c > MaxTokens)
    BY <1>0, <2>2, <2>3 DEF c
  <2> QED
    BY <2>1, <2>3, <2>4 DEF c
<1>5. PICK g \in Nat : /\ f <= g /\ g <= m /\ UNION TailOf(C) = g + 1 .. m
                       /\ m - g < MaxTokens + OverlapTokens \/ m - g <= MaxTokens
  <2>1. Apart(C) /\ \A q \in C : Cardinality(q) <= MaxTokens
    BY DEF SplitAt, Apart
  <2>2. UNION C = f + 1 .. m
    BY DEF SplitAt
  <2> QED
    BY <1>3, <1>4, <2>1, <2>2, TailIs
<1>6. Cardinality(p) <= MaxTokens
  OBVIOUS
<1> HIDE DEF p, qs
<1>7. Max(p) - g < Bound /\ g <= Max(p)
  BY <1>0, <1>1, <1>3, <1>5, <1>6
<1>8. UNION (TailOf(C) \cup {p}) = g + 1 .. Max(p)
  <2> DEFINE z == Max(p)
  <2>1. z \in Nat /\ m < z
    BY <1>1
  <2>2. p = m + 1 .. z
    BY <1>1
  <2> HIDE DEF z
  <2>3. (g + 1 .. m) \cup (m + 1 .. z) = g + 1 .. z
    BY <1>3, <1>5, <2>1
  <2>4. UNION (TailOf(C) \cup {p}) = (g + 1 .. m) \cup (m + 1 .. z)
    BY <1>5, <2>2
  <2> QED
    BY <2>3, <2>4 DEF z
<1>9. TailOf(C) \subseteq C
  BY DEF TailOf
<1>10. (TailOf(C) \cup {p}) \cup (P \ {p}) \subseteq C \cup P
  BY <1>1, <1>9
<1>11. /\ Apart((TailOf(C) \cup {p}) \cup (P \ {p}))
       /\ UNION ((TailOf(C) \cup {p}) \cup (P \ {p})) \subseteq S
  BY <1>10 DEF SplitAt, Apart
<1>12. \A x \in Pieces(qs) : Max(x) \in Nat /\ Max(x) < Max(p) /\ Max(x) <= Max(p)
  BY <1>1, <1>2, <1>3
<1>13. /\ TailOf(C) \cup {p} \subseteq Stretches
       /\ \A q \in TailOf(C) \cup {p} : Cardinality(q) <= MaxTokens
  BY <1>1, <1>6, <1>9 DEF SplitAt
<1>14. P \subseteq (TailOf(C) \cup {p}) \cup (P \ {p})
  OBVIOUS
<1>15. \A i \in ls : \/ KeptIn(Tokens(i), Pieces(qs))
                     \/ \E o \in (TailOf(C) \cup {p}) \cup (P \ {p}) : Tokens(i) \subseteq o
  BY <1>2, <1>14
<1>16. SplitAt(S, ls, qs, TailOf(C) \cup {p}, P \ {p}, g, Max(p), e)
  BY <1>1, <1>2, <1>3, <1>5, <1>7, <1>8, <1>11, <1>12, <1>13, <1>15 DEF SplitAt
<1> QED
  BY <1>16 DEF p, qs

(* ... and one that is cut itself.                                          *)
LEMMA ParagraphCut ==
    ASSUME ChunkerAssumption,
           NEW S, NEW ls, NEW ps, NEW C, NEW P, NEW f, NEW m, NEW e,
           SplitAt(S, ls, ps, C, P, f, m, e), P # {},
           Cardinality(First(P)) > MaxTokens
    PROVE  SplitAt(S, ls, ps \o Joined(C) \o Slide(First(P)), {}, P \ {First(P)},
                   Max(First(P)), Max(First(P)), e)
<1> DEFINE p == First(P)  qs == ps \o Joined(C)  z == Max(p)
<1>0. Bound \in Nat /\ MaxTokens \in Nat /\ MaxTokens < Bound
  BY BoundIs, StepIs
<1>1. /\ p \in P /\ p \in Stretches /\ p \subseteq S /\ p = m + 1 .. z
      /\ z \in Nat /\ m < z /\ z <= e /\ Cardinality(p) = z - m
      /\ P \ {p} \subseteq Stretches /\ UNION (P \ {p}) = z + 1 .. e
  BY NextIs
<1>2. /\ Good(qs, S)
      /\ \A x \in Pieces(qs) : Max(x) \in Nat /\ Max(x) <= m
      /\ \A i \in ls : \/ KeptIn(Tokens(i), Pieces(qs))
                       \/ \E o \in P : Tokens(i) \subseteq o
  BY JoinedIs
<1>3. m \in Nat /\ e \in Nat
  BY DEF SplitAt
<1>4. Good(Slide(p), p) /\ \A T \in SUBSET p : KeptIn(T, Pieces(Slide(p)))
  BY <1>1, SlideIs
<1> HIDE DEF p, qs, z
<1>5. Good(Slide(p), S)
  BY <1>1, <1>4 DEF Good
<1>6. ASSUME NEW y \in Pieces(Slide(p)) PROVE Max(y) \in Nat /\ m < Max(y) /\ Max(y) <= z
  <2>1. PICK k \in 1..Len(Slide(p)) : y = Slide(p)[k]
    BY DEF Pieces
  <2>2. y \in Stretches /\ y \subseteq p
    BY <1>4, <2>1 DEF Good
  <2>3. Max(y) \in Nat /\ Max(y) \in p
    BY <2>2, StretchTells
  <2> QED
    BY <1>1, <1>3, <2>3
<1>7. \A x \in Pieces(qs), y \in Pieces(Slide(p)) : Max(x) < Max(y)
  BY <1>2, <1>3, <1>6
<1>8. Good(qs \o Slide(p), S) /\ Pieces(qs \o Slide(p)) = Pieces(qs) \cup Pieces(Slide(p))
  BY <1>2, <1>5, <1>7, GoodJoins
<1>9. \A x \in Pieces(qs \o Slide(p)) : Max(x) \in Nat /\ Max(x) <= z
  BY <1>1, <1>2, <1>3, <1>6, <1>8
<1>10. ASSUME NEW i \in ls
       PROVE  \/ KeptIn(Tokens(i), Pieces(qs \o Slide(p)))
              \/ \E o \in P \ {p} : Tokens(i) \subseteq o
  <2>1. CASE KeptIn(Tokens(i), Pieces(qs))
    BY <1>8, <2>1 DEF KeptIn
  <2>2. CASE Tokens(i) \subseteq p
    <3>1. KeptIn(Tokens(i), Pieces(Slide(p)))
      BY <1>4, <2>2
    <3> QED
      BY <1>8, <3>1 DEF KeptIn
  <2> QED
    BY <1>2, <2>1, <2>2
<1>11. UNION {} = z + 1 .. z
  <2>1. \A t \in z + 1 .. z : FALSE
    BY <1>1
  <2> QED
    BY <2>1
<1>12. z - z < Bound /\ z <= z
  BY <1>0, <1>1, <1>3
<1>13. {} \cup (P \ {p}) = P \ {p} /\ Apart(P \ {p}) /\ UNION (P \ {p}) \subseteq S
  BY DEF SplitAt, Apart
<1>14. SplitAt(S, ls, qs \o Slide(p), {}, P \ {p}, z, z, e)
  BY <1>1, <1>3, <1>8, <1>9, <1>10, <1>11, <1>12, <1>13 DEF SplitAt
<1> QED
  BY <1>14 DEF p, qs, z

(* The beginning and the end.                                               *)
LEMMA SectionOpened ==
    ASSUME ChunkerAssumption, Written, NEW ls \in SUBSET (1..Len(text)), NEW P, Divided(P, ls),
           NEW lo \in Nat, NEW hi \in Nat, lo <= hi, TokensOf(ls) = lo + 1 .. hi
    PROVE  SplitAt(TokensOf(ls), ls, <<>>, {}, P, lo, lo, hi)
<1>1. Bound \in Nat /\ MaxTokens \in Nat /\ MaxTokens < Bound
  BY BoundIs, StepIs
<1>2. lo - lo < Bound /\ lo <= lo
  BY <1>1
<1>3. UNION {} = lo + 1 .. lo
  <2>1. \A t \in lo + 1 .. lo : FALSE
    OBVIOUS
  <2> QED
    BY <2>1
<1>4. {} \cup P = P /\ Apart(P) /\ P \subseteq Stretches /\ UNION P = TokensOf(ls)
  BY DEF Divided, Apart
<1>5. ASSUME NEW i \in ls
      PROVE KeptIn(Tokens(i), Pieces(<<>>)) \/ \E p \in P : Tokens(i) \subseteq p
  <2>1. CASE Blank(i)
    <3>1. Tokens(i) = {}
      BY <2>1, TokensAre
    <3> QED
      BY <3>1 DEF KeptIn
  <2> QED
    BY <2>1 DEF Divided
<1> QED
  BY <1>2, <1>3, <1>4, <1>5, NoPiece DEF SplitAt

LEMMA SectionClosed ==
    ASSUME ChunkerAssumption,
           NEW S, NEW ls, NEW ps, NEW C, NEW f, NEW m, NEW e, SplitAt(S, ls, ps, C, {}, f, m, e)
    PROVE  /\ Good(ps \o Joined(C), S)
           /\ \A i \in ls : KeptIn(Tokens(i), Pieces(ps \o Joined(C)))
BY JoinedIs
-----------------------------------------------------------------------------
(* Headings and pages *)

Heads(h) == h = 0 \/ (h \in 1..Len(text) /\ text[h].kind = "heading")
Said(h, b) == {i \in h..b : i \in 1..Len(text) /\ text[i].kind # "page"}
PagesIn(h, b) == {PageOf(i) : i \in Said(h, b)} \ {0}

(* The heading above a line is the last one that was read.                  *)
LEMMA HeadingIs ==
    ASSUME Written, NEW h \in 0..Len(text), NEW i \in 1..Len(text), h <= i, Heads(h), Clear(h + 1, i)
    PROVE  HeadingOf(i) = h
<1> DEFINE S == {0} \cup {j \in 1..i : text[j].kind = "heading"}
<1>1. Len(text) \in Nat
  BY LinesTyped
<1>2. h \in S
  BY <1>1 DEF Heads
<1>3. ASSUME NEW j \in S PROVE j <= h
  <2>1. CASE j = 0
    BY <1>1, <2>1
  <2>2. CASE j \in 1..i /\ text[j].kind = "heading"
    <3>1. j \notin h + 1 .. i
      BY <2>2 DEF Clear
    <3> QED
      BY <1>1, <2>2, <3>1
  <2> QED
    BY <2>1, <2>2
<1>4. S \in SUBSET Int
  BY <1>1
<1>5. HeadingOf(i) = Max(S)
  BY DEF HeadingOf
<1> HIDE DEF S
<1> QED
  BY <1>2, <1>3, <1>4, <1>5, MaxIs

Marks(i) == {j \in 1..i : text[j].kind = "page"}

LEMMA PagesMove ==
    ASSUME Written
    PROVE  /\ PageOf(0) = 0
           /\ \A i \in 0..Len(text) : PageOf(i) \in Nat
           /\ \A i \in 0..Len(text) - 1 :
                  PageOf(i + 1) = IF text[i + 1].kind = "page" THEN text[i + 1].number ELSE PageOf(i)
<1>1. Len(text) \in Nat
  BY LinesTyped
<1>2. \A i : PageOf(i) = IF Marks(i) = {} THEN 0 ELSE text[Max(Marks(i))].number
  BY DEF PageOf, Marks
<1>3. PageOf(0) = 0
  <2>1. Marks(0) = {}
    BY DEF Marks
  <2> QED
    BY <1>2, <2>1
<1>4. ASSUME NEW i \in 0..Len(text) PROVE PageOf(i) \in Nat
  <2>1. CASE Marks(i) = {}
    BY <1>2, <2>1
  <2>2. CASE Marks(i) # {}
    <3>1. PICK k \in Marks(i) : TRUE
      BY <2>2
    <3>2. Marks(i) \in SUBSET (0..i) /\ i \in Nat
      BY <1>1 DEF Marks
    <3>3. Max(Marks(i)) \in Marks(i)
      BY <3>1, <3>2, MaxTells
    <3>4. Max(Marks(i)) \in 1..Len(text) /\ text[Max(Marks(i))].kind = "page"
      BY <1>1, <3>3 DEF Marks
    <3> QED
      BY <1>2, <2>2, <3>4, LinesTyped
  <2> QED
    BY <2>1, <2>2
<1>5. ASSUME NEW i \in 0..Len(text) - 1
      PROVE  PageOf(i + 1) = IF text[i + 1].kind = "page" THEN text[i + 1].number ELSE PageOf(i)
  <2>1. i \in Nat /\ \A j : j \in 1..i + 1 <=> j \in 1..i \/ j = i + 1
    BY <1>1
  <2>2. CASE text[i + 1].kind = "page"
    <3>1. i + 1 \in Marks(i + 1) /\ Marks(i + 1) \in SUBSET Int /\ \A j \in Marks(i + 1) : j <= i + 1
      BY <2>1, <2>2 DEF Marks
    <3>2. Max(Marks(i + 1)) = i + 1
      BY <3>1, MaxIs
    <3> QED
      BY <1>2, <2>2, <3>1, <3>2
  <2>3. CASE text[i + 1].kind # "page"
    <3>1. Marks(i + 1) = Marks(i)
      BY <2>1, <2>3 DEF Marks
    <3> QED
      BY <1>2, <2>3, <3>1
  <2> QED
    BY <2>2, <2>3
<1> QED
  BY <1>3, <1>4, <1>5

(* A range that was stored and read is what it was.                         *)
LEMMA RangeIs ==
    ASSUME NEW n \in Nat, NEW S \in SUBSET (1..n)
    PROVE  /\ S = {} => ReadBack(Stored(PageRange(S))) = <<0, 0>>
           /\ S # {} => /\ ReadBack(Stored(PageRange(S))) = <<Min(S), Max(S)>>
                        /\ Min(S) \in S /\ Max(S) \in S
                        /\ \A x \in S : Min(S) <= x /\ x <= Max(S)
<1>1. CASE S = {}
  <2>1. PageRange(S) = <<0, 0>>
    BY <1>1 DEF PageRange
  <2>2. Stored(<<0, 0>>) = <<0>>
    BY DEF Stored
  <2>3. ReadBack(<<0>>) = <<0, 0>>
    BY DEF ReadBack
  <2> QED
    BY <1>1, <2>1, <2>2, <2>3
<1>2. CASE S # {}
  <2>1. PICK k \in S : TRUE
    BY <1>2
  <2>2. Min(S) \in S /\ \A x \in S : Min(S) <= x
    <3>1. S \in SUBSET Nat
      OBVIOUS
    <3> QED
      BY <2>1, <3>1, MinTells
  <2>3. Max(S) \in S /\ \A x \in S : x <= Max(S)
    <3>1. S \in SUBSET (0..n)
      OBVIOUS
    <3> QED
      BY <2>1, <3>1, MaxTells
  <2> DEFINE a == Min(S)  b == Max(S)
  <2>4. a \in Nat \ {0} /\ b \in Nat \ {0}
    <3>1. S \subseteq Nat \ {0}
      OBVIOUS
    <3> QED
      BY <2>2, <2>3, <3>1
  <2>5. PageRange(S) = <<a, b>>
    BY <1>2 DEF PageRange
  <2> HIDE DEF a, b
  <2>6. Stored(<<a, b>>) = IF a = b THEN <<a>> ELSE <<a, b>>
    BY <2>4 DEF Stored
  <2>7. ReadBack(Stored(<<a, b>>)) = <<a, b>>
    <3>1. CASE a = b
      <4>1. ReadBack(<<a>>) = <<a, a>>
        BY DEF ReadBack
      <4> QED
        BY <2>6, <3>1, <4>1
    <3>2. CASE a # b
      <4>1. ReadBack(<<a, b>>) = <<a, b>>
        BY DEF ReadBack
      <4> QED
        BY <2>6, <3>2, <4>1
    <3> QED
      BY <3>1, <3>2
  <2> QED
    BY <1>2, <2>2, <2>3, <2>5, <2>7 DEF a, b
<1> QED
  BY <1>1, <1>2

LEMMA PagesBounded ==
    ASSUME Written
    PROVE  \E n \in Nat : \A h, b : PagesIn(h, b) \in SUBSET (1..n)
<1> DEFINE f == [i \in 1..Len(text) |-> PageOf(i)]
           n == SumOver(1..Len(text), f)
<1>1. Len(text) \in Nat /\ IsFiniteSet(1..Len(text))
  BY LinesTyped, FS_Interval
<1>2. f \in [1..Len(text) -> Nat]
  BY <1>1, PagesMove
<1>3. n \in Nat
  <2> HIDE DEF f
  <2> QED
    BY <1>1, <1>2, SumIsNat
<1>4. ASSUME NEW i \in 1..Len(text) PROVE PageOf(i) \in 0..n
  <2>1. f[i] = PageOf(i) /\ f[i] \in Nat
    BY <1>2
  <2> HIDE DEF f
  <2>2. PICK t \in Nat : SumOver(1..Len(text), f) = t + f[i]
    BY <1>1, <1>2, SumDiffers
  <2> QED
    BY <2>1, <2>2
<1> HIDE DEF n
<1>5. ASSUME NEW h, NEW b, NEW x \in PagesIn(h, b) PROVE x \in 1..n
  <2>1. PICK i \in 1..Len(text) : x = PageOf(i) /\ x # 0
    BY <1>5 DEF PagesIn, Said
  <2> QED
    BY <1>3, <1>4, <2>1
<1> QED
  BY <1>3, <1>5
-----------------------------------------------------------------------------
(* Sections *)

Place(h, b) ==
    /\ h \in 0..Len(text) /\ b \in 0..Len(text) /\ h <= b
    /\ Heads(h) /\ Clear(h + 1, b) /\ TokensOf(TextIn(h + 1, b)) # {}
SectionAt(h, b) == [title |-> h, lines |-> TextIn(h + 1, b), range |-> PageRange(PagesIn(h, b))]

AllSections == {SectionAt(h, b) : h \in 0..Len(text), b \in 0..Len(text)}
IsSection(s) == \E h, b \in 0..Len(text) : Place(h, b) /\ s = SectionAt(h, b)

LEMMA PlaceTells ==
    ASSUME Written, NEW h, NEW b, Place(h, b)
    PROVE  /\ h \in 0..Len(text) /\ b \in 0..Len(text)
           /\ TextIn(h + 1, b) \in SUBSET (1..Len(text))
           /\ Offset(h + 1) \in Nat /\ Offset(b + 1) \in Nat /\ Offset(h + 1) <= Offset(b + 1)
           /\ TokensOf(TextIn(h + 1, b)) = Offset(h + 1) + 1 .. Offset(b + 1)
           /\ TokensOf(TextIn(h + 1, b)) \in Stretches
           /\ Divided(Paragraphs(TextIn(h + 1, b)), TextIn(h + 1, b))
<1> DEFINE x == Offset(h + 1)  y == Offset(b + 1)
<1>1. /\ Len(text) \in Nat /\ h \in 0..Len(text) /\ b \in 0..Len(text) /\ h <= b
      /\ Clear(h + 1, b) /\ TokensOf(TextIn(h + 1, b)) # {}
  BY LinesTyped DEF Place
<1>2. h + 1 \in 1..Len(text) + 1 /\ b + 1 \in 1..Len(text) + 1 /\ h + 1 <= b + 1
  BY <1>1
<1>3. x \in Nat /\ y \in Nat /\ x <= y
  BY <1>2, OffsetsGrow
<1>4. TextIn(h + 1, b) \subseteq 1..Len(text) /\ TokensOf(TextIn(h + 1, b)) = x + 1 .. y
  BY <1>1, <1>2, BodyIsStretch
<1>5. Divided(Paragraphs(TextIn(h + 1, b)), TextIn(h + 1, b))
  BY <1>1, <1>2, ParagraphsDivide
<1> HIDE DEF x, y
<1>6. x + 1 \in Nat \ {0} /\ x + 1 .. y # {}
  BY <1>1, <1>3, <1>4
<1>7. x + 1 .. y \in Stretches
  BY <1>3, <1>6 DEF Stretches
<1> QED
  BY <1>1, <1>3, <1>4, <1>5, <1>7 DEF x, y

LEMMA SectionTells ==
    ASSUME Written, NEW s, IsSection(s)
    PROVE  \E h, b \in 0..Len(text) :
               /\ Place(h, b) /\ s = SectionAt(h, b)
               /\ s.title = h /\ s.lines = TextIn(h + 1, b) /\ s.range = PageRange(PagesIn(h, b))
               /\ s.title \in Nat /\ s.lines \in SUBSET (1..Len(text))
               /\ TokensOf(s.lines) \in Stretches
<1>1. PICK h \in 0..Len(text), b \in 0..Len(text) : Place(h, b) /\ s = SectionAt(h, b)
  BY DEF IsSection
<1>2. s.title = h /\ s.lines = TextIn(h + 1, b) /\ s.range = PageRange(PagesIn(h, b))
  BY <1>1 DEF SectionAt
<1>3. h \in Nat
  BY LinesTyped
<1> QED
  BY <1>1, <1>2, <1>3, PlaceTells

(* What stands under a later heading comes later.                           *)
LEMMA LaterSection ==
    ASSUME Written, NEW h, NEW b, NEW k, NEW d, Place(h, b), Place(k, d), h < k,
           NEW t \in TokensOf(TextIn(h + 1, b)), NEW u \in TokensOf(TextIn(k + 1, d))
    PROVE  t < u
<1>1. /\ Len(text) \in Nat /\ h \in 0..Len(text) /\ b \in 0..Len(text) /\ k \in 0..Len(text)
      /\ Heads(k) /\ Clear(h + 1, b)
  BY LinesTyped DEF Place
<1>2. b < k
  <2>1. k \in 1..Len(text) /\ text[k].kind = "heading"
    BY <1>1 DEF Heads
  <2>2. k \notin h + 1 .. b
    BY <1>1, <2>1 DEF Clear
  <2> QED
    BY <1>1, <2>1, <2>2
<1>3. PICK i \in TextIn(h + 1, b) : t \in Tokens(i)
  BY DEF TokensOf
<1>4. PICK j \in TextIn(k + 1, d) : u \in Tokens(j)
  BY DEF TokensOf
<1>5. i \in 1..Len(text) /\ j \in 1..Len(text)
  BY PlaceTells
<1>6. i <= b /\ k < j
  BY <1>1, <1>5 DEF TextIn
<1>7. i < j
  BY <1>1, <1>2, <1>5, <1>6
<1> QED
  BY <1>3, <1>4, <1>5, <1>7, TokensOrdered

SectionsAt(ss) ==
    /\ ss \in Seq(AllSections)
    /\ \A k \in 1..Len(ss) : IsSection(ss[k])
    /\ \A j, k \in 1..Len(ss) : j < k => ss[j].title < ss[k].title

(* What was read, up to the line i, since the heading h.                    *)
ReadAt(i, h, ls, ps, g) ==
    /\ i \in 0..Len(text) /\ h \in 0..i
    /\ Heads(h) /\ Clear(h + 1, i)
    /\ ls = TextIn(h + 1, i) /\ ps = PagesIn(h, i) /\ g = PageOf(i)

(* No text is lost with a section that ends.                                *)
LEMMA EndedIs ==
    ASSUME Written, ReadAt(at, title, lines, pages, page), SectionsAt(sections),
           \A k \in 1..Len(sections) : sections[k].title < title
    PROVE  /\ SectionsAt(Ended)
           /\ \A k \in 1..Len(Ended) : Ended[k].title <= title
           /\ \A k \in 1..Len(sections) : k \in 1..Len(Ended) /\ Ended[k] = sections[k]
           /\ \A i \in lines : Tokens(i) = {} \/ \E k \in 1..Len(Ended) : i \in Ended[k].lines
<1>1. /\ Len(text) \in Nat /\ at \in 0..Len(text) /\ title \in 0..at /\ title \in Nat
      /\ sections \in Seq(AllSections) /\ Len(sections) \in Nat
  BY LinesTyped DEF ReadAt, SectionsAt
<1>2. ASSUME NEW k \in 1..Len(sections) PROVE sections[k].title \in Nat
  BY SectionTells DEF SectionsAt
<1>3. CASE TokensOf(lines) = {}
  <2>1. Ended = sections
    BY <1>3 DEF Ended
  <2>2. \A i \in lines : Tokens(i) = {}
    BY <1>3 DEF TokensOf
  <2> QED
    BY <1>1, <1>2, <2>1, <2>2
<1>4. CASE TokensOf(lines) # {}
  <2> DEFINE s == SectionAt(title, at)
             n == Len(sections)
             es == Append(sections, s)
  <2>1. Ended = es
    BY <1>4 DEF Ended, SectionAt, ReadAt
  <2>2. Place(title, at) /\ title \in 0..Len(text)
    BY <1>1, <1>4 DEF Place, ReadAt
  <2>3. s \in AllSections /\ IsSection(s)
    BY <1>1, <2>2 DEF AllSections, IsSection
  <2>4. s.title = title /\ s.lines = lines
    BY DEF SectionAt, ReadAt
  <2>5. /\ es \in Seq(AllSections) /\ Len(es) = n + 1
        /\ \A k \in 1..n : es[k] = sections[k]
        /\ es[n + 1] = s
    <3> HIDE DEF s
    <3> QED
      BY <1>1, <2>3, AppendProperties
  <2> HIDE DEF s, es, n
  <2>6. n \in Nat /\ \A k \in 1..n + 1 : k \in 1..n \/ k = n + 1
    BY <1>1 DEF n
  <2>7. \A k \in 1..n + 1 : IsSection(es[k])
    BY <2>3, <2>5, <2>6 DEF SectionsAt, n
  <2>8. \A k \in 1..n : sections[k].title \in Nat /\ sections[k].title < title
    BY <1>2 DEF n
  <2>9. \A k \in 1..n + 1 : es[k].title <= title
    <3>1. ASSUME NEW k \in 1..n PROVE es[k].title <= title
      BY <1>1, <2>5, <2>8
    <3>2. es[n + 1].title <= title
      BY <1>1, <2>4, <2>5
    <3> QED
      BY <2>6, <3>1, <3>2
  <2>10. ASSUME NEW j \in 1..n + 1, NEW k \in 1..n + 1, j < k PROVE es[j].title < es[k].title
    <3>1. j \in 1..n
      BY <2>6, <2>10
    <3>2. CASE k \in 1..n
      BY <2>5, <2>10, <3>1, <3>2 DEF SectionsAt, n
    <3>3. CASE k = n + 1
      BY <2>4, <2>5, <2>8, <3>1, <3>3
    <3> QED
      BY <2>6, <3>2, <3>3
  <2>11. SectionsAt(es)
    BY <2>5, <2>7, <2>10 DEF SectionsAt
  <2>12. n + 1 \in 1..n + 1 /\ \A k \in 1..n : k \in 1..n + 1
    BY <2>6
  <2> QED
    BY <2>1, <2>4, <2>5, <2>9, <2>11, <2>12 DEF n
<1> QED
  BY <1>3, <1>4

(* A line is read: a mark of a page, a heading, or text.                    *)
LEMMA ReadsOn ==
    ASSUME Written, ReadAt(at, title, lines, pages, page), at < Len(text)
    PROVE  LET j == at + 1 IN
           /\ text[j].kind = "page" => ReadAt(j, title, lines, pages, text[j].number)
           /\ text[j].kind = "heading" => ReadAt(j, j, {}, {page} \ {0}, page)
           /\ text[j].kind = "text" =>
                  ReadAt(j, title, lines \cup {j}, pages \cup ({page} \ {0}), page)
<1> DEFINE j == at + 1
<1>1. /\ Len(text) \in Nat /\ at \in 0..Len(text) /\ title \in 0..at /\ at \in Nat /\ title \in Nat
      /\ Heads(title) /\ Clear(title + 1, at)
      /\ lines = TextIn(title + 1, at) /\ pages = PagesIn(title, at) /\ page = PageOf(at)
  BY LinesTyped DEF ReadAt
<1>2. at \in 0..Len(text) - 1 /\ j \in 1..Len(text) /\ j \in 0..Len(text) /\ title \in 0..j
  BY <1>1
<1>3. PageOf(j) = IF text[j].kind = "page" THEN text[j].number ELSE page
  BY <1>1, <1>2, PagesMove
<1>4. \A i : i \in title + 1 .. j <=> i \in title + 1 .. at \/ i = j
  BY <1>1
<1>5. \A i : i \in title .. j <=> i \in title .. at \/ i = j
  BY <1>1
<1> HIDE DEF j
<1>6. CASE text[j].kind = "page"
  <2>1. TextIn(title + 1, j) = TextIn(title + 1, at)
    BY <1>4, <1>6 DEF TextIn
  <2>2. Said(title, j) = Said(title, at)
    BY <1>5, <1>6 DEF Said
  <2>3. PagesIn(title, j) = PagesIn(title, at)
    BY <2>2 DEF PagesIn
  <2>4. Clear(title + 1, j)
    BY <1>1, <1>4, <1>6 DEF Clear
  <2> QED
    BY <1>1, <1>2, <1>3, <1>6, <2>1, <2>3, <2>4 DEF ReadAt, j
<1>7. CASE text[j].kind = "heading"
  <2>1. \A i \in j + 1 .. j : FALSE
    BY <1>2
  <2>2. TextIn(j + 1, j) = {} /\ Clear(j + 1, j)
    BY <2>1 DEF TextIn, Clear
  <2>3. \A i : i \in j..j <=> i = j
    BY <1>2
  <2>4. Said(j, j) = {j}
    BY <1>2, <1>7, <2>3 DEF Said
  <2>5. PagesIn(j, j) = {page} \ {0}
    BY <1>3, <1>7, <2>4 DEF PagesIn
  <2>6. Heads(j) /\ j \in 0..j
    BY <1>2, <1>7 DEF Heads
  <2> QED
    BY <1>2, <1>3, <1>7, <2>2, <2>5, <2>6 DEF ReadAt, j
<1>8. CASE text[j].kind = "text"
  <2>1. TextIn(title + 1, j) = TextIn(title + 1, at) \cup {j}
    BY <1>4, <1>8 DEF TextIn
  <2>2. Said(title, j) = Said(title, at) \cup {j}
    BY <1>2, <1>5, <1>8 DEF Said
  <2>3. PagesIn(title, j) = PagesIn(title, at) \cup ({page} \ {0})
    BY <1>3, <1>8, <2>2 DEF PagesIn
  <2>4. Clear(title + 1, j)
    BY <1>1, <1>4, <1>8 DEF Clear
  <2> QED
    BY <1>1, <1>2, <1>3, <1>8, <2>1, <2>3, <2>4 DEF ReadAt, j
<1> QED
  BY <1>6, <1>7, <1>8 DEF j
-----------------------------------------------------------------------------
(* Chunks *)

ChunkAt(h, b, y, p) ==
    [title |-> h, headed |-> y, tokens |-> p, range |-> ReadBack(Stored(PageRange(PagesIn(h, b))))]
AllChunks ==
    {ChunkAt(h, b, y, p) : h \in 0..Len(text), b \in 0..Len(text), y \in BOOLEAN, p \in Stretches}
IsChunk(c) ==
    \E h, b \in 0..Len(text), y \in BOOLEAN, p \in Stretches :
        /\ Place(h, b) /\ c = ChunkAt(h, b, y, p)
        /\ p \subseteq TokensOf(TextIn(h + 1, b)) /\ Cardinality(p) < Bound

ChunksAt(cs) ==
    /\ cs \in Seq(AllChunks)
    /\ \A k \in 1..Len(cs) : IsChunk(cs[k])
    /\ \A j, k \in 1..Len(cs) : j < k => Max(cs[j].tokens) < Max(cs[k].tokens)

(* The section of every chunk is before every section that is left.         *)
Passed(cs, ss) == \A j \in 1..Len(cs), k \in 1..Len(ss) : cs[j].title < ss[k].title

TokenSets(cs) == {cs[k].tokens : k \in 1..Len(cs)}

(* A line is in chunks, or in a section that will be, or will be in one.    *)
Kept(h, ss, cs, ph) ==
    \A i \in 1..Len(text) : text[i].kind = "text" =>
        \/ KeptIn(Tokens(i), TokenSets(cs))
        \/ \E k \in 1..Len(ss) : i \in ss[k].lines
        \/ ph = "read" /\ h < i

LEMMA ChunkTells ==
    ASSUME Written, NEW c, IsChunk(c)
    PROVE  \E h, b \in 0..Len(text) :
               /\ Place(h, b) /\ c.title = h /\ c.title \in Nat
               /\ c.tokens \in Stretches /\ c.tokens \subseteq TokensOf(TextIn(h + 1, b))
               /\ Cardinality(c.tokens) < Bound
               /\ c.range = ReadBack(Stored(PageRange(PagesIn(h, b))))
<1>1. PICK h \in 0..Len(text), b \in 0..Len(text), y \in BOOLEAN, p \in Stretches :
          /\ Place(h, b) /\ c = ChunkAt(h, b, y, p)
          /\ p \subseteq TokensOf(TextIn(h + 1, b)) /\ Cardinality(p) < Bound
  BY DEF IsChunk
<1>2. c.title = h /\ c.tokens = p /\ c.range = ReadBack(Stored(PageRange(PagesIn(h, b))))
  BY <1>1 DEF ChunkAt
<1>3. h \in Nat
  BY LinesTyped
<1> QED
  BY <1>1, <1>2, <1>3

(* The pieces of the first section become chunks.                           *)
LEMMA Emitted ==
    ASSUME ChunkerAssumption, Written,
           SectionsAt(sections), sections # <<>>, ChunksAt(chunks), Passed(chunks, sections),
           Kept(title, sections, chunks, "over"),
           NEW ps, Good(ps, TokensOf(Section.lines)),
           \A i \in Section.lines : KeptIn(Tokens(i), Pieces(ps)),
           Emit(ps)
    PROVE  /\ SectionsAt(sections') /\ ChunksAt(chunks') /\ Passed(chunks', sections')
           /\ Kept(title, sections', chunks', "over") /\ phase' = "chunk"
<1> DEFINE m == Len(chunks)
           n == Len(ps)
           new == [k \in 1..n |-> [title |-> Section.title,
                                   headed |-> k = 1 /\ Section.title # 0,
                                   tokens |-> ps[k],
                                   range |-> ReadBack(Stored(Section.range))]]
           cs == chunks \o new
           ss == Tail(sections)
           l == Len(sections)
<1>1. chunks' = cs /\ sections' = ss /\ phase' = "chunk"
  BY DEF Emit
<1>2. /\ sections \in Seq(AllSections) /\ l \in Nat \ {0} /\ chunks \in Seq(AllChunks) /\ m \in Nat
      /\ ps \in Seq(Stretches) /\ n \in Nat
  BY EmptySeq DEF SectionsAt, ChunksAt, Good
<1>3. Section = sections[1] /\ 1 \in 1..l
  BY <1>2 DEF Section
<1>4. PICK h \in 0..Len(text), b \in 0..Len(text) :
          /\ Place(h, b)
          /\ Section.title = h /\ Section.lines = TextIn(h + 1, b)
          /\ Section.range = PageRange(PagesIn(h, b))
          /\ h \in Nat
  BY <1>3, SectionTells DEF SectionsAt
<1>5. /\ ss \in Seq(AllSections) /\ Len(ss) = l - 1
      /\ \A k \in 1..l - 1 : k + 1 \in 1..l /\ ss[k] = sections[k + 1]
  BY <1>2, HeadTailProperties
<1>6. ASSUME NEW k \in 1..n
      PROVE  /\ \E y \in BOOLEAN : new[k] = ChunkAt(h, b, y, ps[k])
             /\ new[k].title = h /\ new[k].tokens = ps[k] /\ ps[k] \in Stretches
             /\ ps[k] \subseteq TokensOf(TextIn(h + 1, b)) /\ Cardinality(ps[k]) < Bound
  <2>1. new[k] = [title |-> h, headed |-> k = 1 /\ h # 0, tokens |-> ps[k],
                  range |-> ReadBack(Stored(PageRange(PagesIn(h, b))))]
    BY <1>4
  <2> HIDE DEF new
  <2> DEFINE y == k = 1 /\ h # 0
  <2>2. y \in BOOLEAN
    OBVIOUS
  <2> HIDE DEF y
  <2>3. new[k] = ChunkAt(h, b, y, ps[k])
    BY <2>1 DEF ChunkAt, y
  <2>4. new[k].title = h /\ new[k].tokens = ps[k]
    BY <2>3 DEF ChunkAt
  <2>5. /\ ps[k] \in Stretches
        /\ ps[k] \subseteq TokensOf(TextIn(h + 1, b)) /\ Cardinality(ps[k]) < Bound
    BY <1>2, <1>4 DEF Good
  <2> QED
    BY <2>2, <2>3, <2>4, <2>5
<1>7. \A k \in 1..n : new[k] \in AllChunks /\ IsChunk(new[k])
  <2> HIDE DEF new
  <2> QED
    BY <1>4, <1>6 DEF AllChunks, IsChunk
<1>8. new \in Seq(AllChunks) /\ Len(new) = n
  <2>1. new \in [1..n -> AllChunks]
    BY <1>7
  <2> QED
    BY <1>2, <2>1
<1> HIDE DEF new, n, m, l, ss
<1>9. /\ cs \in Seq(AllChunks) /\ Len(cs) = m + n
      /\ \A k \in 1..m + n : cs[k] = IF k <= m THEN chunks[k] ELSE new[k - m]
  BY <1>2, <1>8, ConcatProperties DEF m
<1> HIDE DEF cs
<1>10. ASSUME NEW k \in 1..m + n
       PROVE  \/ k \in 1..m /\ cs[k] = chunks[k]
              \/ k > m /\ k - m \in 1..n /\ cs[k] = new[k - m]
  BY <1>2, <1>9
<1>11. ASSUME NEW k \in 1..m PROVE k \in 1..m + n /\ cs[k] = chunks[k]
  BY <1>2, <1>9
<1>12. ASSUME NEW k \in 1..n PROVE \E j \in 1..m + n : cs[j] = new[k]
  <2> DEFINE j == m + k
  <2>1. j \in 1..m + n /\ ~(j <= m) /\ j - m = k
    BY <1>2
  <2> HIDE DEF j
  <2> QED
    BY <1>9, <2>1
<1>13. ASSUME NEW j \in 1..m, NEW k \in 1..n PROVE Max(chunks[j].tokens) < Max(new[k].tokens)
  <2>1. IsChunk(chunks[j])
    BY DEF ChunksAt, m
  <2>2. PICK h0 \in 0..Len(text), b0 \in 0..Len(text) :
            /\ Place(h0, b0) /\ chunks[j].title = h0
            /\ chunks[j].tokens \in Stretches /\ chunks[j].tokens \subseteq TokensOf(TextIn(h0 + 1, b0))
    BY <2>1, ChunkTells
  <2>3. h0 < h
    BY <1>3, <1>4, <2>2 DEF Passed, m, l
  <2>4. /\ Max(chunks[j].tokens) \in TokensOf(TextIn(h0 + 1, b0))
        /\ Max(new[k].tokens) \in TokensOf(TextIn(h + 1, b))
    BY <1>6, <2>2, StretchTells
  <2> QED
    BY <1>4, <2>2, <2>3, <2>4, LaterSection
<1>14. ChunksAt(cs)
  <2>1. \A k \in 1..m + n : IsChunk(cs[k])
    BY <1>7, <1>10 DEF ChunksAt, m
  <2>2. ASSUME NEW j \in 1..m + n, NEW k \in 1..m + n, j < k
        PROVE  Max(cs[j].tokens) < Max(cs[k].tokens)
    <3>1. CASE k \in 1..m /\ cs[k] = chunks[k]
      <4>1. j \in 1..m /\ cs[j] = chunks[j]
        BY <1>2, <1>10, <2>2, <3>1
      <4> QED
        BY <2>2, <3>1, <4>1 DEF ChunksAt, m
    <3>2. CASE k > m /\ k - m \in 1..n /\ cs[k] = new[k - m]
      <4>1. CASE j \in 1..m /\ cs[j] = chunks[j]
        BY <1>13, <3>2, <4>1
      <4>2. CASE j > m /\ j - m \in 1..n /\ cs[j] = new[j - m]
        <5>1. j - m < k - m
          BY <1>2, <2>2
        <5>2. Max(ps[j - m]) < Max(ps[k - m])
          BY <3>2, <4>2, <5>1 DEF Good, Grows, n
        <5>3. new[j - m].tokens = ps[j - m] /\ new[k - m].tokens = ps[k - m]
          BY <1>6, <3>2, <4>2
        <5> QED
          BY <3>2, <4>2, <5>2, <5>3
      <4> QED
        BY <1>10, <4>1, <4>2
    <3> QED
      BY <1>10, <3>1, <3>2
  <2> QED
    BY <1>9, <2>1, <2>2 DEF ChunksAt
<1>15. SectionsAt(ss)
  <2>1. \A k \in 1..l - 1 : IsSection(ss[k])
    BY <1>5 DEF SectionsAt, l
  <2>2. ASSUME NEW j \in 1..l - 1, NEW k \in 1..l - 1, j < k PROVE ss[j].title < ss[k].title
    <3>1. j + 1 \in 1..l /\ k + 1 \in 1..l /\ j + 1 < k + 1
      BY <1>2, <1>5, <2>2
    <3>2. sections[j + 1].title < sections[k + 1].title
      BY <3>1 DEF SectionsAt, l
    <3> QED
      BY <1>5, <3>2
  <2> QED
    BY <1>5, <2>1, <2>2 DEF SectionsAt
<1>16. ASSUME NEW j \in 1..m + n, NEW k \in 1..l - 1 PROVE cs[j].title < ss[k].title
  <2>1. k + 1 \in 1..l /\ 1 < k + 1 /\ ss[k] = sections[k + 1]
    BY <1>2, <1>5
  <2>2. CASE j \in 1..m /\ cs[j] = chunks[j]
    BY <2>1, <2>2 DEF Passed, m, l
  <2>3. CASE j > m /\ j - m \in 1..n /\ cs[j] = new[j - m]
    <3>1. cs[j].title = h
      BY <1>6, <2>3
    <3>2. sections[1].title < sections[k + 1].title
      BY <1>3, <2>1 DEF SectionsAt, l
    <3> QED
      BY <1>3, <1>4, <2>1, <3>1, <3>2
  <2> QED
    BY <1>10, <2>2, <2>3
<1>17. Passed(cs, ss)
  BY <1>5, <1>9, <1>16 DEF Passed
<1>18. TokenSets(chunks) \subseteq TokenSets(cs) /\ Pieces(ps) \subseteq TokenSets(cs)
  <2>1. TokenSets(chunks) = {chunks[k].tokens : k \in 1..m} /\ Pieces(ps) = {ps[k] : k \in 1..n}
        /\ TokenSets(cs) = {cs[k].tokens : k \in 1..m + n}
    BY <1>9 DEF TokenSets, Pieces, m, n
  <2>2. ASSUME NEW k \in 1..m PROVE chunks[k].tokens \in TokenSets(cs)
    BY <1>11, <2>1
  <2>3. ASSUME NEW k \in 1..n PROVE ps[k] \in TokenSets(cs)
    BY <1>6, <1>12, <2>1
  <2> QED
    BY <2>1, <2>2, <2>3
<1>19. Kept(title, ss, cs, "over")
  <2>1. ASSUME NEW i \in 1..Len(text), text[i].kind = "text"
        PROVE  \/ KeptIn(Tokens(i), TokenSets(cs))
               \/ \E k \in 1..Len(ss) : i \in ss[k].lines
    <3>1. \/ KeptIn(Tokens(i), TokenSets(chunks))
          \/ \E k \in 1..l : i \in sections[k].lines
      BY <2>1 DEF Kept, l
    <3>2. CASE KeptIn(Tokens(i), TokenSets(chunks))
      BY <1>18, <3>2 DEF KeptIn
    <3>3. CASE \E k \in 1..l : i \in sections[k].lines
      <4>1. PICK k \in 1..l : i \in sections[k].lines
        BY <3>3
      <4>2. CASE k = 1
        <5>1. KeptIn(Tokens(i), Pieces(ps))
          BY <1>3, <4>1, <4>2
        <5> QED
          BY <1>18, <5>1 DEF KeptIn
      <4>3. CASE k # 1
        <5> DEFINE j == k - 1
        <5>1. j \in 1..l - 1 /\ j + 1 = k
          BY <1>2, <4>3
        <5> HIDE DEF j
        <5>2. j \in 1..Len(ss) /\ ss[j] = sections[k]
          BY <1>5, <5>1
        <5> QED
          BY <4>1, <5>2
      <4> QED
        BY <4>2, <4>3
    <3> QED
      BY <3>1, <3>2, <3>3
  <2> QED
    BY <2>1 DEF Kept
<1> QED
  BY <1>1, <1>14, <1>15, <1>17, <1>19
-----------------------------------------------------------------------------
(* The invariant *)

Splitting(ss, P, C, ps) ==
    /\ ss # <<>>
    /\ \E f, m, e : SplitAt(TokensOf(Head(ss).lines), Head(ss).lines, ps, C, P, f, m, e)

InvAt(i, h, ls, gs, g, ss, P, C, ps, cs, ph) ==
    /\ ReadAt(i, h, ls, gs, g)
    /\ SectionsAt(ss) /\ ChunksAt(cs) /\ Passed(cs, ss)
    /\ Kept(h, ss, cs, ph)
    /\ ph \in {"read", "chunk", "split", "over"}
    /\ ph = "read" => cs = <<>> /\ \A k \in 1..Len(ss) : ss[k].title < h
    /\ ph = "over" => ss = <<>>
    /\ ph = "split" => Splitting(ss, P, C, ps)

ChunkInv ==
    /\ Written
    /\ InvAt(at, title, lines, pages, page, sections, paras, cur, pieces, chunks, phase)

(* The same of the next state, in the text of this one.                     *)
Reached ==
    /\ text' = text
    /\ InvAt(at', title', lines', pages', page', sections', paras', cur', pieces', chunks', phase')

LEMMA Begins == ASSUME ChunkerAssumption, ChunkInit PROVE ChunkInv
<1>1. /\ Written
      /\ at = 0 /\ title = 0 /\ lines = {} /\ pages = {} /\ page = 0
      /\ sections = <<>> /\ chunks = <<>> /\ phase = "read"
  BY DEF ChunkInit, Start, ChunkerAssumption, Written
<1>2. Len(text) \in Nat
  BY <1>1, LinesTyped
<1>3. ReadAt(0, 0, {}, {}, 0)
  <2>1. \A i \in 0 + 1 .. 0 : FALSE
    OBVIOUS
  <2>2. TextIn(0 + 1, 0) = {} /\ Clear(0 + 1, 0)
    BY <2>1 DEF TextIn, Clear
  <2>3. Said(0, 0) = {}
    BY <1>2 DEF Said
  <2>4. PagesIn(0, 0) = {} /\ PageOf(0) = 0
    BY <1>1, <2>3, PagesMove DEF PagesIn
  <2> QED
    BY <1>2, <2>2, <2>4 DEF ReadAt, Heads
<1>4. SectionsAt(<<>>) /\ ChunksAt(<<>>) /\ Passed(<<>>, <<>>)
  <2>1. <<>> \in Seq(AllSections) /\ <<>> \in Seq(AllChunks) /\ Len(<<>>) = 0 /\ \A k \in 1..0 : FALSE
    OBVIOUS
  <2> QED
    BY <2>1 DEF SectionsAt, ChunksAt, Passed
<1>5. Kept(0, <<>>, <<>>, "read")
  BY <1>2 DEF Kept
<1>6. \A k \in 1..Len(<<>>) : <<>>[k].title < 0
  OBVIOUS
<1> QED
  BY <1>1, <1>3, <1>4, <1>5, <1>6 DEF ChunkInv, InvAt

LEMMA ReadLineKeeps == ASSUME ChunkerAssumption, ChunkInv, ReadLine PROVE Reached
<1> DEFINE j == at + 1
<1>1. /\ Written /\ ReadAt(at, title, lines, pages, page) /\ SectionsAt(sections)
      /\ Kept(title, sections, chunks, "read") /\ chunks = <<>>
      /\ \A k \in 1..Len(sections) : sections[k].title < title
  BY DEF ChunkInv, InvAt, ReadLine
<1>2. /\ text' = text /\ at' = j /\ phase' = "read" /\ chunks' = <<>> /\ at < Len(text)
      /\ paras' = paras /\ cur' = cur /\ pieces' = pieces
  BY <1>1 DEF ReadLine
<1>3. Len(text) \in Nat /\ at \in 0..Len(text) /\ title \in 0..at /\ j \in 1..Len(text)
  BY <1>1, <1>2, LinesTyped DEF ReadAt
<1>4. ChunksAt(<<>>) /\ \A ss : Passed(<<>>, ss)
  <2>1. <<>> \in Seq(AllChunks) /\ Len(<<>>) = 0 /\ \A k \in 1..0 : FALSE
    OBVIOUS
  <2> QED
    BY <2>1 DEF ChunksAt, Passed
<1>5. SUFFICES /\ ReadAt(at', title', lines', pages', page') /\ SectionsAt(sections')
               /\ Kept(title', sections', <<>>, "read")
               /\ \A k \in 1..Len(sections') : sections'[k].title < title'
  BY <1>2, <1>4 DEF Reached, InvAt
<1> HIDE DEF j
<1>6. CASE /\ text[j].kind = "page" /\ page' = text[j].number
           /\ title' = title /\ lines' = lines /\ pages' = pages /\ sections' = sections
  <2>1. ReadAt(j, title, lines, pages, text[j].number)
    BY <1>1, <1>2, <1>6, ReadsOn DEF j
  <2> QED
    BY <1>1, <1>2, <1>6, <2>1
<1>7. CASE /\ text[j].kind = "heading" /\ sections' = Ended
           /\ title' = j /\ lines' = {} /\ pages' = HeadingPages /\ page' = page
  <2>1. ReadAt(j, j, {}, {page} \ {0}, page)
    BY <1>1, <1>2, <1>7, ReadsOn DEF j
  <2>2. /\ SectionsAt(Ended)
        /\ \A k \in 1..Len(Ended) : Ended[k].title <= title
        /\ \A k \in 1..Len(sections) : k \in 1..Len(Ended) /\ Ended[k] = sections[k]
        /\ \A i \in lines : Tokens(i) = {} \/ \E k \in 1..Len(Ended) : i \in Ended[k].lines
    BY <1>1, EndedIs
  <2>3. \A k \in 1..Len(Ended) : Ended[k].title < j
    <3>1. \A k \in 1..Len(Ended) : Ended[k].title \in Nat
      BY <1>1, <2>2, SectionTells DEF SectionsAt
    <3>2. title < j /\ title \in Nat /\ j \in Nat
      BY <1>3 DEF j
    <3> QED
      BY <2>2, <3>1, <3>2
  <2>4. Kept(j, Ended, <<>>, "read")
    <3>1. ASSUME NEW i \in 1..Len(text), text[i].kind = "text"
          PROVE  \/ KeptIn(Tokens(i), TokenSets(<<>>))
                 \/ \E k \in 1..Len(Ended) : i \in Ended[k].lines
                 \/ j < i
      <4>1. \/ KeptIn(Tokens(i), TokenSets(<<>>))
            \/ \E k \in 1..Len(sections) : i \in sections[k].lines
            \/ title < i
        BY <1>1, <3>1 DEF Kept
      <4>2. CASE \E k \in 1..Len(sections) : i \in sections[k].lines
        BY <2>2, <4>2
      <4>3. CASE title < i /\ ~(j < i)
        <5>1. i # j
          BY <1>7, <3>1
        <5>2. i \in title + 1 .. at
          BY <1>3, <4>3, <5>1 DEF j
        <5>3. i \in lines
          BY <1>1, <3>1, <5>2 DEF ReadAt, TextIn
        <5>4. CASE Tokens(i) = {}
          BY <5>4 DEF KeptIn
        <5> QED
          BY <2>2, <5>3, <5>4
      <4> QED
        BY <4>1, <4>2, <4>3
    <3> QED
      BY <3>1 DEF Kept
  <2> QED
    BY <1>2, <1>7, <2>1, <2>2, <2>3, <2>4 DEF HeadingPages
<1>8. CASE /\ text[j].kind = "text" /\ lines' = lines \cup {j} /\ pages' = pages \cup ({page} \ {0})
           /\ title' = title /\ page' = page /\ sections' = sections
  <2>1. ReadAt(j, title, lines \cup {j}, pages \cup ({page} \ {0}), page)
    BY <1>1, <1>2, <1>8, ReadsOn DEF j
  <2> QED
    BY <1>1, <1>2, <1>8, <2>1
<1> QED
  BY <1>6, <1>7, <1>8 DEF ReadLine, j

LEMMA EndOfTextKeeps == ASSUME ChunkerAssumption, ChunkInv, EndOfText PROVE Reached
<1>1. /\ Written /\ ReadAt(at, title, lines, pages, page) /\ SectionsAt(sections)
      /\ Kept(title, sections, chunks, "read") /\ chunks = <<>> /\ ChunksAt(chunks)
      /\ \A k \in 1..Len(sections) : sections[k].title < title
  BY DEF ChunkInv, InvAt, EndOfText
<1>2. /\ text' = text /\ phase' = "chunk" /\ sections' = Ended /\ at = Len(text)
      /\ at' = at /\ title' = title /\ lines' = lines /\ pages' = pages /\ page' = page
      /\ paras' = paras /\ cur' = cur /\ pieces' = pieces /\ chunks' = chunks
  BY DEF EndOfText
<1>3. /\ SectionsAt(Ended)
      /\ \A k \in 1..Len(sections) : k \in 1..Len(Ended) /\ Ended[k] = sections[k]
      /\ \A i \in lines : Tokens(i) = {} \/ \E k \in 1..Len(Ended) : i \in Ended[k].lines
  BY <1>1, EndedIs
<1>4. Passed(chunks, Ended)
  BY <1>1 DEF Passed
<1>5. ASSUME NEW i \in 1..Len(text), text[i].kind = "text"
      PROVE  \/ KeptIn(Tokens(i), TokenSets(chunks))
             \/ \E k \in 1..Len(Ended) : i \in Ended[k].lines
  <2>1. \/ KeptIn(Tokens(i), TokenSets(chunks))
        \/ \E k \in 1..Len(sections) : i \in sections[k].lines
        \/ title < i
    BY <1>1, <1>5 DEF Kept
  <2>2. CASE \E k \in 1..Len(sections) : i \in sections[k].lines
    BY <1>3, <2>2
  <2>3. CASE title < i
    <3>1. i \in title + 1 .. at
      BY <1>1, <1>2, <2>3, LinesTyped DEF ReadAt
    <3>2. i \in lines
      BY <1>1, <1>5, <3>1 DEF ReadAt, TextIn
    <3>3. CASE Tokens(i) = {}
      BY <3>3 DEF KeptIn
    <3> QED
      BY <1>3, <3>2, <3>3
  <2> QED
    BY <2>1, <2>2, <2>3
<1>6. Kept(title, Ended, chunks, "chunk")
  BY <1>5 DEF Kept
<1> QED
  BY <1>1, <1>2, <1>3, <1>4, <1>6 DEF Reached, InvAt

(* The steps.  Between the sections: the pieces of one are emitted.         *)
LEMMA EmitKeeps ==
    ASSUME ChunkerAssumption, ChunkInv, phase # "read", sections # <<>>,
           NEW ps, Good(ps, TokensOf(Section.lines)),
           \A i \in Section.lines : KeptIn(Tokens(i), Pieces(ps)),
           Emit(ps),
           UNCHANGED <<text, at, title, lines, pages, page>>
    PROVE  Reached
<1>1. /\ Written /\ ReadAt(at, title, lines, pages, page)
      /\ SectionsAt(sections) /\ ChunksAt(chunks) /\ Passed(chunks, sections)
      /\ Kept(title, sections, chunks, phase)
  BY DEF ChunkInv, InvAt
<1>2. Kept(title, sections, chunks, "over")
  BY <1>1 DEF Kept
<1>3. /\ SectionsAt(sections') /\ ChunksAt(chunks') /\ Passed(chunks', sections')
      /\ Kept(title, sections', chunks', "over") /\ phase' = "chunk"
  BY <1>1, <1>2, Emitted
<1>4. Kept(title, sections', chunks', "chunk")
  BY <1>3 DEF Kept
<1> QED
  BY <1>1, <1>3, <1>4 DEF Reached, InvAt

LEMMA SectionIs ==
    ASSUME ChunkInv, sections # <<>>
    PROVE  /\ Section = Head(sections) /\ IsSection(Section)
           /\ \E h, b : Place(h, b) /\ Section.lines = TextIn(h + 1, b)
<1>1. Written /\ sections \in Seq(AllSections) /\ \A k \in 1..Len(sections) : IsSection(sections[k])
  BY DEF ChunkInv, InvAt, SectionsAt
<1>2. Section = sections[1] /\ 1 \in 1..Len(sections)
  BY <1>1, EmptySeq DEF Section
<1>3. IsSection(Section)
  BY <1>1, <1>2
<1> QED
  BY <1>1, <1>3, SectionTells DEF Section

LEMMA KeepWholeKeeps == ASSUME ChunkerAssumption, ChunkInv, KeepWhole PROVE Reached
<1> DEFINE S == TokensOf(Section.lines)
<1>1. /\ phase = "chunk" /\ sections # <<>> /\ Cardinality(S) <= MaxTokens /\ Emit(<<S>>)
      /\ UNCHANGED <<text, at, title, lines, pages, page>>
  BY DEF KeepWhole
<1>2. Written /\ IsSection(Section)
  BY <1>1, SectionIs DEF ChunkInv
<1>3. S \in Stretches
  BY <1>2, SectionTells
<1>4. \A i \in Section.lines : Tokens(i) \subseteq S
  BY DEF TokensOf
<1> HIDE DEF S
<1>5. Cardinality(S) < Bound
  BY <1>1, <1>3, StretchTells, BoundIs, StepIs
<1>6. Good(<<S>>, S) /\ Pieces(<<S>>) = {S}
  BY <1>3, <1>5, OnePiece
<1>7. \A i \in Section.lines : KeptIn(Tokens(i), {S})
  BY <1>4 DEF KeptIn
<1> DEFINE ps == <<S>>
<1>8. Good(ps, S) /\ \A i \in Section.lines : KeptIn(Tokens(i), Pieces(ps))
  BY <1>6, <1>7
<1>9. Emit(ps)
  BY <1>1
<1> HIDE DEF ps
<1>10. Good(ps, TokensOf(Section.lines))
  BY <1>8 DEF S
<1> QED
  BY <1>1, <1>8, <1>9, <1>10, EmitKeeps

(* In a section that is being split.                                        *)
LEMMA SplitKeeps ==
    ASSUME ChunkerAssumption, ChunkInv, phase \in {"chunk", "split"}, phase' = "split",
           sections # <<>>, NEW f, NEW m, NEW e,
           SplitAt(TokensOf(Section.lines), Section.lines, pieces', cur', paras', f, m, e),
           UNCHANGED <<text, at, title, lines, pages, page, sections, chunks>>
    PROVE  Reached
<1>1. Splitting(sections, paras', cur', pieces')
  BY DEF Splitting, Section
<1>2. Kept(title, sections, chunks, "split")
  BY DEF Kept, ChunkInv, InvAt
<1> QED
  BY <1>1, <1>2 DEF Reached, ChunkInv, InvAt

LEMMA OpenSectionKeeps == ASSUME ChunkerAssumption, ChunkInv, OpenSection PROVE Reached
<1>1. /\ phase = "chunk" /\ phase' = "split" /\ sections # <<>>
      /\ paras' = Paragraphs(Section.lines) /\ cur' = {} /\ pieces' = <<>>
      /\ UNCHANGED <<text, at, title, lines, pages, page, sections, chunks>>
  BY DEF OpenSection
<1>2. PICK h, b : Place(h, b) /\ Section.lines = TextIn(h + 1, b)
  BY <1>1, SectionIs
<1>3. Written
  BY DEF ChunkInv
<1> DEFINE ls == TextIn(h + 1, b)  x == Offset(h + 1)  y == Offset(b + 1)
<1>4. /\ ls \in SUBSET (1..Len(text)) /\ x \in Nat /\ y \in Nat /\ x <= y
      /\ TokensOf(ls) = x + 1 .. y /\ Divided(Paragraphs(ls), ls)
  BY <1>2, <1>3, PlaceTells
<1> HIDE DEF ls, x, y
<1>5. SplitAt(TokensOf(ls), ls, <<>>, {}, Paragraphs(ls), x, x, y)
  BY <1>3, <1>4, SectionOpened
<1>6. SplitAt(TokensOf(Section.lines), Section.lines, pieces', cur', paras', x, x, y)
  BY <1>1, <1>2, <1>5 DEF ls
<1> QED
  BY <1>1, <1>6, SplitKeeps

LEMMA SplitTells ==
    ASSUME ChunkInv, phase = "split"
    PROVE  /\ sections # <<>>
           /\ \E f, m, e : SplitAt(TokensOf(Section.lines), Section.lines, pieces, cur, paras, f, m, e)
BY DEF ChunkInv, InvAt, Splitting, Section

LEMMA TakeParagraphKeeps == ASSUME ChunkerAssumption, ChunkInv, TakeParagraph PROVE Reached
<1> DEFINE p == First(paras)
<1>1. /\ phase = "split" /\ phase' = "split" /\ paras # {} /\ Cardinality(p) <= MaxTokens
      /\ paras' = paras \ {p}
      /\ UNCHANGED <<text, at, title, lines, pages, page, sections, chunks>>
  BY DEF TakeParagraph
<1>2. sections # <<>>
  BY <1>1, SplitTells
<1>3. PICK f, m, e : SplitAt(TokensOf(Section.lines), Section.lines, pieces, cur, paras, f, m, e)
  BY <1>1, SplitTells
<1>4. CASE SizeOf(cur) + Cardinality(p) > MaxTokens
  <2>1. pieces' = pieces \o Joined(cur) /\ cur' = TailOf(cur) \cup {p}
    BY <1>4 DEF TakeParagraph
  <2>2. PICK g \in Nat : SplitAt(TokensOf(Section.lines), Section.lines, pieces \o Joined(cur),
                                 TailOf(cur) \cup {p}, paras \ {p}, g, Max(p), e)
    BY <1>1, <1>3, <1>4, PieceBroken
  <2> HIDE DEF p
  <2>3. SplitAt(TokensOf(Section.lines), Section.lines, pieces', cur', paras', g, Max(p), e)
    BY <1>1, <2>1, <2>2
  <2> QED
    BY <1>1, <1>2, <2>3, SplitKeeps
<1>5. CASE ~(SizeOf(cur) + Cardinality(p) > MaxTokens)
  <2>1. pieces' = pieces /\ cur' = cur \cup {p}
    BY <1>5 DEF TakeParagraph
  <2>2. SizeOf(cur) + Cardinality(p) <= MaxTokens
    <3>1. SizeOf(cur) \in Int /\ Cardinality(p) \in Int /\ MaxTokens \in Int
      <4>1. MaxTokens \in Nat
        BY StepIs
      <4>2. p \in Stretches
        BY <1>1, <1>3, NextIs
      <4>3. Cardinality(p) \in Nat
        BY <4>2, StretchTells
      <4>4. SizeOf(cur) \in Nat
        <5>1. UNION cur = f + 1 .. m /\ f \in Nat /\ m \in Nat
          BY <1>3 DEF SplitAt
        <5>2. f + 1 \in Int /\ m \in Int
          BY <5>1
        <5>3. IsFiniteSet(UNION cur)
          BY <5>1, <5>2, FS_Interval
        <5> QED
          BY <5>3, FS_CardinalityType DEF SizeOf
      <4> QED
        BY <4>1, <4>3, <4>4
    <3> DEFINE x == SizeOf(cur)  y == Cardinality(p)
    <3>2. x \in Int /\ y \in Int /\ MaxTokens \in Int /\ ~(x + y > MaxTokens)
      BY <1>5, <3>1
    <3> HIDE DEF x, y
    <3>3. x + y <= MaxTokens
      BY <3>2
    <3> QED
      BY <3>3 DEF x, y
  <2>3. SplitAt(TokensOf(Section.lines), Section.lines, pieces, cur \cup {p}, paras \ {p}, f, Max(p), e)
    BY <1>1, <1>3, <2>2, ParagraphTaken
  <2> HIDE DEF p
  <2>4. SplitAt(TokensOf(Section.lines), Section.lines, pieces', cur', paras', f, Max(p), e)
    BY <1>1, <2>1, <2>3
  <2> QED
    BY <1>1, <1>2, <2>4, SplitKeeps
<1> QED
  BY <1>4, <1>5

LEMMA CutParagraphKeeps == ASSUME ChunkerAssumption, ChunkInv, CutParagraph PROVE Reached
<1> DEFINE p == First(paras)
<1>1. /\ phase = "split" /\ phase' = "split" /\ paras # {} /\ Cardinality(p) > MaxTokens
      /\ pieces' = pieces \o Joined(cur) \o Slide(p) /\ cur' = {} /\ paras' = paras \ {p}
      /\ UNCHANGED <<text, at, title, lines, pages, page, sections, chunks>>
  BY DEF CutParagraph
<1>2. sections # <<>>
  BY <1>1, SplitTells
<1>3. PICK f, m, e : SplitAt(TokensOf(Section.lines), Section.lines, pieces, cur, paras, f, m, e)
  BY <1>1, SplitTells
<1>4. SplitAt(TokensOf(Section.lines), Section.lines, pieces \o Joined(cur) \o Slide(p), {},
              paras \ {p}, Max(p), Max(p), e)
  BY <1>1, <1>3, ParagraphCut
<1> HIDE DEF p
<1>5. SplitAt(TokensOf(Section.lines), Section.lines, pieces', cur', paras', Max(p), Max(p), e)
  BY <1>1, <1>4
<1> QED
  BY <1>1, <1>2, <1>5, SplitKeeps

LEMMA CloseSectionKeeps == ASSUME ChunkerAssumption, ChunkInv, CloseSection PROVE Reached
<1> DEFINE ps == pieces \o Joined(cur)
<1>1. /\ phase = "split" /\ paras = {} /\ Emit(ps)
      /\ UNCHANGED <<text, at, title, lines, pages, page>>
  BY DEF CloseSection
<1>2. sections # <<>>
  BY <1>1, SplitTells
<1>3. PICK f, m, e : SplitAt(TokensOf(Section.lines), Section.lines, pieces, cur, {}, f, m, e)
  BY <1>1, SplitTells
<1>4. Good(ps, TokensOf(Section.lines)) /\ \A i \in Section.lines : KeptIn(Tokens(i), Pieces(ps))
  BY <1>3, SectionClosed
<1> HIDE DEF ps
<1> QED
  BY <1>1, <1>2, <1>4, EmitKeeps

LEMMA FinishKeeps == ASSUME ChunkerAssumption, ChunkInv, Finish PROVE Reached
<1>1. Kept(title, sections, chunks, "over")
  BY DEF Kept, ChunkInv, InvAt, Finish
<1> QED
  BY <1>1 DEF Reached, ChunkInv, InvAt, Finish
(* Nothing changes the text, so what holds in it is what will hold.         *)
LEMMA SameText == ASSUME ChunkInv, Reached PROVE ChunkInv'
<1>1. text' = text
  BY DEF Reached
<1>2. \A i : Tokens(i)' = Tokens(i)
  <2>1. \A i : Size(i)' = Size(i)
    BY <1>1 DEF Size
  <2>2. \A i : Offset(i)' = Offset(i)
    BY <1>1, <2>1 DEF Offset
  <2> QED
    BY <2>1, <2>2 DEF Tokens
<1>3. \A h, b : TextIn(h + 1, b)' = TextIn(h + 1, b) /\ PagesIn(h, b)' = PagesIn(h, b)
  <2>1. \A h, b : TextIn(h + 1, b)' = TextIn(h + 1, b)
    BY <1>1 DEF TextIn
  <2>2. \A h, b : PagesIn(h, b)' = PagesIn(h, b)
    BY <1>1 DEF PagesIn, Said, PageOf
  <2> QED
    BY <2>1, <2>2
<1>4. \A h, b : Place(h, b)' <=> Place(h, b)
  BY <1>1, <1>2, <1>3 DEF Place, Heads, Clear, TokensOf
<1>5. \A h, b : SectionAt(h, b)' = SectionAt(h, b)
  BY <1>3 DEF SectionAt
<1>6. \A h, b, y, p : ChunkAt(h, b, y, p)' = ChunkAt(h, b, y, p)
  BY <1>3 DEF ChunkAt
<1>7. Written'
  BY <1>1 DEF Written, ChunkInv
<1>8. ReadAt(at, title, lines, pages, page)'
  BY DEF Reached, InvAt, ReadAt, Heads, Clear, TextIn, PagesIn, Said, PageOf
<1>9. SectionsAt(sections)'
  <2>1. AllSections' = AllSections
    BY <1>1, <1>5 DEF AllSections
  <2>2. (\A k \in 1..Len(sections) : IsSection(sections[k]))'
    <3>1. \A k \in 1..Len(sections') : IsSection(sections'[k])
      BY DEF Reached, InvAt, SectionsAt
    <3> QED
      BY <1>1, <1>4, <1>5, <3>1 DEF IsSection
  <2>3. (sections \in Seq(AllSections))'
    BY <2>1 DEF Reached, InvAt, SectionsAt
  <2>4. (\A j, k \in 1..Len(sections) : j < k => sections[j].title < sections[k].title)'
    BY DEF Reached, InvAt, SectionsAt
  <2> QED
    BY <2>2, <2>3, <2>4 DEF SectionsAt
<1>10. ChunksAt(chunks)'
  <2>1. AllChunks' = AllChunks
    BY <1>1, <1>6 DEF AllChunks
  <2>2. \A h, b : TokensOf(TextIn(h + 1, b))' = TokensOf(TextIn(h + 1, b))
    BY <1>2, <1>3 DEF TokensOf
  <2>3. (chunks \in Seq(AllChunks))'
    BY <2>1 DEF Reached, InvAt, ChunksAt
  <2>4. (\A k \in 1..Len(chunks) : IsChunk(chunks[k]))'
    <3>1. \A k \in 1..Len(chunks') : IsChunk(chunks'[k])
      BY DEF Reached, InvAt, ChunksAt
    <3> QED
      BY <1>1, <1>4, <1>6, <2>2, <3>1 DEF IsChunk
  <2>5. (\A j, k \in 1..Len(chunks) : j < k => Max(chunks[j].tokens) < Max(chunks[k].tokens))'
    BY DEF Reached, InvAt, ChunksAt
  <2> QED
    BY <2>3, <2>4, <2>5 DEF ChunksAt
<1>11. Passed(chunks, sections)'
  BY DEF Reached, InvAt, Passed
<1>12. Kept(title, sections, chunks, phase)'
  BY <1>1, <1>2 DEF Reached, InvAt, Kept, KeptIn, TokenSets
<1>13. (phase = "split" => Splitting(sections, paras, cur, pieces))'
  BY <1>1, <1>2 DEF Reached, InvAt, Splitting, SplitAt, TokensOf
<1>14. (/\ phase \in {"read", "chunk", "split", "over"}
        /\ phase = "read" => chunks = <<>> /\ \A k \in 1..Len(sections) : sections[k].title < title
        /\ phase = "over" => sections = <<>>)'
  BY DEF Reached, InvAt
<1> QED
  BY <1>7, <1>8, <1>9, <1>10, <1>11, <1>12, <1>13, <1>14 DEF ChunkInv, InvAt

LEMMA StepKeeps == ASSUME ChunkerAssumption, ChunkInv, [ChunkNext]_chunkVars PROVE ChunkInv'
<1>1. UNCHANGED chunkVars => Reached
  BY DEF chunkVars, Reached, ChunkInv
<1>2. ChunkNext => Reached
  BY ReadLineKeeps, EndOfTextKeeps, KeepWholeKeeps, OpenSectionKeeps, TakeParagraphKeeps,
     CutParagraphKeeps, CloseSectionKeeps, FinishKeeps DEF ChunkNext
<1> QED
  BY <1>1, <1>2, SameText

LEMMA InvShows == ASSUME ChunkerAssumption, ChunkInv PROVE ChunksAreRight
<1>1. /\ Written /\ ChunksAt(chunks) /\ Kept(title, sections, chunks, phase)
      /\ phase = "over" => sections = <<>>
  BY DEF ChunkInv, InvAt
<1>2. /\ Len(text) \in Nat /\ DOMAIN text = 1..Len(text)
      /\ Len(chunks) \in Nat /\ DOMAIN chunks = 1..Len(chunks)
  BY <1>1, LinesTyped DEF ChunksAt
<1>3. NothingIsCut
  <2>1. ASSUME phase = "over", NEW i \in 1..Len(text), text[i].kind = "text", NEW t \in Tokens(i)
        PROVE  \E k \in 1..Len(chunks) : Tokens(i) \cap (t .. t + OverlapTokens) \subseteq chunks[k].tokens
    <3>1. ~\E k \in 1..Len(<<>>) : i \in <<>>[k].lines
      OBVIOUS
    <3>2. KeptIn(Tokens(i), TokenSets(chunks))
      BY <1>1, <2>1, <3>1 DEF Kept
    <3> QED
      BY <3>2 DEF KeptIn, TokenSets
  <2> QED
    BY <1>2, <2>1 DEF NothingIsCut
<1>4. ChunksAreBounded
  <2>1. ASSUME NEW k \in 1..Len(chunks)
        PROVE  /\ chunks[k].tokens = Min(chunks[k].tokens) .. Max(chunks[k].tokens)
               /\ Cardinality(chunks[k].tokens) < Bound
               /\ k > 1 => Max(chunks[k - 1].tokens) < Max(chunks[k].tokens)
    <3>1. IsChunk(chunks[k])
      BY <1>1 DEF ChunksAt
    <3>2. chunks[k].tokens \in Stretches /\ Cardinality(chunks[k].tokens) < Bound
      BY <1>1, <3>1, ChunkTells
    <3>3. k > 1 => k - 1 \in 1..Len(chunks) /\ k - 1 < k
      BY <1>2
    <3>4. k > 1 => Max(chunks[k - 1].tokens) < Max(chunks[k].tokens)
      BY <1>1, <3>3 DEF ChunksAt
    <3> QED
      BY <3>2, <3>4, StretchTells
  <2> QED
    BY <1>2, <2>1 DEF ChunksAreBounded, Bound
<1>5. PlaceIsRight
  <2> SUFFICES ASSUME NEW k \in 1..Len(chunks), NEW c, c = chunks[k],
                      NEW S, S = {i \in 1..Len(text) : text[i].kind # "page" /\ HeadingOf(i) = c.title}
               PROVE  /\ \A i \in S : Tokens(i) \cap c.tokens # {} \/ (c.headed /\ i = c.title) =>
                              PageOf(i) = 0 \/ PageOf(i) \in c.range[1] .. c.range[2]
                      /\ \A i \in 1..Len(text) :
                              text[i].kind = "text" /\ Tokens(i) \cap c.tokens # {} => i \in S
                      /\ c.range # <<0, 0>> => \A g \in Range(c.range) : \E i \in S : PageOf(i) = g
    BY <1>2 DEF PlaceIsRight
  <2>1. IsChunk(c)
    BY <1>1 DEF ChunksAt
  <2>2. PICK h \in 0..Len(text), b \in 0..Len(text) :
            /\ Place(h, b) /\ c.title = h
            /\ c.tokens \in Stretches /\ c.tokens \subseteq TokensOf(TextIn(h + 1, b))
            /\ c.range = ReadBack(Stored(PageRange(PagesIn(h, b))))
    BY <1>1, <2>1, ChunkTells
  <2>3. h <= b /\ Heads(h) /\ Clear(h + 1, b) /\ h \in Nat /\ b \in Nat
    BY <1>2, <2>2 DEF Place
  <2> DEFINE G == PagesIn(h, b)
             r == c.range
  <2>4. PICK n \in Nat : G \in SUBSET (1..n)
    BY <1>1, PagesBounded
  <2>5. /\ G = {} => r = <<0, 0>>
        /\ G # {} => /\ r = <<Min(G), Max(G)>> /\ Min(G) \in G /\ Max(G) \in G
                     /\ \A x \in G : Min(G) <= x /\ x <= Max(G)
    <3> HIDE DEF G
    <3> QED
      BY <2>2, <2>4, RangeIs DEF G
  <2>6. ASSUME NEW i \in Said(h, b) PROVE i \in S
    <3>1. i \in 1..Len(text) /\ text[i].kind # "page" /\ i \in h..b
      BY DEF Said
    <3>2. h <= i /\ Clear(h + 1, i)
      BY <2>3, <3>1 DEF Clear
    <3>3. HeadingOf(i) = h
      BY <1>1, <2>3, <3>1, <3>2, HeadingIs
    <3> QED
      BY <2>2, <3>1, <3>3
  <2>7. ASSUME NEW i \in 1..Len(text), Tokens(i) \cap c.tokens # {}
        PROVE  i \in Said(h, b)
    <3>1. PICK t \in Tokens(i) : t \in TokensOf(TextIn(h + 1, b))
      BY <2>2, <2>7
    <3>2. PICK j \in TextIn(h + 1, b) : t \in Tokens(j)
      BY <3>1 DEF TokensOf
    <3>3. j \in 1..Len(text) /\ text[j].kind = "text" /\ j \in h + 1 .. b
      BY <1>1, <2>2, PlaceTells DEF TextIn
    <3>4. i = j
      BY <1>1, <3>1, <3>2, <3>3, TokensApart
    <3>5. j \in h..b
      BY <2>3, <3>3
    <3> QED
      BY <3>3, <3>4, <3>5 DEF Said
  <2>8. ASSUME NEW i \in 1..Len(text), i = h PROVE i \in Said(h, b)
    <3>1. text[h].kind = "heading" /\ h \in h..b
      BY <2>3, <2>8 DEF Heads
    <3> QED
      BY <2>8, <3>1 DEF Said
  <2>9. ASSUME NEW i \in Said(h, b) PROVE PageOf(i) = 0 \/ PageOf(i) \in r[1]..r[2]
    <3>1. CASE PageOf(i) # 0
      <4>1. PageOf(i) \in G
        BY <3>1 DEF PagesIn
      <4> HIDE DEF G, r
      <4>2. r = <<Min(G), Max(G)>> /\ Min(G) <= PageOf(i) /\ PageOf(i) <= Max(G)
        BY <2>5, <4>1
      <4>3. G \subseteq Int
        BY <2>4
      <4>4. Min(G) \in Int /\ Max(G) \in Int /\ PageOf(i) \in Int
        BY <2>5, <4>1, <4>3
      <4> QED
        BY <4>2, <4>4
    <3> QED
      BY <3>1
  <2>10. ASSUME r # <<0, 0>>, NEW g \in Range(r) PROVE \E i \in Said(h, b) : PageOf(i) = g
    <3>1. g \in G
      <4> HIDE DEF G, r
      <4>1. r = <<Min(G), Max(G)>> /\ Min(G) \in G /\ Max(G) \in G
        BY <2>5, <2>10
      <4>2. g = Min(G) \/ g = Max(G)
        BY <4>1 DEF Range
      <4> QED
        BY <4>1, <4>2
    <3> QED
      BY <3>1 DEF PagesIn
  <2> HIDE DEF G
  <2> QED
    BY <2>2, <2>6, <2>7, <2>8, <2>9, <2>10
<1> QED
  BY <1>3, <1>4, <1>5 DEF ChunksAreRight, ChunksHoldTheText

(* For every document, length of a chunk and smaller overlap: no stretch of *)
(* a line up to the overlap is cut by every chunk, a chunk is one stretch   *)
(* of the text, of bounded length, that ends after the chunk before, and    *)
(* its heading and pages are those of its lines (chunk, _split_by_headings, *)
(* _split_body).                                                            *)
THEOREM ChunksAreRightHolds == ChunkSpec => []ChunksAreRight
<1>1. ChunkInit => ChunkInv
  BY Begins, ChunkerAssumption
<1>2. ChunkInv /\ [ChunkNext]_chunkVars => ChunkInv'
  BY StepKeeps, ChunkerAssumption
<1>3. ChunkInv => ChunksAreRight
  BY InvShows, ChunkerAssumption
<1> QED
  BY <1>1, <1>2, <1>3, PTL DEF ChunkSpec

-----------------------------------------------------------------------------
(* LotSetup *)

USE SetupAssumption

-----------------------------------------------------------------------------
(* The inductive invariant *)

Row == [count : Nat, min : Nat, spec : Nat, exp : Nat, qual : Nat, region : Nat]

RowFits(c) == c.count >= c.min /\ WeightsFit(c.spec + c.exp + c.qual + c.region)

Column == [Experts -> SUBSET Nat]

(* What a request holds was checked when it was accepted.                   *)
RequestOk(q) ==
    /\ q.op \in {"idle", "lot", "dims", "criteria", "match"}
    /\ q.op = "lot" => q.lot \in Lots /\ q.amount \in Amounts
    /\ q.op = "dims" => q.lot \in Followed /\ q.list \in Lists /\ WeightsFit(WeightSum(q.list))
    /\ q.op = "criteria" =>
            q.lot \in Followed /\ q.new \in Profiles /\ RowFits(q.new) /\ q.seen \in {NoRow} \cup Row
    /\ q.op = "match" =>
            q.lot \in Followed /\ q.dims \in {<<>>} \cup Lists /\ q.seen \in Column /\ q.by \in Row

SetupType ==
    /\ budget \in [Lots -> Nat]
    /\ dims \in [Followed -> {<<>>} \cup Lists]
    /\ rubric \in [Followed -> SUBSET Nat]
    /\ criteria \in [Followed -> {NoRow} \cup Row]
    /\ asg \in [Followed -> Column]
    /\ req = [r \in Requests |-> req[r]]
    /\ \A r \in Requests : RequestOk(req[r])
    /\ floor \in [Followed -> Nat]

(* A row of criteria is never deleted.                                      *)
RowsStay ==
    \A r \in Requests :
        req[r].op = "criteria" /\ req[r].seen # NoRow => criteria[req[r].lot] # NoRow

TypeInv == SetupType /\ RowsStay

-----------------------------------------------------------------------------
(* Records, lists and requests *)

LEMMA RowIsNot ==
    ASSUME NEW c \in Row PROVE c # NoRow
<1>1. DOMAIN c = {"count", "min", "spec", "exp", "qual", "region"}
  BY DEF Row
<1>2. DOMAIN NoRow = {"count"}
  BY DEF NoRow
<1>3. "min" \in DOMAIN c /\ "min" \notin DOMAIN NoRow
  BY <1>1, <1>2
<1> QED
  BY <1>3

LEMMA ProfileIsRow == Profiles \subseteq Row
BY DEF Row

LEMMA FallbackIsRow == Fallback \in Row
BY DEF Fallback, Row

(* The columns of two rows make a row.                                      *)
LEMMA ColumnsAreRow ==
    ASSUME NEW row \in Row, NEW seen \in Row, NEW new \in Row
    PROVE  Columns(row, seen, new) \in Row
<1> DEFINE c == Columns(row, seen, new)
<1>1. DOMAIN new = {"count", "min", "spec", "exp", "qual", "region"}
  BY DEF Row
<1>2. \A x \in DOMAIN new : row[x] \in Nat /\ new[x] \in Nat
  BY <1>1 DEF Row
<1>3. /\ DOMAIN c = {"count", "min", "spec", "exp", "qual", "region"}
      /\ c = [x \in DOMAIN new |-> c[x]]
      /\ \A x \in DOMAIN new : c[x] \in Nat
  BY <1>1, <1>2 DEF Columns
<1> HIDE DEF c
<1>4. c = [count |-> c.count, min |-> c.min, spec |-> c.spec, exp |-> c.exp,
           qual |-> c.qual, region |-> c.region]
  BY <1>1, <1>3
<1>5. c.count \in Nat /\ c.min \in Nat /\ c.spec \in Nat
  BY <1>1, <1>3
<1>6. c.exp \in Nat /\ c.qual \in Nat /\ c.region \in Nat
  BY <1>1, <1>3
<1>7. [count |-> c.count, min |-> c.min, spec |-> c.spec, exp |-> c.exp,
        qual |-> c.qual, region |-> c.region] \in Row
  BY <1>5, <1>6 DEF Row
<1> QED
  BY <1>4, <1>7 DEF c

(* Without another's change they are what was asked for.                    *)
LEMMA ColumnsAlone ==
    ASSUME NEW row \in Row, NEW new \in Row
    PROVE  Columns(row, row, new) = new
<1>1. new = [x \in DOMAIN new |-> new[x]]
  BY DEF Row
<1>2. Columns(row, row, new) = [x \in DOMAIN new |-> new[x]]
  BY DEF Columns
<1> QED
  BY <1>1, <1>2

LEMMA ListFacts ==
    ASSUME NEW w \in Lists
    PROVE  /\ DOMAIN w = 1..Len(w) /\ Len(w) \in Nat \ {0} /\ 1 \in DOMAIN w
           /\ \A d \in DOMAIN w : w[d].detailed \in BOOLEAN
<1>1. w \in Seq(Dimension) /\ w # <<>>
  OBVIOUS
<1>2. Len(w) \in Nat /\ DOMAIN w = 1..Len(w)
  BY <1>1, LenProperties
<1>3. Len(w) # 0
  BY <1>1, EmptySeq
<1>4. \A d \in 1..Len(w) : w[d] \in Dimension
  BY <1>1, ElementOfSeq
<1> QED
  BY <1>2, <1>3, <1>4 DEF Dimension

(* Where nothing is left of the old dimensions the new ones stand alone;    *)
(* where something is, a row is there.                                      *)
LEMMA InsertedAlone ==
    ASSUME NEW rows \in {<<>>} \cup Lists, NEW list \in Lists,
           DOMAIN rows \cap DOMAIN list = {}
    PROVE  rows = <<>> /\ Inserted(rows, list) = list
<1>1. rows = <<>>
  BY ListFacts
<1>2. DOMAIN rows = {}
  BY <1>1
<1>3. Inserted(rows, list) = [d \in DOMAIN list |-> list[d]]
  BY <1>2 DEF Inserted
<1>4. list = [d \in DOMAIN list |-> list[d]]
  BY ListFacts
<1> QED
  BY <1>1, <1>3, <1>4

-----------------------------------------------------------------------------
(* What is typed stays typed *)

LEMMA Asked ==
    ASSUME SetupType, NEW r \in Requests, NEW q, Ask(r, q)
    PROVE  /\ req[r] = Idle /\ req[r].op = "idle" /\ req'[r] = q
           /\ \A x \in Requests : x # r => req'[x] = req[x]
           /\ req' = [x \in Requests |-> req'[x]]
           /\ RequestOk(q) => \A x \in Requests : RequestOk(req'[x])
<1>1. req[r] = Idle /\ req' = [req EXCEPT ![r] = q] /\ Idle.op = "idle"
  BY DEF Ask, Idle
<1>2. req = [x \in Requests |-> req[x]] /\ \A x \in Requests : RequestOk(req[x])
  BY DEF SetupType
<1>3. /\ req'[r] = q /\ \A x \in Requests : x # r => req'[x] = req[x]
      /\ req' = [x \in Requests |-> req'[x]]
  BY <1>1, <1>2
<1> QED
  BY <1>1, <1>2, <1>3

LEMMA RequestEnded ==
    ASSUME SetupType, NEW r \in Requests, End(r)
    PROVE  /\ req'[r] = Idle /\ req'[r].op = "idle"
           /\ \A x \in Requests : x # r => req'[x] = req[x]
           /\ req' = [x \in Requests |-> req'[x]]
           /\ \A x \in Requests : RequestOk(req'[x])
<1>1. RequestOk(Idle) /\ Idle.op = "idle"
  BY DEF RequestOk, Idle
<1> QED
  BY <1>1 DEF SetupType, End

LEMMA Lesser ==
    ASSUME NEW a \in Nat, NEW b \in Nat
    PROVE  Min({a, b}) \in Nat /\ Min({a, b}) = IF a <= b THEN a ELSE b
<1>1. \E x \in {a, b} : \A y \in {a, b} : x <= y
  OBVIOUS
<1>2. Min({a, b}) \in {a, b} /\ \A y \in {a, b} : Min({a, b}) <= y
  BY <1>1 DEF Min
<1> QED
  BY <1>2

(* A ranking has every candidate at one place.                              *)
LEMMA RankingFacts ==
    ASSUME NEW pool \in SUBSET Experts, NEW tags, NEW w, NEW ranking \in Rankings(pool, tags, w)
    PROVE  /\ Len(ranking) \in Nat
           /\ \A i \in 1..Len(ranking) : ranking[i] \in Experts
           /\ \A i, j \in 1..Len(ranking) : ranking[i] = ranking[j] => i = j
<1> DEFINE n == Cardinality(pool)
<1>1. n \in Nat
  BY FS_Subset, FS_CardinalityType
<1>2. ranking \in SetToSeqs(pool)
  BY DEF Rankings
<1>3. ranking \in [1..n -> pool] /\ \A i, j \in 1..n : i # j => ranking[i] # ranking[j]
  BY <1>2 DEF SetToSeqs
<1>4. ranking \in Seq(pool)
  BY <1>1, <1>3, SeqDef
<1>5. Len(ranking) \in Nat /\ DOMAIN ranking = 1..Len(ranking)
  BY <1>4, LenProperties
<1>6. 1..Len(ranking) = 1..n
  BY <1>3, <1>5
<1> QED
  BY <1>3, <1>5, <1>6

LEMMA ShareFacts ==
    ASSUME NEW i, NEW n \in Nat, NEW size, NEW min
    PROVE  Share(i, n, size, min) \in SUBSET Nat
BY DEF Share

(* What a matching that is not refused writes.                              *)
Writes(q, size, ranking) ==
    LET n == Len(q.dims)
        s(i) == Share(i, n, size, q.by.min)
    IN  /\ \A i \in 1..size : ranking[i] \in Experts
        /\ \A i, j \in 1..size : ranking[i] = ranking[j] => i = j
        /\ \A l \in Followed : l # q.lot => asg'[l] = asg[l] /\ floor'[l] = floor[l]
        /\ \A i \in 1..size :
                \/ asg'[q.lot][ranking[i]] = s(i)
                \/ s(i) = q.seen[ranking[i]] /\ asg'[q.lot][ranking[i]] = asg[q.lot][ranking[i]]
        /\ floor'[q.lot] = IF q.dims = dims[q.lot] THEN Min({size, q.by.min}) ELSE 0

LEMMA Matched ==
    ASSUME SetupType, NEW r \in Requests, CommitMatch(r)
    PROVE  /\ asg' \in [Followed -> Column] /\ floor' \in [Followed -> Nat]
           /\ \/ UNCHANGED <<asg, floor>>
              \/ \E size \in Nat : \E ranking : Writes(req[r], size, ranking)
<1> DEFINE q == req[r]
<1>0. /\ q.op = "match" /\ q.lot \in Followed /\ q.by \in Row /\ q.by.min \in Nat
      /\ q.by.count \in Nat /\ Len(q.dims) \in Nat
      /\ asg \in [Followed -> Column] /\ floor \in [Followed -> Nat]
  <2>1. q.op = "match" /\ RequestOk(q)
    BY DEF CommitMatch, SetupType
  <2>2. q.lot \in Followed /\ q.by \in Row /\ q.dims \in {<<>>} \cup Lists
    BY <2>1 DEF RequestOk
  <2>3. q.by.min \in Nat /\ q.by.count \in Nat
    BY <2>2 DEF Row
  <2>4. Len(q.dims) \in Nat
    BY <2>2, ListFacts, EmptySeq
  <2> QED
    BY <2>1, <2>2, <2>3, <2>4 DEF SetupType
<1> DEFINE Outcome(ranking) ==
            LET size == Min({Len(ranking), q.by.count})
                chosen == {ranking[i] : i \in 1..size}
                share == [e \in chosen |->
                            Share(CHOOSE i \in 1..size : ranking[i] = e, Len(q.dims), size, q.by.min)]
            IN  IF \E e \in chosen : q.seen[e] = Unassigned /\ asg[q.lot][e] # Unassigned
                THEN UNCHANGED <<asg, floor>>
                ELSE /\ asg' = [asg EXCEPT ![q.lot] = [e \in Experts |->
                                    IF e \in chosen /\ share[e] # q.seen[e] THEN share[e] ELSE @[e]]]
                     /\ floor' = [floor EXCEPT ![q.lot] =
                                    IF q.dims = dims[q.lot] THEN Min({size, q.by.min}) ELSE 0]
<1>a. PICK pool \in {Candidates(q.tags), Candidates(q.tags) \ Conflicted} :
        \E ranking \in Rankings(pool, q.tags, q.by) : Outcome(ranking)
  BY DEF CommitMatch
<1>b. PICK ranking \in Rankings(pool, q.tags, q.by) : Outcome(ranking)
  BY <1>a
<1> DEFINE size == Min({Len(ranking), q.by.count})
           chosen == {ranking[i] : i \in 1..size}
           share == [e \in chosen |->
                        Share(CHOOSE i \in 1..size : ranking[i] = e, Len(q.dims), size, q.by.min)]
           asked(e) == e \in chosen /\ share[e] # q.seen[e]
<1>2. CASE UNCHANGED <<asg, floor>>
  BY <1>0, <1>2
<1>3. ASSUME /\ asg' = [asg EXCEPT ![q.lot] =
                            [e \in Experts |-> IF asked(e) THEN share[e] ELSE @[e]]]
             /\ floor' = [floor EXCEPT ![q.lot] =
                            IF q.dims = dims[q.lot] THEN Min({size, q.by.min}) ELSE 0]
      PROVE  /\ asg' \in [Followed -> Column] /\ floor' \in [Followed -> Nat]
             /\ size \in Nat /\ Writes(q, size, ranking)
  <2>1. /\ Len(ranking) \in Nat
        /\ \A i \in 1..Len(ranking) : ranking[i] \in Experts
        /\ \A i, j \in 1..Len(ranking) : ranking[i] = ranking[j] => i = j
    <3>1. pool \in SUBSET Experts
      BY DEF Candidates
    <3> QED
      BY <3>1, RankingFacts
  <2>2. size \in Nat /\ size <= Len(ranking)
    <3>1. q.by.count \in Nat
      BY <1>0
    <3> DEFINE a == Len(ranking)
               b == q.by.count
    <3>2. a \in Nat /\ b \in Nat
      BY <2>1, <3>1
    <3> HIDE DEF a, b
    <3>3. Min({a, b}) \in Nat /\ Min({a, b}) <= a
      BY <3>2, Lesser
    <3> QED
      BY <3>3 DEF a, b
  <2> HIDE DEF size
  <2>3. \A i \in 1..size : ranking[i] \in Experts /\ i \in 1..Len(ranking)
    BY <2>1, <2>2
  <2>4. Min({size, q.by.min}) \in Nat
    BY <1>0, <2>2, Lesser
  <2>5. ASSUME NEW i \in 1..size
        PROVE  ranking[i] \in chosen /\ share[ranking[i]] = Share(i, Len(q.dims), size, q.by.min)
    <3>1. (CHOOSE j \in 1..size : ranking[j] = ranking[i]) = i
      BY <2>1, <2>3
    <3> QED
      BY <3>1
  <2>6. \A e \in chosen : share[e] \in SUBSET Nat
    BY <1>0, ShareFacts
  <2> HIDE DEF chosen, share
  <2>7. asg'[q.lot] = [e \in Experts |-> IF asked(e) THEN share[e] ELSE asg[q.lot][e]]
    BY <1>0, <1>3
  <2>8. asg[q.lot] \in Column
    BY <1>0
  <2>9. asg'[q.lot] \in Column
    BY <2>6, <2>7, <2>8 DEF Column
  <2>10. asg' \in [Followed -> Column]
    BY <1>0, <1>3, <2>9
  <2>11. floor' \in [Followed -> Nat]
    BY <1>0, <1>3, <2>4
  <2>12. \A l \in Followed : l # q.lot => asg'[l] = asg[l] /\ floor'[l] = floor[l]
    BY <1>0, <1>3
  <2>13. floor'[q.lot] = IF q.dims = dims[q.lot] THEN Min({size, q.by.min}) ELSE 0
    BY <1>0, <1>3
  <2>14. ASSUME NEW i \in 1..size
         PROVE  \/ asg'[q.lot][ranking[i]] = Share(i, Len(q.dims), size, q.by.min)
                \/ /\ Share(i, Len(q.dims), size, q.by.min) = q.seen[ranking[i]]
                   /\ asg'[q.lot][ranking[i]] = asg[q.lot][ranking[i]]
    BY <2>3, <2>5, <2>7
  <2>15. \A i, j \in 1..size : ranking[i] = ranking[j] => i = j
    BY <2>1, <2>3
  <2> QED
    BY <2>2, <2>3, <2>10, <2>11, <2>12, <2>13, <2>14, <2>15 DEF Writes
<1> QED
  BY <1>b, <1>2, <1>3

(* What a request reads when it is accepted.                                *)
Reads(q) ==
    /\ q.op = "lot" =>
            /\ budget[q.lot] = 0 /\ Spent + q.amount <= Budget
            /\ \A x \in Requests : req[x].op = "lot" => req[x].lot # q.lot
    /\ q.op = "dims" => q.old = DOMAIN dims[q.lot]
    /\ q.op = "criteria" => q.seen = criteria[q.lot]
    /\ q.op = "match" => q.seen = asg[q.lot]

Rows == <<budget, dims, rubric, criteria, asg, raced, floor>>

Accepted(r, q) == Ask(r, q) /\ RequestOk(q) /\ Reads(q) /\ UNCHANGED Rows
Dropped(r) == End(r) /\ UNCHANGED Rows

Commits(r, op) == req[r].op = op /\ Race(r) /\ End(r)

(* Every step accepts a request, drops one or commits one, or none of this. *)
LEMMA AcceptedLot ==
    ASSUME TypeInv, NEW r \in Requests, NEW l \in Lots, NEW amount \in Amounts,
           CreateLot(r, l, amount)
    PROVE  \E q : Accepted(r, q)
<1> DEFINE q == [op |-> "lot", lot |-> l, amount |-> amount]
<1>1. Ask(r, q) /\ UNCHANGED Rows /\ RequestOk(q)
  BY DEF CreateLot, Rows, RequestOk
<1>2. /\ budget[l] = 0 /\ Spent + amount <= Budget
      /\ \A x \in Requests : req[x].op = "lot" => req[x].lot # l
  BY DEF CreateLot, Exists, Fits, TypeInv, SetupType
<1>3. Reads(q)
  BY <1>2 DEF Reads
<1> QED
  BY <1>1, <1>3 DEF Accepted

LEMMA AcceptedDims ==
    ASSUME TypeInv, NEW r \in Requests, NEW l \in Followed, NEW list \in Lists,
           AddDimensions(r, l, list)
    PROVE  \E q : Accepted(r, q)
<1> DEFINE q == [op |-> "dims", lot |-> l, list |-> list, old |-> DOMAIN dims[l]]
<1>1. Ask(r, q) /\ UNCHANGED Rows /\ RequestOk(q) /\ Reads(q)
  BY DEF AddDimensions, Rows, RequestOk, Reads
<1> QED
  BY <1>1 DEF Accepted

LEMMA AcceptedCriteria ==
    ASSUME TypeInv, NEW r \in Requests, NEW l \in Followed, NEW new \in Profiles,
           ConfigureCriteria(r, l, new)
    PROVE  \E q : Accepted(r, q)
<1> DEFINE q == [op |-> "criteria", lot |-> l, new |-> new, seen |-> criteria[l]]
<1>1. criteria[l] \in {NoRow} \cup Row
  BY DEF TypeInv, SetupType
<1>2. RowFits(new)
  BY DEF ConfigureCriteria, RowFits
<1>3. Ask(r, q) /\ UNCHANGED Rows /\ Reads(q)
  BY DEF ConfigureCriteria, Rows, Reads
<1>4. RequestOk(q)
  BY <1>1, <1>2 DEF RequestOk
<1> QED
  BY <1>3, <1>4 DEF Accepted

LEMMA AcceptedMatch ==
    ASSUME TypeInv, NEW r \in Requests, NEW l \in Followed, NEW tags \in SUBSET Tags,
           MatchExperts(r, l, tags)
    PROVE  \E q : Accepted(r, q)
<1> DEFINE by == IF criteria[l] = NoRow THEN Fallback ELSE criteria[l]
           q == [op |-> "match", lot |-> l, tags |-> tags, dims |-> dims[l], seen |-> asg[l],
                 by |-> by]
<1>1. Ask(r, q) /\ UNCHANGED Rows
  BY DEF MatchExperts, Rows
<1>2. dims[l] \in {<<>>} \cup Lists /\ asg[l] \in Column /\ by \in Row
  BY FallbackIsRow DEF TypeInv, SetupType
<1> HIDE DEF by
<1>3. RequestOk(q) /\ Reads(q)
  BY <1>2 DEF RequestOk, Reads
<1> QED
  BY <1>1, <1>3 DEF Accepted

LEMMA StepCases ==
    ASSUME TypeInv, [Next]_vars
    PROVE  \/ UNCHANGED <<Rows, req>>
           \/ \E r \in Requests :
                \/ \E q : Accepted(r, q)
                \/ Dropped(r)
                \/ CommitLot(r) \/ CommitDimensions(r) \/ CommitCriteria(r) \/ CommitMatch(r)
<1>1. CASE UNCHANGED vars
  BY <1>1 DEF vars, Rows
<1>2. CASE Next
  <2>1. PICK r \in Requests :
            \/ PostLot(r) \/ PostDimensions(r) \/ PostCriteria(r) \/ PostMatch(r)
            \/ CommitLot(r) \/ CommitDimensions(r) \/ CommitCriteria(r) \/ CommitMatch(r)
            \/ RolledBack(r)
            \/ \E l \in Followed : Release(l)
    BY <1>2 DEF Next
  <2>2. CASE PostLot(r)
    BY <2>2, AcceptedLot DEF PostLot
  <2>3. CASE PostDimensions(r)
    BY <2>3, AcceptedDims DEF PostDimensions
  <2>4. CASE PostCriteria(r)
    BY <2>4, AcceptedCriteria DEF PostCriteria
  <2>5. CASE PostMatch(r)
    BY <2>5, AcceptedMatch DEF PostMatch
  <2>6. CASE RolledBack(r)
    BY <2>6 DEF RolledBack, Dropped, Rows
  <2>7. CASE \E l \in Followed : Release(l)
    BY <2>7 DEF Release, Rows
  <2> QED
    BY <2>1, <2>2, <2>3, <2>4, <2>5, <2>6, <2>7
<1> QED
  BY <1>1, <1>2

LEMMA CommittedLot ==
    ASSUME TypeInv, NEW r \in Requests, CommitLot(r)
    PROVE  /\ Commits(r, "lot") /\ req[r].lot \in Lots /\ req[r].amount \in Amounts
           /\ req[r].amount \in Nat \ {0}
           /\ budget' = [budget EXCEPT ![req[r].lot] = req[r].amount]
           /\ UNCHANGED <<dims, rubric, criteria, asg, floor>>
<1>1. RequestOk(req[r])
  BY DEF TypeInv, SetupType
<1> QED
  BY <1>1 DEF CommitLot, Commits, RequestOk

(* The dimensions are replaced as a whole, or not at all.                   *)
LEMMA CommittedDimensions ==
    ASSUME TypeInv, NEW r \in Requests, CommitDimensions(r)
    PROVE  LET q == req[r]
               l == q.lot
           IN  /\ Commits(r, "dims") /\ RequestOk(q)
               /\ \/ Taken(l, q) /\ UNCHANGED <<dims, rubric, floor>>
                  \/ /\ DimensionsLeft(l, q.old) = <<>>
                     /\ RubricLeft(l, q.old) \cap Detailed(q.list) = {}
                     /\ dims' = [dims EXCEPT ![l] = q.list]
                     /\ rubric' = [rubric EXCEPT ![l] = RubricLeft(l, q.old) \cup Detailed(q.list)]
                     /\ floor' = [floor EXCEPT ![l] = 0]
               /\ UNCHANGED <<budget, criteria, asg>>
<1> DEFINE q == req[r]
           l == q.lot
<1>1. RequestOk(q) /\ q.op = "dims"
  BY DEF TypeInv, SetupType, CommitDimensions
<1>2. l \in Followed /\ q.list \in Lists
  BY <1>1 DEF RequestOk
<1>3. CASE Taken(l, q)
  BY <1>1, <1>3 DEF CommitDimensions, Commits
<1>4. CASE ~ Taken(l, q)
  <2>1. DimensionsLeft(l, q.old) \in {<<>>} \cup Lists
    BY <1>2 DEF DimensionsLeft, TypeInv, SetupType
  <2>2. /\ DOMAIN DimensionsLeft(l, q.old) \cap DOMAIN q.list = {}
        /\ RubricLeft(l, q.old) \cap Detailed(q.list) = {}
    BY <1>4 DEF Taken
  <2>3. /\ DimensionsLeft(l, q.old) = <<>>
        /\ Inserted(DimensionsLeft(l, q.old), q.list) = q.list
    BY <1>2, <2>1, <2>2, InsertedAlone
  <2> QED
    BY <1>1, <1>4, <2>2, <2>3 DEF CommitDimensions, Commits
<1> QED
  BY <1>3, <1>4

LEMMA CommittedCriteria ==
    ASSUME TypeInv, NEW r \in Requests, CommitCriteria(r)
    PROVE  LET q == req[r]
               row == criteria[q.lot]
           IN  /\ Commits(r, "criteria") /\ RequestOk(q)
               /\ \E c \in Row :
                    /\ criteria' = [criteria EXCEPT ![q.lot] = c]
                    /\ \/ q.seen \in Row /\ row \in Row /\ c = Columns(row, q.seen, q.new)
                       \/ q.seen = NoRow /\ row = NoRow /\ c = q.new
                       \/ q.seen = NoRow /\ row \in Row /\ c = row
               /\ UNCHANGED <<budget, dims, rubric, asg, floor>>
<1> DEFINE q == req[r]
           row == criteria[q.lot]
<1>1. /\ RequestOk(q) /\ q.op = "criteria"
      /\ q.seen # NoRow => row # NoRow
  BY DEF TypeInv, SetupType, RowsStay, CommitCriteria
<1>2. q.lot \in Followed /\ q.new \in Row /\ q.seen \in {NoRow} \cup Row /\ row \in {NoRow} \cup Row
  BY <1>1, ProfileIsRow DEF RequestOk, TypeInv, SetupType
<1>3. /\ Commits(r, "criteria") /\ UNCHANGED <<budget, dims, rubric, asg, floor>>
      /\ criteria' = [criteria EXCEPT ![q.lot] =
                        IF q.seen # NoRow THEN Columns(row, q.seen, q.new)
                        ELSE IF row = NoRow THEN q.new ELSE row]
  BY DEF CommitCriteria, Commits
<1>4. CASE q.seen # NoRow
  <2>1. q.seen \in Row /\ row \in Row
    BY <1>1, <1>2, <1>4
  <2>2. Columns(row, q.seen, q.new) \in Row
    BY <1>2, <2>1, ColumnsAreRow
  <2> QED
    BY <1>1, <1>3, <1>4, <2>1, <2>2
<1>5. CASE q.seen = NoRow /\ row = NoRow
  BY <1>1, <1>2, <1>3, <1>5
<1>6. CASE q.seen = NoRow /\ row # NoRow
  BY <1>1, <1>2, <1>3, <1>6
<1> QED
  BY <1>4, <1>5, <1>6

LEMMA TypeStays ==
    ASSUME TypeInv, [Next]_vars
    PROVE  TypeInv'
<1> USE DEF TypeInv
<1>1. CASE UNCHANGED <<Rows, req>>
  BY <1>1 DEF Rows, SetupType, RowsStay
<1>2. ASSUME NEW r \in Requests, NEW q, Accepted(r, q) PROVE TypeInv'
  <2>1. /\ Ask(r, q) /\ RequestOk(q) /\ UNCHANGED Rows
        /\ q.op = "criteria" => q.seen = criteria[q.lot]
    BY <1>2 DEF Accepted, Reads
  <2>2. SetupType'
    BY <2>1, Asked DEF SetupType, Rows
  <2>3. RowsStay'
    BY <2>1, Asked DEF RowsStay, Rows
  <2> QED
    BY <2>2, <2>3
<1>3. ASSUME NEW r \in Requests, Dropped(r) PROVE TypeInv'
  <2>1. SetupType'
    BY <1>3, RequestEnded DEF Dropped, SetupType, Rows
  <2>2. RowsStay'
    BY <1>3, RequestEnded DEF Dropped, RowsStay, Rows
  <2> QED
    BY <2>1, <2>2
<1>4. ASSUME NEW r \in Requests, CommitLot(r) PROVE TypeInv'
  <2>1. /\ End(r) /\ req[r].lot \in Lots /\ req[r].amount \in Nat
        /\ budget' = [budget EXCEPT ![req[r].lot] = req[r].amount]
        /\ UNCHANGED <<dims, rubric, criteria, asg, floor>>
    BY <1>4, CommittedLot DEF Commits
  <2>2. SetupType'
    BY <2>1, RequestEnded DEF SetupType
  <2>3. RowsStay'
    BY <2>1, RequestEnded DEF RowsStay
  <2> QED
    BY <2>2, <2>3
<1>5. ASSUME NEW r \in Requests, CommitDimensions(r) PROVE TypeInv'
  <2> DEFINE q == req[r]
             l == q.lot
  <2>1. /\ End(r) /\ l \in Followed /\ q.list \in Lists
        /\ UNCHANGED <<budget, criteria, asg>>
        /\ \/ UNCHANGED <<dims, rubric, floor>>
           \/ /\ dims' = [dims EXCEPT ![l] = q.list]
              /\ rubric' = [rubric EXCEPT ![l] = RubricLeft(l, q.old) \cup Detailed(q.list)]
              /\ floor' = [floor EXCEPT ![l] = 0]
    BY <1>5, CommittedDimensions DEF Commits, RequestOk
  <2>2. RubricLeft(l, q.old) \cup Detailed(q.list) \in SUBSET Nat
    BY <2>1, ListFacts DEF RubricLeft, SetupType, Detailed
  <2>3. /\ dims' \in [Followed -> {<<>>} \cup Lists] /\ rubric' \in [Followed -> SUBSET Nat]
        /\ floor' \in [Followed -> Nat]
    <3>1. CASE UNCHANGED <<dims, rubric, floor>>
      BY <3>1 DEF SetupType
    <3>2. ASSUME /\ dims' = [dims EXCEPT ![l] = q.list]
                 /\ rubric' = [rubric EXCEPT ![l] = RubricLeft(l, q.old) \cup Detailed(q.list)]
                 /\ floor' = [floor EXCEPT ![l] = 0]
          PROVE  /\ dims' \in [Followed -> {<<>>} \cup Lists]
                 /\ rubric' \in [Followed -> SUBSET Nat] /\ floor' \in [Followed -> Nat]
      BY <2>1, <2>2, <3>2 DEF SetupType
    <3> QED
      BY <2>1, <3>1, <3>2
  <2>4. SetupType'
    BY <2>1, <2>3, RequestEnded DEF SetupType
  <2>5. RowsStay'
    BY <2>1, RequestEnded DEF RowsStay
  <2> QED
    BY <2>4, <2>5
<1>6. ASSUME NEW r \in Requests, CommitCriteria(r) PROVE TypeInv'
  <2> DEFINE q == req[r]
  <2>1. /\ End(r) /\ q.lot \in Followed /\ UNCHANGED <<budget, dims, rubric, asg, floor>>
        /\ \E c \in Row : criteria' = [criteria EXCEPT ![q.lot] = c]
    BY <1>6, CommittedCriteria DEF Commits, RequestOk
  <2>2. PICK c \in Row : criteria' = [criteria EXCEPT ![q.lot] = c]
    BY <2>1
  <2>3. SetupType'
    BY <2>1, <2>2, RequestEnded DEF SetupType
  <2>4. ASSUME NEW x \in Requests, req'[x].op = "criteria", req'[x].seen # NoRow
        PROVE  criteria'[req'[x].lot] # NoRow
    <3>1. x # r /\ req'[x] = req[x]
      BY <2>1, <2>4, RequestEnded
    <3>2. criteria[req[x].lot] # NoRow /\ req[x].lot \in Followed
      BY <2>4, <3>1 DEF RowsStay, SetupType, RequestOk
    <3> QED
      BY <2>2, <3>1, <3>2, RowIsNot DEF SetupType
  <2> QED
    BY <2>3, <2>4 DEF RowsStay
<1>7. ASSUME NEW r \in Requests, CommitMatch(r) PROVE TypeInv'
  <2>1. End(r) /\ UNCHANGED <<budget, dims, rubric, criteria>>
    BY <1>7 DEF CommitMatch
  <2>2. asg' \in [Followed -> Column] /\ floor' \in [Followed -> Nat]
    BY <1>7, Matched
  <2>3. SetupType'
    BY <2>1, <2>2, RequestEnded DEF SetupType
  <2>4. RowsStay'
    BY <2>1, RequestEnded DEF RowsStay
  <2> QED
    BY <2>3, <2>4
<1> QED
  BY <1>1, <1>2, <1>3, <1>4, <1>5, <1>6, <1>7, StepCases

LEMMA TypeBegins == Init => TypeInv
<1> SUFFICES ASSUME Init PROVE TypeInv
  OBVIOUS
<1>1. Idle.op = "idle" /\ RequestOk(Idle)
  BY DEF Idle, RequestOk
<1>2. Unassigned \in SUBSET Nat
  BY DEF Unassigned
<1>3. SetupType
  BY <1>1, <1>2 DEF Init, SetupType, Column
<1>4. RowsStay
  BY <1>1 DEF Init, RowsStay
<1> QED
  BY <1>3, <1>4 DEF TypeInv

(* Rows and requests keep their types: what a request holds is what it was  *)
(* checked for, and no row of criteria goes once it is there.               *)
THEOREM TypeCorrect == Spec => []TypeInv
<1>1. TypeInv /\ [Next]_vars => TypeInv'
  BY TypeStays
<1> QED
  BY TypeBegins, <1>1, PTL DEF Spec

-----------------------------------------------------------------------------
(* The budget *)

(* No two requests create the same lot, which has no row yet; and unless    *)
(* two committed with another in flight, the sum that a request read is     *)
(* still that of the lots.                                                  *)
LotsApart ==
    /\ \A r \in Requests : req[r].op = "lot" => budget[req[r].lot] = 0
    /\ \A r, x \in Requests :
        r # x /\ req[r].op = "lot" /\ req[x].op = "lot" => req[r].lot # req[x].lot

SumsHold ==
    "lot" \notin raced =>
        \A r \in Requests : req[r].op = "lot" => Spent + req[r].amount <= Budget

LotsInv == TypeInv /\ LotsApart /\ SumsHold /\ WithinBudget

LEMMA SpentNow == Spent = SumOver(Lots, budget)
BY DEF Spent, SumOver

LEMMA SpentIsSum == Spent = SumOver(Lots, budget) /\ Spent' = SumOver(Lots, budget')
<1>1. (Spent = SumOver(Lots, budget))'
  BY SpentNow, PTL
<1> QED
  BY <1>1, SpentNow

(* A request that commits alone leaves no request of its kind in flight.    *)
LEMMA CommitsAlone ==
    ASSUME TypeInv, NEW r \in Requests, NEW op, Commits(r, op), op # "idle", op \notin raced'
    PROVE  /\ op \notin raced
           /\ \A x \in Requests : req'[x].op # op
<1>1. op \notin raced /\ \A x \in Requests \ {r} : req[x].op # op
  BY DEF Commits, Race
<1>2. \A x \in Requests : (x = r /\ req'[x].op = "idle") \/ (x # r /\ req'[x] = req[x])
  BY RequestEnded DEF Commits, TypeInv
<1> QED
  BY <1>1, <1>2

(* One of another kind leaves them as they were.                            *)
LEMMA CommitsElse ==
    ASSUME TypeInv, NEW r \in Requests, NEW op, Commits(r, op), NEW kind, kind # op, kind # "idle"
    PROVE  /\ kind \in raced <=> kind \in raced'
           /\ \A x \in Requests : req'[x].op = kind => x # r /\ req'[x] = req[x]
<1>1. kind \in raced <=> kind \in raced'
  BY DEF Commits, Race
<1>2. \A x \in Requests : (x = r /\ req'[x].op = "idle") \/ (x # r /\ req'[x] = req[x])
  BY RequestEnded DEF Commits, TypeInv
<1> QED
  BY <1>1, <1>2

LEMMA MatchesStay ==
    ASSUME TypeInv, NEW r \in Requests, Commits(r, "dims")
    PROVE  /\ "match" \in raced <=> "match" \in raced'
           /\ \A x \in Requests : req'[x].op = "match" => x # r /\ req'[x] = req[x]
<1>1. "match" \in raced <=> "match" \in raced'
  BY DEF Commits, Race
<1>2. \A x \in Requests : (x = r /\ req'[x].op = "idle") \/ (x # r /\ req'[x] = req[x])
  BY RequestEnded DEF Commits, TypeInv
<1> QED
  BY <1>1, <1>2

(* So does one that is dropped, and a new one joins them.                   *)
LEMMA DroppedFacts ==
    ASSUME TypeInv, NEW r \in Requests, Dropped(r)
    PROVE  /\ UNCHANGED Rows
           /\ \A x \in Requests : req'[x].op # "idle" => x # r /\ req'[x] = req[x]
BY RequestEnded DEF Dropped, TypeInv

LEMMA AcceptedFacts ==
    ASSUME TypeInv, NEW r \in Requests, NEW q, Accepted(r, q)
    PROVE  /\ UNCHANGED Rows /\ Reads(q) /\ RequestOk(q)
           /\ req'[r] = q /\ req[r].op = "idle"
           /\ \A x \in Requests : x # r => req'[x] = req[x]
BY Asked DEF Accepted, TypeInv

LEMMA LotsStep ==
    ASSUME LotsInv, [Next]_vars
    PROVE  LotsInv'
<1> USE DEF LotsInv
<1>0. TypeInv'
  BY TypeStays
<1> DEFINE Rest == LotsApart' /\ SumsHold' /\ WithinBudget'
<1> SUFFICES Rest
  BY <1>0
(* What leaves the lots alone and brings no request for one.                *)
<1>1. ASSUME UNCHANGED budget, "lot" \in raced <=> "lot" \in raced',
             \A x \in Requests : req'[x].op = "lot" => req'[x] = req[x]
      PROVE  Rest
  <2>1. Spent' = Spent
    BY <1>1, SpentIsSum
  <2>2. LotsApart'
    BY <1>1 DEF LotsApart
  <2>3. SumsHold' /\ WithinBudget'
    BY <1>1, <2>1 DEF SumsHold, WithinBudget
  <2> QED
    BY <2>2, <2>3
<1> HIDE DEF Rest
<1>2. CASE UNCHANGED <<Rows, req>>
  BY <1>1, <1>2 DEF Rows
<1>3. ASSUME NEW r \in Requests, Dropped(r) PROVE Rest
  BY <1>1, <1>3, DroppedFacts DEF Rows
<1>4. ASSUME NEW r \in Requests, NEW op, Commits(r, op), op # "lot", UNCHANGED budget PROVE Rest
  <2>1. /\ "lot" \in raced <=> "lot" \in raced'
        /\ \A x \in Requests : req'[x].op = "lot" => x # r /\ req'[x] = req[x]
    BY <1>4, CommitsElse
  <2> QED
    BY <1>1, <1>4, <2>1
<1>5. ASSUME NEW r \in Requests, NEW q, Accepted(r, q) PROVE Rest
  <2>1. /\ UNCHANGED Rows /\ Reads(q) /\ req'[r] = q
        /\ \A x \in Requests : x # r => req'[x] = req[x]
    BY <1>5, AcceptedFacts
  <2>2. Spent' = Spent
    BY <2>1, SpentIsSum DEF Rows
  <2>3. LotsApart'
    BY <2>1 DEF LotsApart, Reads, Rows
  <2>4. SumsHold' /\ WithinBudget'
    BY <2>1, <2>2 DEF SumsHold, WithinBudget, Reads, Rows
  <2> QED
    BY <2>3, <2>4 DEF Rest
<1>6. ASSUME NEW r \in Requests, CommitLot(r) PROVE Rest
  <2> DEFINE l == req[r].lot
             a == req[r].amount
  <2>1. /\ Commits(r, "lot") /\ l \in Lots /\ a \in Nat
        /\ budget' = [budget EXCEPT ![l] = a]
    BY <1>6, CommittedLot
  <2>2. /\ req'[r].op = "idle" /\ req[r].op = "lot"
        /\ \A x \in Requests : x # r => req'[x] = req[x]
    BY <2>1, RequestEnded DEF Commits, TypeInv
  <2>3. budget \in [Lots -> Nat] /\ budget[l] = 0
    BY <2>2 DEF TypeInv, SetupType, LotsApart
  <2>4. Spent' = Spent + a
    <3>1. IsFiniteSet(Lots)
      OBVIOUS
    <3>2. SumOver(Lots, [budget EXCEPT ![l] = a]) = SumOver(Lots, budget) + a
      BY ONLY <2>1, <2>3, <3>1, SumMore
    <3> QED
      BY <2>1, <3>2, SpentIsSum
  <2>5. LotsApart'
    <3>1. ASSUME NEW x \in Requests, req'[x].op = "lot"
          PROVE  x # r /\ req'[x] = req[x] /\ budget'[req'[x].lot] = 0
      <4>1. x # r /\ req'[x] = req[x]
        BY <2>2, <3>1
      <4>2. budget[req[x].lot] = 0 /\ req[x].lot # l /\ req[x].lot \in Lots
        BY <2>2, <3>1, <4>1 DEF LotsApart, TypeInv, SetupType, RequestOk
      <4> QED
        BY <2>1, <2>3, <4>1, <4>2
    <3> QED
      BY <3>1 DEF LotsApart
  <2>6. ASSUME "lot" \notin raced' PROVE Spent' <= Budget /\ \A x \in Requests : req'[x].op # "lot"
    <3>1. "lot" \notin raced /\ \A x \in Requests : req'[x].op # "lot"
      BY <2>1, <2>6, CommitsAlone
    <3> QED
      BY <2>2, <2>4, <3>1 DEF SumsHold
  <2> QED
    BY <2>5, <2>6 DEF Rest, SumsHold, WithinBudget
<1>7. ASSUME NEW r \in Requests, CommitDimensions(r) PROVE Rest
  BY <1>4, <1>7, CommittedDimensions
<1>8. ASSUME NEW r \in Requests, CommitCriteria(r) PROVE Rest
  BY <1>4, <1>8, CommittedCriteria
<1>9. ASSUME NEW r \in Requests, CommitMatch(r) PROVE Rest
  <2>1. Commits(r, "match") /\ UNCHANGED budget
    BY <1>9 DEF CommitMatch, Commits
  <2> QED
    BY <1>4, <2>1
<1> QED
  BY <1>2, <1>3, <1>5, <1>6, <1>7, <1>8, <1>9, StepCases

LEMMA LotsBegin == Init => LotsInv
<1> SUFFICES ASSUME Init PROVE LotsInv
  OBVIOUS
<1>1. Idle.op = "idle" /\ \A r \in Requests : req[r].op = "idle"
  BY DEF Init, Idle
<1>2. Spent = 0
  BY SumNothing, SpentIsSum DEF Init
<1> QED
  BY <1>1, <1>2, TypeBegins DEF LotsInv, LotsApart, SumsHold, WithinBudget

(* Unless two lots were created at a time, the budgets of the lots never    *)
(* add up to more than that of the project, however many lots there are:    *)
(* what create_lot sums without a lock is what its row adds to.             *)
THEOREM WithinBudgetHolds == Spec => []WithinBudget
<1>1. LotsInv /\ [Next]_vars => LotsInv'
  BY LotsStep
<1>2. LotsInv => WithinBudget
  BY DEF LotsInv
<1> QED
  BY LotsBegin, <1>1, <1>2, PTL DEF Spec

-----------------------------------------------------------------------------
(* The dimensions and the criteria of a lot *)

(* Unless two replacements overlapped, the rows of criteria are those of    *)
(* the dimensions, and a replacement in flight has read those that are      *)
(* there; and the like for what experts are chosen by.                      *)
OwnRubric ==
    "dims" \notin raced => \A l \in Followed : rubric[l] = Detailed(dims[l])

OldIsThere ==
    "dims" \notin raced =>
        \A r \in Requests : req[r].op = "dims" => req[r].old = DOMAIN dims[req[r].lot]

SeenIsThere ==
    "criteria" \notin raced =>
        \A r \in Requests : req[r].op = "criteria" => req[r].seen = criteria[req[r].lot]

DimsInv == TypeInv /\ WeightsAddUp /\ OwnRubric /\ OldIsThere
CriteriaInv == TypeInv /\ CriteriaFit /\ SeenIsThere

LEMMA DimsStep ==
    ASSUME DimsInv, [Next]_vars
    PROVE  DimsInv'
<1> USE DEF DimsInv
<1>0. TypeInv'
  BY TypeStays
<1> DEFINE Rest == WeightsAddUp' /\ OwnRubric' /\ OldIsThere'
<1> SUFFICES Rest
  BY <1>0
<1>1. ASSUME UNCHANGED <<dims, rubric>>, "dims" \in raced <=> "dims" \in raced',
             \A x \in Requests : req'[x].op = "dims" => req'[x] = req[x]
      PROVE  Rest
  BY <1>1 DEF WeightsAddUp, OwnRubric, OldIsThere
<1> HIDE DEF Rest
<1>2. CASE UNCHANGED <<Rows, req>>
  BY <1>1, <1>2 DEF Rows
<1>3. ASSUME NEW r \in Requests, Dropped(r) PROVE Rest
  BY <1>1, <1>3, DroppedFacts DEF Rows
<1>4. ASSUME NEW r \in Requests, NEW op, Commits(r, op), op # "dims", UNCHANGED <<dims, rubric>>
      PROVE  Rest
  BY <1>1, <1>4, CommitsElse
<1>5. ASSUME NEW r \in Requests, NEW q, Accepted(r, q) PROVE Rest
  <2>1. /\ UNCHANGED Rows /\ Reads(q) /\ req'[r] = q
        /\ \A x \in Requests : x # r => req'[x] = req[x]
    BY <1>5, AcceptedFacts
  <2>2. WeightsAddUp' /\ OwnRubric'
    BY <2>1 DEF WeightsAddUp, OwnRubric, Rows
  <2>3. OldIsThere'
    BY <2>1 DEF OldIsThere, Reads, Rows
  <2> QED
    BY <2>2, <2>3 DEF Rest
<1>6. ASSUME NEW r \in Requests, CommitDimensions(r) PROVE Rest
  <2> DEFINE q == req[r]
             l == q.lot
  <2>1. /\ Commits(r, "dims") /\ q.op = "dims" /\ l \in Followed /\ q.list \in Lists
        /\ WeightsFit(WeightSum(q.list))
    BY <1>6, CommittedDimensions DEF Commits, RequestOk
  <2>2. dims \in [Followed -> {<<>>} \cup Lists] /\ rubric \in [Followed -> SUBSET Nat]
    BY DEF TypeInv, SetupType
  <2> DEFINE Replaced == /\ DimensionsLeft(l, q.old) = <<>>
                         /\ dims' = [dims EXCEPT ![l] = q.list]
                         /\ rubric' = [rubric EXCEPT ![l] =
                                            RubricLeft(l, q.old) \cup Detailed(q.list)]
  <2>3. \/ Taken(l, q) /\ UNCHANGED <<dims, rubric>>
        \/ Replaced
    BY <1>6, CommittedDimensions
  <2>4. WeightsAddUp'
    <3>1. CASE UNCHANGED <<dims, rubric>>
      BY <3>1 DEF WeightsAddUp
    <3>2. CASE Replaced
      BY <2>1, <2>2, <3>2 DEF WeightsAddUp
    <3> QED
      BY <2>3, <3>1, <3>2
  <2>5. ASSUME "dims" \notin raced'
        PROVE  /\ \A x \in Requests : req'[x].op # "dims"
               /\ \A k \in Followed : rubric'[k] = Detailed(dims'[k])
    <3>1. "dims" \notin raced /\ \A x \in Requests : req'[x].op # "dims"
      BY <2>1, <2>5, CommitsAlone
    <3>2. \A k \in Followed : rubric[k] = Detailed(dims[k])
      BY <3>1 DEF OwnRubric
    <3>3. CASE UNCHANGED <<dims, rubric>>
      BY <3>1, <3>2, <3>3
    <3>4. CASE Replaced
      <4>1. q.old = DOMAIN dims[l] /\ rubric[l] = Detailed(dims[l])
        BY <2>1, <3>1, <3>2 DEF OldIsThere
      <4>2. RubricLeft(l, q.old) = {}
        BY <4>1 DEF RubricLeft, Detailed
      <4>3. rubric' = [rubric EXCEPT ![l] = Detailed(q.list)]
        BY <3>4, <4>2
      <4> QED
        BY <2>1, <2>2, <3>1, <3>2, <3>4, <4>3
    <3> QED
      BY <2>3, <3>3, <3>4
  <2> QED
    BY <2>4, <2>5 DEF Rest, OwnRubric, OldIsThere
<1>7. ASSUME NEW r \in Requests, CommitLot(r) PROVE Rest
  BY <1>4, <1>7, CommittedLot
<1>8. ASSUME NEW r \in Requests, CommitCriteria(r) PROVE Rest
  BY <1>4, <1>8, CommittedCriteria
<1>9. ASSUME NEW r \in Requests, CommitMatch(r) PROVE Rest
  <2>1. Commits(r, "match") /\ UNCHANGED <<dims, rubric>>
    BY <1>9 DEF CommitMatch, Commits
  <2> QED
    BY <1>4, <2>1
<1> QED
  BY <1>2, <1>3, <1>5, <1>6, <1>7, <1>8, <1>9, StepCases

LEMMA CriteriaStep ==
    ASSUME CriteriaInv, [Next]_vars
    PROVE  CriteriaInv'
<1> USE DEF CriteriaInv
<1>0. TypeInv'
  BY TypeStays
<1> DEFINE Rest == CriteriaFit' /\ SeenIsThere'
<1> SUFFICES Rest
  BY <1>0
<1>1. ASSUME UNCHANGED criteria, "criteria" \in raced <=> "criteria" \in raced',
             \A x \in Requests : req'[x].op = "criteria" => req'[x] = req[x]
      PROVE  Rest
  BY <1>1 DEF CriteriaFit, SeenIsThere
<1> HIDE DEF Rest
<1>2. CASE UNCHANGED <<Rows, req>>
  BY <1>1, <1>2 DEF Rows
<1>3. ASSUME NEW r \in Requests, Dropped(r) PROVE Rest
  BY <1>1, <1>3, DroppedFacts DEF Rows
<1>4. ASSUME NEW r \in Requests, NEW op, Commits(r, op), op # "criteria", UNCHANGED criteria
      PROVE  Rest
  BY <1>1, <1>4, CommitsElse
<1>5. ASSUME NEW r \in Requests, NEW q, Accepted(r, q) PROVE Rest
  <2>1. /\ UNCHANGED Rows /\ Reads(q) /\ req'[r] = q
        /\ \A x \in Requests : x # r => req'[x] = req[x]
    BY <1>5, AcceptedFacts
  <2>2. CriteriaFit'
    BY <2>1 DEF CriteriaFit, Rows
  <2>3. SeenIsThere'
    BY <2>1 DEF SeenIsThere, Reads, Rows
  <2> QED
    BY <2>2, <2>3 DEF Rest
<1>6. ASSUME NEW r \in Requests, CommitCriteria(r) PROVE Rest
  <2> DEFINE q == req[r]
             row == criteria[q.lot]
  <2>1. /\ Commits(r, "criteria") /\ q.op = "criteria" /\ q.lot \in Followed
        /\ q.new \in Row /\ RowFits(q.new)
    BY <1>6, CommittedCriteria, ProfileIsRow DEF Commits, RequestOk
  <2>2. PICK c \in Row :
            /\ criteria' = [criteria EXCEPT ![q.lot] = c]
            /\ \/ q.seen \in Row /\ row \in Row /\ c = Columns(row, q.seen, q.new)
               \/ q.seen = NoRow /\ row = NoRow /\ c = q.new
               \/ q.seen = NoRow /\ row \in Row /\ c = row
    BY <1>6, CommittedCriteria
  <2>3. ASSUME "criteria" \notin raced'
        PROVE  /\ \A x \in Requests : req'[x].op # "criteria"
               /\ "criteria" \notin raced /\ c = q.new
    <3>1. "criteria" \notin raced /\ \A x \in Requests : req'[x].op # "criteria"
      BY <2>1, <2>3, CommitsAlone
    <3>2. q.seen = row
      BY <2>1, <3>1 DEF SeenIsThere
    <3>3. CASE q.seen \in Row /\ c = Columns(row, q.seen, q.new)
      BY <2>1, <3>1, <3>2, <3>3, ColumnsAlone
    <3> QED
      BY <2>2, <3>1, <3>2, <3>3, RowIsNot
  <2>4. criteria \in [Followed -> {NoRow} \cup Row]
    BY DEF TypeInv, SetupType
  <2>5. SeenIsThere'
    BY <2>3 DEF SeenIsThere
  <2>6. ASSUME "criteria" \notin raced', NEW k \in Followed, criteria'[k] # NoRow
        PROVE  RowFits(criteria'[k])
    <3>1. CASE k = q.lot
      BY <2>1, <2>2, <2>3, <2>4, <2>6, <3>1
    <3>2. CASE k # q.lot
      <4>1. criteria'[k] = criteria[k]
        BY <2>2, <2>4, <3>2
      <4> QED
        BY <2>3, <2>6, <4>1 DEF CriteriaFit, RowFits
    <3> QED
      BY <3>1, <3>2
  <2> QED
    BY <2>5, <2>6 DEF Rest, CriteriaFit, RowFits
<1>7. ASSUME NEW r \in Requests, CommitLot(r) PROVE Rest
  BY <1>4, <1>7, CommittedLot
<1>8. ASSUME NEW r \in Requests, CommitDimensions(r) PROVE Rest
  BY <1>4, <1>8, CommittedDimensions
<1>9. ASSUME NEW r \in Requests, CommitMatch(r) PROVE Rest
  <2>1. Commits(r, "match") /\ UNCHANGED criteria
    BY <1>9 DEF CommitMatch, Commits
  <2> QED
    BY <1>4, <2>1
<1> QED
  BY <1>2, <1>3, <1>5, <1>6, <1>7, <1>8, <1>9, StepCases

LEMMA SetupBegins == Init => DimsInv /\ CriteriaInv
<1> SUFFICES ASSUME Init PROVE DimsInv /\ CriteriaInv
  OBVIOUS
<1>1. Idle.op = "idle" /\ \A r \in Requests : req[r].op = "idle"
  BY DEF Init, Idle
<1>2. DimsInv
  <2>1. \A l \in Followed : dims[l] = <<>> /\ rubric[l] = {}
    BY DEF Init
  <2>2. Detailed(<<>>) = {}
    BY DEF Detailed
  <2>3. OwnRubric
    BY <2>1, <2>2 DEF OwnRubric
  <2> QED
    BY <1>1, <2>1, <2>3, TypeBegins DEF DimsInv, WeightsAddUp, OldIsThere
<1>3. CriteriaInv
  BY <1>1, TypeBegins DEF Init, CriteriaInv, CriteriaFit, SeenIsThere
<1> QED
  BY <1>2, <1>3

LEMMA DimsMean == DimsInv => CriteriaBelong
<1> SUFFICES ASSUME DimsInv, "dims" \notin raced, NEW l \in Followed
             PROVE  /\ rubric[l] \subseteq DOMAIN dims[l]
                    /\ \A d \in DOMAIN dims[l] :
                        ListDimensions(l)[d].criteria # {} <=> dims[l][d].detailed
  BY DEF CriteriaBelong
<1>1. rubric[l] = Detailed(dims[l])
  BY DEF DimsInv, OwnRubric
<1>2. ASSUME NEW d \in DOMAIN dims[l]
      PROVE  ListDimensions(l)[d].criteria # {} <=> dims[l][d].detailed
  <2>1. ListDimensions(l)[d].criteria = {d} \cap rubric[l]
    BY DEF ListDimensions
  <2>2. d \in rubric[l] <=> dims[l][d].detailed
    BY <1>1 DEF Detailed
  <2> QED
    BY <2>1, <2>2
<1> QED
  BY <1>1, <1>2 DEF Detailed

(* Whoever configures a lot at a time, its weights add up; and unless two   *)
(* requests of the kind overlapped, its dimensions are shown with the       *)
(* criteria they were given, and none where they were given none, and the   *)
(* numbers its experts are chosen by fit together.                          *)
THEOREM SetupFitsHolds == Spec => []SetupFits
<1>1. DimsInv /\ CriteriaInv /\ [Next]_vars => DimsInv' /\ CriteriaInv'
  BY DimsStep, CriteriaStep
<1>2. DimsInv /\ CriteriaInv => SetupFits
  BY DimsMean DEF DimsInv, CriteriaInv, SetupFits, NumbersFit
<1> QED
  BY SetupBegins, <1>1, <1>2, PTL DEF Spec

-----------------------------------------------------------------------------
(* The experts of a dimension *)

(* Those of the first m that are not in F, counted along 1..n: m of them,   *)
(* or all that there are.                                                   *)
Outside(F, i) == {j \in 1..i : j \notin F}
Lacking(F, m, i) == {k \in Outside(F, i) : Cardinality(Outside(F, k)) <= m}

LEMMA Counted ==
    ASSUME NEW n \in Nat, NEW F, NEW m \in Int
    PROVE  /\ IsFiniteSet(Outside(F, n)) /\ IsFiniteSet(Lacking(F, m, n))
           /\ \/ Cardinality(Lacking(F, m, n)) >= Cardinality(Outside(F, n))
              \/ Cardinality(Lacking(F, m, n)) >= m
<1> DEFINE c(i) == Cardinality(Outside(F, i))
           k(i) == Cardinality(Lacking(F, m, i))
           Enough(i) == k(i) >= c(i) \/ k(i) >= m
           T == {i \in 0..n : Enough(i)}
<1>1. ASSUME NEW i \in Nat
      PROVE  /\ IsFiniteSet(Outside(F, i)) /\ IsFiniteSet(Lacking(F, m, i))
             /\ c(i) \in Nat /\ k(i) \in Nat
  <2>1. IsFiniteSet(1..i) /\ Outside(F, i) \in SUBSET (1..i)
    BY FS_Interval DEF Outside
  <2>2. IsFiniteSet(Outside(F, i)) /\ Lacking(F, m, i) \in SUBSET Outside(F, i)
    BY <2>1, FS_Subset DEF Lacking
  <2>3. IsFiniteSet(Lacking(F, m, i))
    BY <2>2, FS_Subset
  <2> QED
    BY <2>2, <2>3, FS_CardinalityType
<1>2. 0 \in T
  <2>1. Outside(F, 0) = {}
    BY DEF Outside
  <2>2. c(0) = 0
    BY <2>1, FS_EmptySet
  <2> QED
    BY <1>1, <2>2
<1>3. ASSUME NEW i \in 1..n, i - 1 \in T PROVE i \in T
  <2>0. i - 1 \in Nat /\ i \in Nat /\ Enough(i - 1)
    BY <1>3
  <2>1. /\ IsFiniteSet(Outside(F, i - 1)) /\ IsFiniteSet(Lacking(F, m, i - 1))
        /\ c(i - 1) \in Nat /\ k(i - 1) \in Nat /\ c(i) \in Nat /\ k(i) \in Nat
    BY <1>1, <2>0
  <2>2. CASE i \in F
    <3>1. Outside(F, i) = Outside(F, i - 1)
      BY <2>0, <2>2 DEF Outside
    <3>2. Lacking(F, m, i) = Lacking(F, m, i - 1)
      BY <3>1 DEF Lacking
    <3> QED
      BY <2>0, <3>1, <3>2
  <2>3. CASE i \notin F
    <3>1. Outside(F, i) = Outside(F, i - 1) \cup {i} /\ i \notin Outside(F, i - 1)
      BY <2>0, <2>3 DEF Outside
    <3>2. c(i) = c(i - 1) + 1
      BY <2>1, <3>1, FS_AddElement
    <3>3. CASE c(i) <= m
      <4>1. Lacking(F, m, i) = Lacking(F, m, i - 1) \cup {i} /\ i \notin Lacking(F, m, i - 1)
        BY <3>1, <3>3 DEF Lacking
      <4>2. k(i) = k(i - 1) + 1
        BY <2>1, <4>1, FS_AddElement
      <4> HIDE DEF c, k
      <4> QED
        BY <2>0, <2>1, <3>2, <4>2
    <3>4. CASE ~ (c(i) <= m)
      <4>1. Lacking(F, m, i) = Lacking(F, m, i - 1)
        BY <3>1, <3>4 DEF Lacking
      <4>2. k(i) = k(i - 1)
        BY <4>1
      <4> HIDE DEF c, k
      <4> QED
        BY <2>0, <2>1, <3>2, <3>4, <4>2
    <3> QED
      BY <3>3, <3>4
  <2> QED
    BY <2>2, <2>3
<1> HIDE DEF T
<1>4. n \in T
  BY <1>2, <1>3, ReachedAll
<1> QED
  BY <1>1, <1>4 DEF T

(* Every dimension is given to all the chosen, or to as many as it needs.   *)
LEMMA FilledEnough ==
    ASSUME NEW d, NEW n, NEW size \in Nat, NEW min \in Nat
    PROVE  /\ IsFiniteSet(Filled(d, n, size, min)) /\ Filled(d, n, size, min) \subseteq 1..size
           /\ Cardinality(Filled(d, n, size, min)) >= Min({size, min})
<1> DEFINE F == {i \in 1..size : FirstRound(i, n) = d}
           m == min - Cardinality(F)
           L == Lacking(F, m, size)
<1>1. IsFiniteSet(1..size) /\ Cardinality(1..size) = size
  BY FS_Interval
<1>2. IsFiniteSet(F) /\ Cardinality(F) \in Nat /\ F \subseteq 1..size
  BY <1>1, FS_Subset, FS_CardinalityType
<1>3. Filled(d, n, size, min) = F \cup L
  BY DEF Filled, Lacking, Outside
<1> HIDE DEF F
<1>4. m \in Int
  BY <1>2
<1>5. /\ IsFiniteSet(Outside(F, size)) /\ IsFiniteSet(L)
      /\ \/ Cardinality(L) >= Cardinality(Outside(F, size))
         \/ Cardinality(L) >= m
  BY <1>4, Counted
<1>6. Outside(F, size) = (1..size) \ F
  BY DEF Outside
<1>7. Cardinality(Outside(F, size)) = size - Cardinality(F)
  <2>1. (1..size) \cap F = F
    BY <1>2
  <2> QED
    BY <1>1, <1>2, <1>6, <2>1, FS_Difference
<1>8. L \subseteq (1..size) \ F
  BY <1>6 DEF Lacking
<1>9. /\ IsFiniteSet(F \cup L)
      /\ Cardinality(F \cup L) = Cardinality(F) + Cardinality(L)
  <2>1. F \cap L = {}
    BY <1>8
  <2>2. Cardinality(F \cap L) = 0
    BY <2>1, FS_EmptySet
  <2>3. Cardinality(L) \in Nat
    BY <1>5, FS_CardinalityType
  <2>4. /\ IsFiniteSet(F \cup L)
        /\ Cardinality(F \cup L) = Cardinality(F) + Cardinality(L) - Cardinality(F \cap L)
    BY <1>2, <1>5, FS_Union
  <2> HIDE DEF L
  <2> QED
    BY <1>2, <2>2, <2>3, <2>4
<1>10. Cardinality(L) \in Nat
  BY <1>5, FS_CardinalityType
<1>11. Cardinality(F \cup L) >= size \/ Cardinality(F \cup L) >= min
  BY <1>2, <1>5, <1>7, <1>9, <1>10
<1>12. Min({size, min}) \in Nat /\ Min({size, min}) <= size /\ Min({size, min}) <= min
  BY Lesser
<1>13. Cardinality(F \cup L) >= Min({size, min})
  BY <1>2, <1>9, <1>10, <1>11, <1>12
<1> QED
  BY <1>2, <1>3, <1>8, <1>9, <1>13

(* Unless two matchings overlapped, the rows that one has read are there.   *)
ExpertsAreThere ==
    "match" \notin raced =>
        \A r \in Requests : req[r].op = "match" => req[r].seen = asg[req[r].lot]

Having(a, d) == {e \in Experts : d \in a[e]}

MatchInv == TypeInv /\ ExpertsAreThere /\ EveryDimensionCovered

LEMMA HavingCount ==
    ASSUME NEW a, NEW d PROVE IsFiniteSet(Having(a, d)) /\ Cardinality(Having(a, d)) \in Nat
BY FS_Subset, FS_CardinalityType DEF Having

(* A matching that has read the rows that are there gives every dimension   *)
(* of those it goes by to as many as it was to.                             *)
LEMMA WrittenCover ==
    ASSUME TypeInv, NEW q, RequestOk(q), q.op = "match", q.seen = asg[q.lot],
           NEW size \in Nat, NEW ranking, Writes(q, size, ranking),
           NEW d \in 1..Len(q.dims)
    PROVE  Cardinality(Having(asg'[q.lot], d)) >= Min({size, q.by.min})
<1> DEFINE n == Len(q.dims)
           S == Filled(d, n, size, q.by.min)
           T == Having(asg'[q.lot], d)
<1>1. q.by.min \in Nat
  BY DEF RequestOk, Row
<1>2. /\ IsFiniteSet(S) /\ S \subseteq 1..size
      /\ Cardinality(S) >= Min({size, q.by.min})
  BY <1>1, FilledEnough
<1>3. ASSUME NEW i \in S PROVE ranking[i] \in T
  <2>1. i \in 1..size
    BY <1>2
  <2>2. d \in Share(i, n, size, q.by.min)
    BY DEF Share
  <2>3. /\ ranking[i] \in Experts
        /\ \/ asg'[q.lot][ranking[i]] = Share(i, n, size, q.by.min)
           \/ /\ Share(i, n, size, q.by.min) = q.seen[ranking[i]]
              /\ asg'[q.lot][ranking[i]] = asg[q.lot][ranking[i]]
    BY <2>1 DEF Writes
  <2>4. d \in asg'[q.lot][ranking[i]]
    BY <2>2, <2>3
  <2> QED
    BY <2>3, <2>4 DEF Having
<1>4. \A i, j \in S : ranking[i] = ranking[j] => i = j
  BY <1>2 DEF Writes
<1> DEFINE f == [i \in S |-> ranking[i]]
<1> HIDE DEF S, T
<1>5. f \in Injection(S, T)
  <2>1. f \in [S -> T] /\ DOMAIN f = S
    BY <1>3
  <2>2. \A i, j \in DOMAIN f : f[i] = f[j] => i = j
    BY <1>4
  <2> QED
    BY <2>1, <2>2 DEF Injection, IsInjective
<1>6. IsFiniteSet(T) /\ Cardinality(T) \in Nat
  BY HavingCount DEF T
<1>7. Cardinality(S) <= Cardinality(T)
  BY <1>5, <1>6, FS_Injection
<1>8. Cardinality(S) \in Nat /\ Min({size, q.by.min}) \in Nat
  BY <1>1, <1>2, FS_CardinalityType, Lesser
<1>9. Cardinality(T) >= Min({size, q.by.min})
  BY <1>2, <1>6, <1>7, <1>8
<1> QED
  BY <1>9 DEF T

LEMMA MatchStep ==
    ASSUME MatchInv, [Next]_vars
    PROVE  MatchInv'
<1> USE DEF MatchInv
<1>0. TypeInv'
  BY TypeStays
<1> DEFINE Rest == ExpertsAreThere' /\ EveryDimensionCovered'
<1> SUFFICES Rest
  BY <1>0
<1>1. ASSUME UNCHANGED <<dims, asg, floor>>, "match" \in raced <=> "match" \in raced',
             \A x \in Requests : req'[x].op = "match" => req'[x] = req[x]
      PROVE  Rest
  <2>1. ExpertsAreThere'
    BY <1>1 DEF ExpertsAreThere
  <2>2. EveryDimensionCovered'
    BY <1>1 DEF EveryDimensionCovered
  <2> QED
    BY <2>1, <2>2
<1> HIDE DEF Rest
<1>2. CASE UNCHANGED <<Rows, req>>
  BY <1>1, <1>2 DEF Rows
<1>3. ASSUME NEW r \in Requests, Dropped(r) PROVE Rest
  BY <1>1, <1>3, DroppedFacts DEF Rows
<1>4. ASSUME NEW r \in Requests, NEW op, Commits(r, op), op # "match",
             UNCHANGED <<dims, asg, floor>>
      PROVE  Rest
  BY <1>1, <1>4, CommitsElse
<1>5. ASSUME NEW r \in Requests, NEW q, Accepted(r, q) PROVE Rest
  <2>1. /\ UNCHANGED Rows /\ Reads(q) /\ req'[r] = q
        /\ \A x \in Requests : x # r => req'[x] = req[x]
    BY <1>5, AcceptedFacts
  <2>2. EveryDimensionCovered'
    BY <2>1 DEF EveryDimensionCovered, Rows
  <2>3. ExpertsAreThere'
    BY <2>1 DEF ExpertsAreThere, Reads, Rows
  <2> QED
    BY <2>2, <2>3 DEF Rest
(* New dimensions have no experts yet, and are not said to.                 *)
<1>6. ASSUME NEW r \in Requests, CommitDimensions(r) PROVE Rest
  <2> DEFINE q == req[r]
             l == q.lot
  <2>1. Commits(r, "dims") /\ l \in Followed /\ UNCHANGED asg
    BY <1>6, CommittedDimensions DEF Commits, RequestOk
  <2>2. CASE UNCHANGED <<dims, floor>>
    BY <1>4, <2>1, <2>2
  <2>3. ASSUME dims' = [dims EXCEPT ![l] = q.list], floor' = [floor EXCEPT ![l] = 0]
        PROVE  Rest
    <3>0. TypeInv /\ Commits(r, "dims")
      BY <2>1
    <3> HIDE DEF MatchInv
    <3>1. /\ "match" \in raced <=> "match" \in raced'
          /\ \A x \in Requests : req'[x].op = "match" => x # r /\ req'[x] = req[x]
      BY <3>0, MatchesStay
    <3> USE DEF MatchInv
    <3>2. ExpertsAreThere'
      BY <2>1, <3>1 DEF ExpertsAreThere
    <3>3. ASSUME "match" \notin raced', NEW k \in Followed, NEW d \in DOMAIN dims'[k]
          PROVE  Cardinality(Having(asg'[k], d)) >= floor'[k]
      <4>1. dims \in [Followed -> {<<>>} \cup Lists] /\ floor \in [Followed -> Nat]
        BY DEF TypeInv, SetupType
      <4>2. CASE k = l
        <5>1. floor'[k] = 0
          BY <2>1, <2>3, <4>1, <4>2
        <5> QED
          BY <5>1, HavingCount
      <4>3. CASE k # l
        <5>1. floor'[k] = floor[k] /\ d \in DOMAIN dims[k] /\ asg' = asg
          BY <2>1, <2>3, <4>1, <4>3
        <5> QED
          BY <3>1, <3>3, <5>1 DEF EveryDimensionCovered, Having
      <4> QED
        BY <4>2, <4>3
    <3> QED
      BY <3>2, <3>3 DEF Rest, EveryDimensionCovered, Having
  <2> QED
    BY <1>6, <2>2, <2>3, CommittedDimensions
<1>7. ASSUME NEW r \in Requests, CommitMatch(r) PROVE Rest
  <2> DEFINE q == req[r]
             l == q.lot
  <2>1. /\ Commits(r, "match") /\ RequestOk(q) /\ q.op = "match" /\ UNCHANGED <<dims, criteria>>
    BY <1>7 DEF CommitMatch, Commits, TypeInv, SetupType
  <2>2. CASE "match" \in raced'
    BY <2>2 DEF Rest, ExpertsAreThere, EveryDimensionCovered
  <2>3. CASE "match" \notin raced'
    <3>1. "match" \notin raced /\ \A x \in Requests : req'[x].op # "match"
      BY <2>1, <2>3, CommitsAlone
    <3>2. q.seen = asg[l]
      BY <2>1, <3>1 DEF ExpertsAreThere
    <3>3. ExpertsAreThere'
      BY <3>1 DEF ExpertsAreThere
    <3>4. ASSUME NEW k \in Followed, NEW d \in DOMAIN dims'[k]
          PROVE  Cardinality(Having(asg'[k], d)) >= floor'[k]
      <4>0. Cardinality(Having(asg[k], d)) >= floor[k]
        BY <2>1, <3>1, <3>4 DEF EveryDimensionCovered, Having
      <4>1. CASE UNCHANGED <<asg, floor>>
        BY <4>0, <4>1
      <4>2. ASSUME NEW size \in Nat, NEW ranking, Writes(q, size, ranking)
            PROVE  Cardinality(Having(asg'[k], d)) >= floor'[k]
        <5>1. CASE k # l
          <6>1. asg'[k] = asg[k] /\ floor'[k] = floor[k]
            BY <4>2, <5>1 DEF Writes
          <6> QED
            BY <4>0, <6>1
        <5>2. CASE k = l /\ q.dims # dims[l]
          <6>1. floor'[k] = 0
            BY <4>2, <5>2 DEF Writes
          <6> QED
            BY <6>1, HavingCount
        <5>3. CASE k = l /\ q.dims = dims[l]
          <6>1. floor'[k] = Min({size, q.by.min})
            BY <4>2, <5>3 DEF Writes
          <6>2. d \in 1..Len(q.dims)
            BY <2>1, <3>4, <5>3, ListFacts DEF RequestOk
          <6> QED
            BY <2>1, <3>2, <4>2, <5>3, <6>1, <6>2, WrittenCover
        <5> QED
          BY <5>1, <5>2, <5>3
      <4>3. UNCHANGED <<asg, floor>> \/ \E size \in Nat : \E ranking : Writes(q, size, ranking)
        BY <1>7, Matched DEF TypeInv
      <4>4. ASSUME NEW size \in Nat, \E ranking : Writes(q, size, ranking)
            PROVE  Cardinality(Having(asg'[k], d)) >= floor'[k]
        BY <4>2, <4>4
      <4> QED
        BY <4>1, <4>3, <4>4
    <3> QED
      BY <3>3, <3>4 DEF Rest, EveryDimensionCovered, Having
  <2> QED
    BY <2>2, <2>3
<1>8. ASSUME NEW r \in Requests, CommitLot(r) PROVE Rest
  BY <1>4, <1>8, CommittedLot
<1>9. ASSUME NEW r \in Requests, CommitCriteria(r) PROVE Rest
  BY <1>4, <1>9, CommittedCriteria
<1> QED
  BY <1>2, <1>3, <1>5, <1>6, <1>7, <1>8, <1>9, StepCases

LEMMA MatchBegins == Init => MatchInv
<1> SUFFICES ASSUME Init PROVE MatchInv
  OBVIOUS
<1>1. Idle.op = "idle" /\ \A r \in Requests : req[r].op = "idle"
  BY DEF Init, Idle
<1>2. ASSUME NEW l \in Followed, NEW d \in DOMAIN dims[l] PROVE FALSE
  BY <1>2 DEF Init
<1> QED
  BY <1>1, <1>2, TypeBegins DEF MatchInv, ExpertsAreThere, EveryDimensionCovered

(* Until they are replaced, every dimension has the experts that the last   *)
(* matching was to give it, or all that it chose, unless two overlapped:    *)
(* for any numbers of dimensions, of experts and of those asked for.        *)
THEOREM EveryDimensionCoveredHolds == Spec => []EveryDimensionCovered
<1>1. MatchInv /\ [Next]_vars => MatchInv'
  BY MatchStep
<1>2. MatchInv => EveryDimensionCovered
  BY DEF MatchInv
<1> QED
  BY MatchBegins, <1>1, <1>2, PTL DEF Spec

-----------------------------------------------------------------------------
(* The login limiter *)

LEMMA LessIs ==
    ASSUME NEW n \in Nat
    PROVE  Less(n) = IF n = 0 THEN 0 ELSE n - 1
<1>1. ASSUME NEW m \in Int, m >= 0 PROVE Max({m, 0}) = m
  BY <1>1 DEF Max
<1>2. Max({n - 1, 0}) = IF n = 0 THEN 0 ELSE n - 1
  <2>1. CASE n = 0
    BY <2>1 DEF Max
  <2>2. CASE n # 0
    BY <1>1, <2>2
  <2> QED
    BY <2>1, <2>2
<1> QED
  BY <1>2 DEF Less

Counts == [Ages -> Nat]

LEMMA AgesAre ==
    /\ IsFiniteSet(Ages) /\ Ages \subseteq Nat /\ 0 \in Ages
    /\ \A a \in Nat : a \in Ages <=> a < WindowTicks
    /\ WindowTicks \in Nat \ {0} /\ WindowTicks - 1 \in Ages
BY LimiterAssumption, FS_Interval DEF Ages

LEMMA PassedIsSum ==
    ASSUME NEW b \in Counts
    PROVE  SumFunction(b) = SumOver(Ages, b)
BY SumOfFunction DEF Counts

(* What is counted, a tick later: the oldest are forgotten.                 *)
Aged(b) == [age \in Ages |-> IF age = 0 THEN 0 ELSE b[age - 1]]

(* The youngest n ages alone.                                               *)
Young(b, n) == [age \in Ages |-> IF age < n THEN b[age] ELSE 0]

LEMMA YoungMore ==
    ASSUME NEW b \in Counts, NEW n \in Ages
    PROVE  /\ SumOver(Ages, Young(b, n)) \in Nat
           /\ SumOver(Ages, Young(b, n + 1)) = SumOver(Ages, Young(b, n)) + b[n]
<1> DEFINE y == Young(b, n)
           z == Young(b, n + 1)
<1>1. /\ IsFiniteSet(Ages) /\ n \in Ages
      /\ y \in [Ages -> Nat] /\ z \in [Ages -> Nat]
  BY AgesAre DEF Young, Counts
<1>2. b[n] \in Nat /\ y[n] = 0 /\ z[n] = b[n] /\ \A x \in Ages : x # n => z[x] = y[x]
  BY AgesAre DEF Young, Counts
<1> HIDE DEF y, z
<1>3. \E t \in Nat : SumOver(Ages, y) = t + y[n] /\ SumOver(Ages, z) = t + z[n]
  BY ONLY <1>1, <1>2, SumDiffers
<1>4. SumOver(Ages, y) \in Nat /\ SumOver(Ages, z) = SumOver(Ages, y) + b[n]
  BY <1>2, <1>3
<1> QED
  BY <1>4 DEF y, z

LEMMA AgedIsLess ==
    ASSUME NEW b \in Counts
    PROVE  Aged(b) \in Counts /\ SumFunction(Aged(b)) <= SumFunction(b)
<1> DEFINE c == Aged(b)
           last == WindowTicks - 1
           T == {n \in 0..last : SumOver(Ages, Young(c, n + 1)) = SumOver(Ages, Young(b, n))}
<1>1. c \in Counts /\ c[0] = 0 /\ \A n \in Ages \ {0} : n - 1 \in Ages /\ c[n] = b[n - 1]
  BY AgesAre DEF Aged, Counts
<1> HIDE DEF c
<1>2. 0 \in T
  <2>1. Young(c, 1) = [age \in Ages |-> 0] /\ Young(b, 0) = [age \in Ages |-> 0]
    BY AgesAre, <1>1 DEF Young
  <2>2. 0 \in 0..last /\ 0 + 1 = 1
    BY AgesAre
  <2> QED
    BY <2>1, <2>2
<1>3. ASSUME NEW n \in 1..last, n - 1 \in T PROVE n \in T
  <2>1. n \in Ages \ {0} /\ n - 1 \in Ages /\ (n - 1) + 1 = n /\ n \in 0..last
    BY AgesAre
  <2>2. SumOver(Ages, Young(c, n)) = SumOver(Ages, Young(b, n - 1))
    BY <1>3, <2>1
  <2>3. SumOver(Ages, Young(c, n + 1)) = SumOver(Ages, Young(c, n)) + c[n]
    BY <1>1, <2>1, YoungMore
  <2>4. SumOver(Ages, Young(b, n)) = SumOver(Ages, Young(b, n - 1)) + b[n - 1]
    BY <2>1, YoungMore
  <2>5. SumOver(Ages, Young(c, n + 1)) = SumOver(Ages, Young(b, n))
    BY <1>1, <2>1, <2>2, <2>3, <2>4
  <2> QED
    BY <2>1, <2>5
<1> HIDE DEF T
<1>4. last \in Nat
  BY AgesAre
<1>5. last \in T
  BY <1>2, <1>3, <1>4, ReachedAll
<1>6. Young(c, last + 1) = c /\ Young(b, last + 1) = b
  <2>1. \A d \in Counts : Young(d, last + 1) = d
    BY AgesAre DEF Young, Counts
  <2> QED
    BY <1>1, <2>1
<1>7. SumOver(Ages, c) = SumOver(Ages, Young(b, last))
  BY <1>5, <1>6 DEF T
<1>8. /\ SumOver(Ages, Young(b, last)) \in Nat
      /\ SumOver(Ages, b) = SumOver(Ages, Young(b, last)) + b[last]
  BY <1>6, AgesAre, YoungMore
<1>9. b[last] \in Nat
  BY AgesAre DEF Counts
<1>10. SumOver(Ages, c) <= SumOver(Ages, b)
  BY <1>7, <1>8, <1>9
<1>11. SumFunction(c) = SumOver(Ages, c) /\ SumFunction(b) = SumOver(Ages, b)
  BY <1>1, PassedIsSum
<1> QED
  BY <1>1, <1>10, <1>11 DEF c

(* The count is at least what has passed, and lives as long as the window   *)
(* of the youngest attempt that did.                                        *)
LimiterInv ==
    /\ count \in Nat /\ windowLeft \in 0..WindowTicks
    /\ passed \in Counts
    /\ windowLeft = 0 => count = 0
    /\ \A a \in Ages : passed[a] > 0 => windowLeft >= WindowTicks - a
    /\ SumFunction(passed) <= count
    /\ FewAttempts

LEMMA NonePassedIs ==
    NonePassed \in Counts /\ SumFunction(NonePassed) = 0 /\ \A a \in Ages : NonePassed[a] = 0
<1>1. NonePassed \in Counts /\ \A a \in Ages : NonePassed[a] = 0
  BY DEF NonePassed, Counts
<1>2. SumOver(Ages, NonePassed) = 0
  BY AgesAre, SumNothing DEF NonePassed
<1> QED
  BY <1>1, <1>2, PassedIsSum

LEMMA TakenBack ==
    ASSUME count' = 0, windowLeft' = 0, passed' = NonePassed
    PROVE  LimiterInv'
BY LimiterAssumption, NonePassedIs DEF LimiterInv, FewAttempts

LEMMA OnePasses ==
    ASSUME NEW b \in Counts, NEW c \in Counts, c = [b EXCEPT ![0] = b[0] + 1]
    PROVE  SumOver(Ages, c) = SumOver(Ages, b) + 1
<1>1. /\ IsFiniteSet(Ages) /\ 0 \in Ages
      /\ b \in [Ages -> Nat] /\ c \in [Ages -> Nat]
  BY AgesAre DEF Counts
<1>2. b[0] \in Nat /\ c[0] = b[0] + 1 /\ \A x \in Ages : x # 0 => c[x] = b[x]
  BY <1>1
<1>3. \E t \in Nat : SumOver(Ages, b) = t + b[0] /\ SumOver(Ages, c) = t + c[0]
  BY ONLY <1>1, <1>2, SumDiffers
<1> QED
  BY <1>2, <1>3

LEMMA Recorded ==
    ASSUME LimiterInv, NEW a \in Attempts, Record(a)
    PROVE  LimiterInv'
<1>1. CASE UNCHANGED <<count, windowLeft, passed>>
  BY <1>1 DEF LimiterInv, FewAttempts
<1>2. CASE /\ count' = Min({count + 1, Limit + 1}) /\ windowLeft' = WindowTicks
           /\ passed' = IF count + 1 > Limit THEN passed ELSE [passed EXCEPT ![0] = @ + 1]
  <2>0. /\ count \in Nat /\ Limit \in Nat /\ passed \in Counts /\ WindowTicks \in Nat \ {0}
        /\ SumFunction(passed) \in Nat /\ SumFunction(passed) <= count
        /\ SumFunction(passed) <= Limit
    <3>1. SumOver(Ages, passed) \in Nat
      BY AgesAre, SumIsNat DEF LimiterInv, Counts
    <3> QED
      BY <3>1, LimiterAssumption, PassedIsSum DEF LimiterInv, FewAttempts
  <2>1. Min({count + 1, Limit + 1}) = IF count < Limit THEN count + 1 ELSE Limit + 1
    BY <2>0 DEF Min
  <2>2. passed' \in Counts /\ SumFunction(passed') <= count' /\ SumFunction(passed') <= Limit
    <3>1. CASE count + 1 > Limit
      BY <1>2, <2>0, <2>1, <3>1
    <3>2. CASE ~ (count + 1 > Limit)
      <4>1. passed \in [Ages -> Nat] /\ passed[0] + 1 \in Nat /\ passed[0] \in Nat
        BY <2>0, AgesAre DEF Counts
      <4>2. passed' = [passed EXCEPT ![0] = passed[0] + 1]
        BY <1>2, <3>2
      <4>3. passed' \in Counts
        BY <4>1, <4>2 DEF Counts
      <4>4. SumOver(Ages, passed') = SumOver(Ages, passed) + 1
        BY <2>0, <4>2, <4>3, OnePasses
      <4>5. SumFunction(passed') = SumFunction(passed) + 1
        BY <2>0, <4>1, <4>3, <4>4, PassedIsSum
      <4>6. count' = count + 1
        BY <1>2, <2>0, <2>1, <3>2
      <4> QED
        BY <2>0, <3>2, <4>3, <4>5, <4>6
    <3> QED
      BY <3>1, <3>2
  <2>3. \A x \in Ages : passed'[x] > 0 => windowLeft' >= WindowTicks - x
    BY <1>2, <2>0, AgesAre
  <2>4. count' \in Nat
    BY <1>2, <2>0, <2>1
  <2> QED
    BY <1>2, <2>0, <2>2, <2>3, <2>4 DEF LimiterInv, FewAttempts
<1> QED
  BY <1>1, <1>2 DEF Record, Renewed

LEMMA Ticked ==
    ASSUME LimiterInv, Tick
    PROVE  LimiterInv'
<1>1. /\ windowLeft \in 0..WindowTicks /\ WindowTicks \in Nat \ {0} /\ count \in Nat
      /\ windowLeft' = IF windowLeft = 0 THEN 0 ELSE windowLeft - 1
      /\ count' = IF windowLeft' = 0 THEN 0 ELSE count
      /\ passed \in Counts /\ passed' = Aged(passed)
  BY LimiterAssumption, LessIs DEF LimiterInv, Tick, Aged
<1>2. passed' \in Counts /\ SumFunction(passed') <= SumFunction(passed)
  BY <1>1, AgedIsLess
<1>3. \A n \in Ages \ {0} : n - 1 \in Ages /\ passed'[n] = passed[n - 1]
  BY <1>1, AgesAre DEF Aged
<1>4. \A n \in Ages : passed'[n] > 0 => windowLeft > 1 /\ windowLeft' >= WindowTicks - n
  <2>1. ASSUME NEW n \in Ages, passed'[n] > 0
        PROVE  windowLeft > 1 /\ windowLeft' >= WindowTicks - n
    <3>1. n # 0
      BY <1>1, <2>1, AgesAre DEF Aged
    <3>2. windowLeft >= WindowTicks - (n - 1)
      BY <1>3, <2>1, <3>1 DEF LimiterInv
    <3>3. n \in Nat /\ n < WindowTicks
      BY AgesAre
    <3> QED
      BY <1>1, <3>2, <3>3
  <2> QED
    BY <2>1
<1>5. SumFunction(passed') \in Nat /\ SumFunction(passed) \in Nat
  <2>1. ASSUME NEW b \in Counts PROVE SumFunction(b) \in Nat
    <3>1. IsFiniteSet(Ages) /\ b \in [Ages -> Nat]
      BY AgesAre DEF Counts
    <3>2. SumOver(Ages, b) \in Nat
      BY ONLY <3>1, SumIsNat
    <3> QED
      BY <3>2, PassedIsSum
  <2> QED
    BY <1>1, <1>2, <2>1
<1>6. SumFunction(passed') <= count'
  <2>1. CASE windowLeft' = 0
    <3>1. \A n \in Ages : passed'[n] = 0
      BY <1>1, <1>2, <1>4, <2>1 DEF Counts
    <3>2. passed' = NonePassed
      BY <1>2, <3>1 DEF Counts, NonePassed
    <3> QED
      BY <1>1, <2>1, <3>2, NonePassedIs
  <2>2. CASE windowLeft' # 0
    BY <1>1, <1>2, <1>5, <2>2 DEF LimiterInv
  <2> QED
    BY <2>1, <2>2
<1>7. SumFunction(passed') <= Limit
  BY <1>2, <1>5, LimiterAssumption DEF LimiterInv, FewAttempts
<1>8. /\ count' \in Nat /\ windowLeft' \in 0..WindowTicks
      /\ windowLeft' = 0 => count' = 0
  BY <1>1
<1> QED
  BY <1>2, <1>4, <1>6, <1>7, <1>8 DEF LimiterInv, FewAttempts

LEMMA LimiterStep ==
    ASSUME LimiterInv, [LimiterNext]_limiterVars
    PROVE  LimiterInv'
<1>1. CASE UNCHANGED limiterVars
  BY <1>1 DEF limiterVars, LimiterInv, FewAttempts
<1>2. ASSUME NEW a \in Attempts, CheckLimit(a) \/ Cool(a) \/ Verify(a) PROVE LimiterInv'
  BY <1>2 DEF CheckLimit, Cool, Verify, LimiterInv, FewAttempts
<1>3. ASSUME NEW a \in Attempts, Record(a) PROVE LimiterInv'
  BY <1>3, Recorded
<1>4. ASSUME NEW a \in Attempts, ClearAttempts(a) PROVE LimiterInv'
  <2>1. CASE UNCHANGED <<count, windowLeft, passed>>
    BY <2>1 DEF LimiterInv, FewAttempts
  <2> QED
    BY <1>4, <2>1, TakenBack DEF ClearAttempts
<1>5. CASE Tick
  BY <1>5, Ticked
<1>6. CASE CounterStops
  BY <1>6 DEF CounterStops, LimiterInv, FewAttempts
<1>7. CASE CounterReturns
  <2>1. CASE UNCHANGED <<count, windowLeft, passed>>
    BY <2>1 DEF LimiterInv, FewAttempts
  <2> QED
    BY <1>7, <2>1, TakenBack DEF CounterReturns
<1> QED
  BY <1>1, <1>2, <1>3, <1>4, <1>5, <1>6, <1>7 DEF LimiterNext

LEMMA LimiterBegins == LimiterInit => LimiterInv
<1> SUFFICES ASSUME LimiterInit PROVE LimiterInv
  OBVIOUS
<1> QED
  BY LimiterAssumption, NonePassedIs DEF LimiterInit, LimiterInv, FewAttempts

(* No more than the limit get to have their password looked at within a     *)
(* window: for any number of attempts that overlap, any limit and times.    *)
THEOREM FewAttemptsHolds == LimiterSpec => []FewAttempts
<1>1. LimiterInv /\ [LimiterNext]_limiterVars => LimiterInv'
  BY LimiterStep
<1>2. LimiterInv => FewAttempts
  BY DEF LimiterInv
<1> QED
  BY LimiterBegins, <1>1, <1>2, PTL DEF LimiterSpec
=============================================================================
