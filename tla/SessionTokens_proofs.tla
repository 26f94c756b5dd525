------------------------ MODULE SessionTokens_proofs ------------------------
(* Proofs about SessionTokens for any requests, tokens and outages; about   *)
(* Portal for any companies and lots; about Listings for any rows.          *)
EXTENDS SessionTokens, Portal, Listings, FiniteSetTheorems, TLAPS

USE SessionAssumption

-----------------------------------------------------------------------------
(* The inductive invariant *)

ReqType == {Idle} \cup RefreshRequest \cup RevokeRequest \cup LoginRequest

Waits(q, t) == req[q].op = "issue" /\ req[q].token = t

(* A token in force was exchanged once at most, or is about to be, and has *)
(* its mark then.                                                          *)
Once(t) ==
    /\ \A c, d \in 1..issued : parent[c] = t /\ parent[d] = t => c = d
    /\ \A p, q \in Requests : Waits(p, t) /\ Waits(q, t) => p = q
    /\ \A c \in 1..issued, q \in Requests : parent[c] = t => ~Waits(q, t)
    /\ \A c \in 1..issued : parent[c] = t => mark[t] = "USED"
    /\ \A q \in Requests : Waits(q, t) => mark[t] = "USED"

Untouched(t) ==
    /\ \A c \in 1..issued : parent[c] # t
    /\ \A q \in Requests : ~Waits(q, t)

(* While a revocation is in force, only what was issued before it can have *)
(* been exchanged twice; when it expires, all of that has expired.         *)
TokenInv(t) == IF revoked THEN t > cut => Untouched(t) ELSE Once(t)

RequestInv(q) ==
    /\ req[q].op \in Refreshing => req[q].token <= issued
    /\ req[q].op \in {"consume", "issue"} /\ req[q].token \notin loose /\ revoked =>
            req[q].token <= cut
    /\ req[q].op = "clear" => revoked
    /\ req[q].op = "check" /\ expired < req[q].token /\ req[q].token <= req[q].after =>
            revoked /\ req[q].after <= cut
    /\ req[q].op = "consume" \/ (req[q].op = "issue" /\ ~req[q].blind) =>
            req[q].token <= expired \/ req[q].token > req[q].after

Inv ==
    /\ TypeOK
    /\ \A c \in 1..issued : parent[c] <= issued
    /\ \A q \in Requests : RequestInv(q)
    /\ \A t \in Tokens \ loose : expired < t /\ t <= issued => TokenInv(t)

-----------------------------------------------------------------------------
LEMMA RequestFields ==
    ASSUME NEW q \in ReqType
    PROVE  /\ q.op \in {"idle", "check", "consume", "issue", "revoke", "clear", "login"}
           /\ q.op \in Refreshing =>
                /\ q.token \in Tokens /\ q.blind \in BOOLEAN /\ q.after \in 0..MaxTokens
                /\ q = [op |-> q.op, token |-> q.token, blind |-> q.blind, after |-> q.after]
           /\ q.op = "clear" => q.found \subseteq Tokens
BY DEF ReqType, Idle, RefreshRequest, RevokeRequest, LoginRequest, Refreshing

LEMMA Refreshed ==
    ASSUME NEW op \in Refreshing, NEW t \in Tokens, NEW b \in BOOLEAN, NEW a \in 0..MaxTokens
    PROVE  [op |-> op, token |-> t, blind |-> b, after |-> a] \in ReqType
BY DEF ReqType, RefreshRequest

LEMMA Moved ==
    ASSUME NEW r \in ReqType, r.op \in Refreshing, NEW op \in Refreshing
    PROVE  /\ [r EXCEPT !.op = op] = [op |-> op, token |-> r.token, blind |-> r.blind, after |-> r.after]
           /\ [r EXCEPT !.op = op] \in ReqType
           /\ Unseen(r) \in ReqType
<1>1. /\ r.token \in Tokens /\ r.blind \in BOOLEAN /\ r.after \in 0..MaxTokens
      /\ r = [op |-> r.op, token |-> r.token, blind |-> r.blind, after |-> r.after]
  BY RequestFields
<1>2. [r EXCEPT !.op = op] = [op |-> op, token |-> r.token, blind |-> r.blind, after |-> r.after]
  BY <1>1
<1>3. [op |-> op, token |-> r.token, blind |-> r.blind, after |-> r.after] \in ReqType
  BY <1>1, Refreshed
<1>4. "issue" \in Refreshing
  BY DEF Refreshing
<1>5. [op |-> "issue", token |-> r.token, blind |-> TRUE, after |-> r.after] \in ReqType
  BY <1>1, <1>4, Refreshed
<1> QED
  BY <1>2, <1>3, <1>5 DEF Unseen

LEMMA OtherRequests ==
    /\ Idle \in ReqType /\ [op |-> "revoke"] \in ReqType /\ [op |-> "login"] \in ReqType
    /\ \A f \in SUBSET Tokens : [op |-> "clear", found |-> f] \in ReqType
BY DEF ReqType, RevokeRequest, LoginRequest

LEMMA Steps ==
    ASSUME TypeOK, NEW q \in Requests, NEW state, Goes(q, state)
    PROVE  /\ req'[q] = state
           /\ \A p \in Requests \ {q} : req'[p] = req[p]
           /\ state \in ReqType => req' \in [Requests -> ReqType]
BY DEF Goes, TypeOK, ReqType

(* The types of the numbers, for the arithmetic. *)
LEMMA Numbers ==
    ASSUME TypeOK
    PROVE  /\ issued \in Nat /\ expired \in Nat /\ cut \in Nat /\ MaxTokens \in Nat
           /\ issued <= MaxTokens /\ expired <= issued /\ cut <= issued
           /\ req \in [Requests -> ReqType]
           /\ parent \in [Tokens -> 0..MaxTokens]
BY DEF TypeOK, ReqType

LEMMA IssueFacts ==
    ASSUME TypeOK, NEW of \in 0..MaxTokens, IssueToken(of)
    PROVE  /\ issued' = issued + 1 /\ issued + 1 \in Tokens
           /\ issued' \in 0..MaxTokens /\ expired' \in 0..issued' /\ cut' \in 0..issued'
           /\ parent' \in [Tokens -> 0..MaxTokens]
           /\ mark' \in [Tokens -> {"none", "1", "USED"}]
           /\ parent'[issued + 1] = of
           /\ \A c \in 1..issued : parent'[c] = parent[c] /\ mark'[c] = mark[c]
           /\ revoked' = revoked /\ cut' = cut /\ expired' = expired /\ loose' = loose
           /\ redis' = redis /\ outages' = outages
BY Numbers DEF IssueToken, TypeOK, Tokens, redisVars

LEMMA InitInv == Init => Inv
<1> SUFFICES ASSUME Init PROVE Inv
  OBVIOUS
<1>1. TypeOK
  <2>1. req \in [Requests -> {Idle} \cup RefreshRequest \cup RevokeRequest \cup LoginRequest]
    BY DEF Init
  <2>2. outages \in 0..MaxOutages /\ issued \in 0..MaxTokens /\ expired \in 0..issued /\ cut \in 0..issued
    BY DEF Init
  <2>3. parent \in [Tokens -> 0..MaxTokens]
    BY DEF Init, ByLogin
  <2>4. mark \in [Tokens -> {"none", "1", "USED"}] /\ loose \subseteq Tokens
    BY DEF Init
  <2> QED
    BY <2>1, <2>2, <2>3, <2>4 DEF Init, TypeOK
<1>2. \A q \in Requests : RequestInv(q)
  BY DEF Init, RequestInv, Idle, Refreshing
<1> QED
  BY <1>1, <1>2 DEF Init, Inv, Tokens

-----------------------------------------------------------------------------
(* Every step keeps the types. *)
LEMMA TypeStep ==
    ASSUME Inv, Next
    PROVE  TypeOK'
<1>0. TypeOK
  BY DEF Inv
<1>1. ASSUME NEW q \in Requests, NEW t \in Tokens, RefreshBegin(q, t)
      PROVE  TypeOK'
  <2>1. (IF revoked THEN cut ELSE 0) \in 0..MaxTokens
    BY <1>0, Numbers
  <2>2. [op |-> "check", token |-> t, blind |-> FALSE, after |-> IF revoked THEN cut ELSE 0] \in ReqType
    BY <2>1, Refreshed DEF Refreshing
  <2>3. req' \in [Requests -> ReqType]
    BY <1>0, <1>1, <2>2, Steps DEF RefreshBegin
  <2> QED
    BY <1>0, <1>1, <2>3 DEF RefreshBegin, TypeOK, ReqType, redisVars, keys, tokens
<1>2. ASSUME NEW q \in Requests, Check(q)
      PROVE  TypeOK'
  <2> DEFINE r == req[q]
  <2>1. r \in ReqType /\ r.op \in Refreshing
    BY <1>0, <1>2, Numbers DEF Check, Refreshing
  <2>2. r.token \in Tokens
    BY <2>1, RequestFields
  <2>3. "consume" \in Refreshing
    BY DEF Refreshing
  <2>4. [r EXCEPT !.op = "consume"] \in ReqType /\ Unseen(r) \in ReqType
    BY <2>1, <2>3, Moved
  <2>5. req' \in [Requests -> ReqType] /\ loose' \subseteq Tokens
    BY <1>0, <1>2, <2>2, <2>4, Steps, OtherRequests DEF Check, TypeOK
  <2> QED
    BY <1>0, <1>2, <2>5 DEF Check, TypeOK, ReqType, redisVars, keys
<1>3. ASSUME NEW q \in Requests, Consume(q)
      PROVE  TypeOK'
  <2> DEFINE r == req[q]
  <2>1. r \in ReqType /\ r.op \in Refreshing
    BY <1>0, <1>3, Numbers DEF Consume, Refreshing
  <2>2. r.token \in Tokens
    BY <2>1, RequestFields
  <2>3. "issue" \in Refreshing
    BY DEF Refreshing
  <2>4. [r EXCEPT !.op = "issue"] \in ReqType /\ Unseen(r) \in ReqType
    BY <2>1, <2>3, Moved
  <2>5. req' \in [Requests -> ReqType]
    BY <1>0, <1>3, <2>4, Steps, OtherRequests DEF Consume
  <2>6. loose' \subseteq Tokens /\ mark' \in [Tokens -> {"none", "1", "USED"}]
    BY <1>0, <1>3, <2>2 DEF Consume, UsedMark, TypeOK
  <2> QED
    BY <1>0, <1>3, <2>5, <2>6 DEF Consume, TypeOK, ReqType, redisVars
<1>4. ASSUME NEW q \in Requests, Issue(q) \/ LoginIssue(q)
      PROVE  TypeOK'
  <2>1. PICK of \in 0..MaxTokens : IssueToken(of) /\ Goes(q, Idle)
    <3>1. CASE Issue(q)
      <4>1. req[q].token \in 0..MaxTokens
        BY <1>0, <3>1, Numbers, RequestFields DEF Issue, Refreshing, Tokens
      <4> QED
        BY <3>1, <4>1 DEF Issue
    <3>2. CASE LoginIssue(q)
      <4>1. ByLogin \in 0..MaxTokens
        BY DEF ByLogin
      <4> QED
        BY <3>2, <4>1 DEF LoginIssue
    <3> QED
      BY <1>4, <3>1, <3>2
  <2>2. req' \in [Requests -> ReqType]
    BY <1>0, <2>1, Steps, OtherRequests
  <2> QED
    BY <1>0, <2>1, <2>2, IssueFacts DEF TypeOK, ReqType
<1>5. ASSUME NEW q \in Requests, Revoke(q)
      PROVE  TypeOK'
  <2>1. req' \in [Requests -> ReqType]
    BY <1>0, <1>5, Steps, OtherRequests DEF Revoke
  <2>2. revoked' \in BOOLEAN /\ cut' \in 0..issued
    <3>1. issued \in 0..issued /\ cut \in 0..issued /\ revoked \in BOOLEAN
      BY <1>0, Numbers DEF TypeOK
    <3> QED
      BY <1>5, <3>1 DEF Revoke
  <2> QED
    BY <1>0, <1>5, <2>1, <2>2 DEF Revoke, TypeOK, ReqType, redisVars, tokens
<1>6. ASSUME NEW q \in Requests, NEW gone \in SUBSET Tokens, Clear(q, gone)
      PROVE  TypeOK'
  <2>1. req' \in [Requests -> ReqType]
    BY <1>0, <1>6, Steps, OtherRequests DEF Clear
  <2>2. mark' \in [Tokens -> {"none", "1", "USED"}]
    BY <1>0, <1>6 DEF Clear, TypeOK
  <2> QED
    BY <1>0, <1>6, <2>1, <2>2 DEF Clear, TypeOK, ReqType, redisVars, tokens
<1>7. ASSUME NEW q \in Requests, LoginBegin(q)
      PROVE  TypeOK'
  <2>1. req' \in [Requests -> ReqType]
    BY <1>0, <1>7, Steps, OtherRequests DEF LoginBegin
  <2> QED
    BY <1>0, <1>7, <2>1 DEF LoginBegin, TypeOK, ReqType, redisVars, keys, tokens
<1>8. CASE TokenExpires
  BY <1>0, <1>8, Numbers DEF TokenExpires, TypeOK, redisVars, keys
<1>9. CASE RevocationExpires
  BY <1>0, <1>9 DEF RevocationExpires, TypeOK, redisVars, tokens
<1>10. CASE RedisStops
  <2>1. outages' \in 0..MaxOutages
    BY <1>0, <1>10 DEF RedisStops, TypeOK
  <2> QED
    BY <1>0, <1>10, <2>1 DEF RedisStops, TypeOK, keys, tokens
<1>11. ASSUME NEW kept \in BOOLEAN, RedisReturns(kept)
       PROVE  TypeOK'
  <2>1. CASE kept
    BY <1>0, <1>11, <2>1 DEF RedisReturns, TypeOK, keys
  <2>2. CASE ~kept
    <3>1. ASSUME NEW q \in Requests
          PROVE  req'[q] \in ReqType
      <4>1. req[q] \in ReqType
        BY <1>0, Numbers
      <4>2. CASE req[q].op = "clear"
        BY <1>11, <2>2, <4>2, OtherRequests DEF RedisReturns
      <4>3. CASE req[q].op \in Refreshing
        <5> DEFINE r == req[q]
        <5>1. /\ r.token \in Tokens /\ r.blind \in BOOLEAN
              /\ r = [op |-> r.op, token |-> r.token, blind |-> r.blind, after |-> r.after]
          BY <4>1, <4>3, RequestFields
        <5>2. [r EXCEPT !.after = 0] = [op |-> r.op, token |-> r.token, blind |-> r.blind, after |-> 0]
          BY <5>1
        <5>3. [r EXCEPT !.after = 0] \in ReqType
          BY <4>3, <5>1, <5>2, Refreshed
        <5>4. req'[q] = [r EXCEPT !.after = 0]
          BY <1>11, <2>2, <4>3 DEF RedisReturns, Refreshing
        <5> QED
          BY <5>3, <5>4
      <4>4. CASE req[q].op # "clear" /\ req[q].op \notin Refreshing
        BY <1>11, <2>2, <4>1, <4>4 DEF RedisReturns
      <4> QED
        BY <4>2, <4>3, <4>4
    <3>2. DOMAIN req' = Requests /\ req' = [q \in Requests |-> req'[q]]
      BY <1>11, <2>2 DEF RedisReturns
    <3>3. req' \in [Requests -> ReqType]
      BY <3>1, <3>2
    <3>4. loose' \subseteq Tokens
      BY <1>0, <1>11, <2>2, Numbers DEF RedisReturns, TypeOK, Tokens
    <3>5. mark' \in [Tokens -> {"none", "1", "USED"}]
      BY <1>11, <2>2 DEF RedisReturns
    <3>6. /\ redis' = TRUE /\ revoked' = FALSE /\ cut' = 0 /\ outages' = outages /\ issued' = issued
          /\ expired' = expired /\ parent' = parent
      BY <1>11, <2>2 DEF RedisReturns
    <3>7. 0 \in 0..issued
      BY <1>0, Numbers
    <3> QED
      BY <1>0, <3>3, <3>4, <3>5, <3>6, <3>7 DEF TypeOK, ReqType
  <2> QED
    BY <2>1, <2>2
<1> QED
  BY <1>1, <1>2, <1>3, <1>4, <1>5, <1>6, <1>7, <1>8, <1>9, <1>10, <1>11
  DEF Next, Refresh, Login, Environment

-----------------------------------------------------------------------------
(* What a step leaves as it was keeps its part of the invariant. *)
LEMMA RequestKept ==
    ASSUME Inv, NEW q \in Requests, req'[q] = req[q], issued' \in Nat, expired' \in Nat,
           issued <= issued', expired <= expired', loose \subseteq loose',
           revoked' = revoked, cut' = cut
    PROVE  RequestInv(q)'
<1>1. TypeOK /\ RequestInv(q) /\ req[q] \in ReqType
  BY Numbers DEF Inv
<1>2. req[q].op \in Refreshing => req[q].token \in Nat /\ req[q].after \in Nat
  BY <1>1, RequestFields DEF Tokens
<1> QED
  BY <1>1, <1>2, Numbers DEF RequestInv, Refreshing

LEMMA TokenKept ==
    ASSUME NEW t \in Tokens, TokenInv(t), issued' = issued, parent' = parent,
           mark'[t] = mark[t], revoked' = revoked, cut' = cut,
           \A q \in Requests : Waits(q, t)' => Waits(q, t)
    PROVE  TokenInv(t)'
BY DEF TokenInv, Once, Untouched

(* No token is exchanged before it is issued. *)
LEMMA NewToken ==
    ASSUME Inv, NEW of \in 0..MaxTokens, of <= issued, IssueToken(of),
           NEW q \in Requests, Goes(q, Idle), NEW n, n = issued + 1
    PROVE  TokenInv(n)'
<1>1. TypeOK /\ issued + 1 \in Tokens /\ issued \in Nat
  BY Numbers, IssueFacts DEF Inv
<1>2. ASSUME NEW c \in 1..issued'
      PROVE  parent'[c] # n
  <2>1. CASE c = issued + 1
    BY <1>1, <2>1, IssueFacts
  <2>2. CASE c \in 1..issued
    <3>1. parent[c] <= issued /\ parent'[c] = parent[c] /\ c \in Tokens
      BY <1>1, <2>2, IssueFacts, Numbers DEF Inv, Tokens
    <3>2. parent[c] \in Nat
      BY <1>1, <3>1, Numbers
    <3> QED
      BY <1>1, <3>1, <3>2
  <2> QED
    BY <1>1, <2>1, <2>2, IssueFacts
<1>3. ASSUME NEW p \in Requests
      PROVE  ~Waits(p, n)'
  <2>1. CASE p = q
    BY <1>1, <2>1, Steps DEF Waits, Idle
  <2>2. CASE p # q
    <3>1. req'[p] = req[p] /\ req[p] \in ReqType
      BY <1>1, <2>2, Steps, Numbers
    <3>2. req[p].op = "issue" => req[p].token \in Nat /\ req[p].token <= issued
      BY <3>1, RequestFields DEF Inv, RequestInv, Refreshing, Tokens
    <3>3. issued' = issued + 1
      BY <1>1, IssueFacts
    <3> QED
      BY <1>1, <3>1, <3>2, <3>3 DEF Waits
  <2> QED
    BY <2>1, <2>2
<1>4. Untouched(n)'
  BY <1>2, <1>3 DEF Untouched
<1> QED
  BY <1>2, <1>3, <1>4 DEF TokenInv, Once

(* A token that is not the one exchanged has the children it had. *)
LEMMA OtherToken ==
    ASSUME Inv, NEW of \in 0..MaxTokens, IssueToken(of),
           NEW q \in Requests, Goes(q, Idle),
           NEW t \in 1..issued, t # of, TokenInv(t)
    PROVE  TokenInv(t)'
<1>1. TypeOK /\ issued \in Nat
  BY Numbers DEF Inv
<1>2. \A c \in 1..issued' : parent'[c] = t => c \in 1..issued /\ parent[c] = t
  BY <1>1, IssueFacts
<1>3. \A p \in Requests : Waits(p, t)' => Waits(p, t)
  <2> SUFFICES ASSUME NEW p \in Requests, Waits(p, t)'
               PROVE  Waits(p, t)
    OBVIOUS
  <2>1. p # q
    BY <1>1, Steps DEF Waits, Idle
  <2> QED
    BY <1>1, <2>1, Steps DEF Waits
<1>4. mark'[t] = mark[t] /\ revoked' = revoked /\ cut' = cut
  BY <1>1, IssueFacts
<1> QED
  BY <1>2, <1>3, <1>4 DEF TokenInv, Once, Untouched

(* The token that is exchanged had no child before and waits no longer. *)
LEMMA ExchangedToken ==
    ASSUME Inv, NEW q \in Requests, Issue(q), NEW t \in 1..issued, req[q].token = t, TokenInv(t)
    PROVE  TokenInv(t)'
<1>1. TypeOK /\ issued \in Nat /\ t \in 0..MaxTokens /\ IssueToken(t) /\ Goes(q, Idle) /\ Waits(q, t)
  BY Numbers DEF Inv, Issue, Waits
<1>2. CASE revoked
  <2>1. ~(t > cut)
    BY <1>1, <1>2 DEF TokenInv, Untouched
  <2>2. revoked' /\ cut' = cut
    BY <1>1, <1>2, IssueFacts
  <2> QED
    BY <2>1, <2>2 DEF TokenInv
<1>3. CASE ~revoked
  <2>1. Once(t) /\ ~revoked'
    BY <1>1, <1>3, IssueFacts DEF TokenInv
  <2>2. \A c \in 1..issued' : parent'[c] = t => c = issued + 1
    BY <1>1, <2>1, IssueFacts DEF Once
  <2>3. \A p \in Requests : ~Waits(p, t)'
    <3> SUFFICES ASSUME NEW p \in Requests, Waits(p, t)'
                 PROVE  FALSE
      OBVIOUS
    <3>1. p # q
      BY <1>1, Steps DEF Idle, Waits
    <3> QED
      BY <1>1, <2>1, <3>1, Steps DEF Once, Waits
  <2>4. mark'[t] = "USED"
    BY <1>1, <2>1, IssueFacts DEF Once
  <2>5. Once(t)'
    BY <2>2, <2>3, <2>4 DEF Once
  <2> QED
    BY <2>1, <2>5 DEF TokenInv
<1> QED
  BY <1>2, <1>3

-----------------------------------------------------------------------------
(* Every step keeps the invariant: one lemma per action that moves it. *)
LEMMA RefreshBeginStep ==
    ASSUME Inv, TypeOK', NEW q \in Requests, NEW s \in Tokens, RefreshBegin(q, s)
    PROVE  Inv'
<1>1. TypeOK
  BY DEF Inv
<1>2. /\ issued' = issued /\ expired' = expired /\ loose' = loose /\ revoked' = revoked
      /\ cut' = cut /\ parent' = parent /\ mark' = mark
  BY DEF RefreshBegin, keys, tokens
<1>3. ASSUME NEW p \in Requests
      PROVE  RequestInv(p)'
  <2>1. CASE p = q
    <3>1. req'[p] = [op |-> "check", token |-> s, blind |-> FALSE,
                     after |-> IF revoked THEN cut ELSE 0]
      BY <1>1, <2>1, Steps DEF RefreshBegin
    <3>2. s <= issued /\ expired < s /\ s \in Nat
      BY <1>1, Numbers DEF RefreshBegin
    <3> QED
      BY <1>1, <1>2, <3>1, <3>2, Numbers DEF RequestInv
  <2>2. CASE p # q
    BY <1>1, <1>2, <2>2, Steps, RequestKept, Numbers DEF RefreshBegin
  <2> QED
    BY <2>1, <2>2
<1>4. ASSUME NEW t \in Tokens, TokenInv(t)
      PROVE  TokenInv(t)'
  <2>1. \A p \in Requests : Waits(p, t)' => Waits(p, t)
    BY <1>1, Steps DEF Waits, RefreshBegin
  <2> QED
    BY <1>2, <1>4, <2>1, TokenKept
<1> QED
  BY <1>2, <1>3, <1>4 DEF Inv

LEMMA CheckStep ==
    ASSUME Inv, TypeOK', NEW q \in Requests, Check(q)
    PROVE  Inv'
<1> DEFINE r == req[q]
<1>1. TypeOK /\ r \in ReqType /\ r.op \in Refreshing /\ r.op = "check" /\ RequestInv(q)
  BY Numbers DEF Inv, Check, Refreshing
<1>2. /\ issued' = issued /\ expired' = expired /\ loose \subseteq loose' /\ revoked' = revoked
      /\ cut' = cut /\ parent' = parent /\ mark' = mark
  BY DEF Check, keys
<1>3. r.token \in Tokens /\ r.token \in Nat /\ r.after \in Nat /\ "consume" \in Refreshing
  BY <1>1, RequestFields DEF Refreshing, Tokens
<1>4. CASE redis /\ revoked
  <2>1. req'[q] = Idle
    BY <1>1, <1>4, Steps DEF Check, Refused
  <2>2. RequestInv(q)'
    BY <2>1 DEF RequestInv, Idle, Refreshing
  <2>3. \A p \in Requests, t \in Tokens : Waits(p, t)' => Waits(p, t)
    BY <1>1, <2>1, Steps DEF Check, Waits, Idle
  <2> QED
    BY <1>1, <1>2, <2>2, <2>3, Steps, RequestKept, TokenKept, Numbers DEF Check, Inv
<1>5. CASE redis /\ ~revoked
  <2>1. req'[q] = [op |-> "consume", token |-> r.token, blind |-> r.blind, after |-> r.after]
    BY <1>1, <1>3, <1>5, Steps, Moved DEF Check, Refused
  <2>2. RequestInv(q)'
    BY <1>1, <1>2, <1>3, <1>5, <2>1, Numbers DEF RequestInv, Refreshing
  <2>3. \A p \in Requests, t \in Tokens : Waits(p, t)' => Waits(p, t)
    BY <1>1, <2>1, Steps DEF Check, Waits
  <2> QED
    BY <1>1, <1>2, <2>2, <2>3, Steps, RequestKept, TokenKept, Numbers DEF Check, Inv
<1>6. CASE ~redis
  <2>1. req'[q] = Unseen(r) /\ loose' = loose \cup {r.token}
    BY <1>1, <1>6, Steps DEF Check
  <2>2. RequestInv(q)'
    BY <1>1, <1>2, <1>3, <2>1, Numbers DEF RequestInv, Refreshing, Unseen
  <2>3. \A p \in Requests, t \in Tokens \ loose' : Waits(p, t)' => Waits(p, t)
    BY <1>1, <2>1, Steps DEF Check, Waits, Unseen
  <2> QED
    BY <1>1, <1>2, <2>1, <2>2, <2>3, Steps, RequestKept, TokenKept, Numbers DEF Check, Inv
<1> QED
  BY <1>1, <1>4, <1>5, <1>6 DEF TypeOK

LEMMA ConsumeStep ==
    ASSUME Inv, TypeOK', NEW q \in Requests, Consume(q)
    PROVE  Inv'
<1> DEFINE r == req[q]
<1>1. TypeOK /\ r \in ReqType /\ r.op \in Refreshing /\ r.op = "consume" /\ RequestInv(q)
  BY Numbers DEF Inv, Consume, Refreshing
<1>2. /\ issued' = issued /\ expired' = expired /\ loose \subseteq loose' /\ revoked' = revoked
      /\ cut' = cut /\ parent' = parent
      /\ \A t \in Tokens : mark[t] = "USED" \/ t # r.token => mark'[t] = mark[t]
  BY <1>1 DEF Consume, UsedMark, TypeOK
<1>3. r.token \in Tokens /\ r.token \in Nat /\ r.after \in Nat /\ "issue" \in Refreshing
  BY <1>1, RequestFields DEF Refreshing, Tokens
<1>4. CASE redis /\ mark[r.token] = "USED"
  <2>1. req'[q] = [op |-> "revoke"]
    BY <1>1, <1>4, Steps DEF Consume
  <2>2. RequestInv(q)'
    BY <2>1 DEF RequestInv, Refreshing
  <2>3. \A p \in Requests, t \in Tokens : Waits(p, t)' => Waits(p, t)
    BY <1>1, <2>1, Steps DEF Consume, Waits
  <2>4. \A t \in Tokens : mark'[t] = mark[t]
    BY <1>2, <1>4
  <2> QED
    BY <1>1, <1>2, <2>2, <2>3, <2>4, Steps, RequestKept, TokenKept, Numbers DEF Consume, Inv
<1>5. CASE redis /\ mark[r.token] # "USED"
  <2>1. req'[q] = [op |-> "issue", token |-> r.token, blind |-> r.blind, after |-> r.after]
    BY <1>1, <1>3, <1>5, Steps, Moved DEF Consume
  <2>2. RequestInv(q)'
    BY <1>1, <1>2, <1>3, <2>1, Numbers DEF RequestInv, Refreshing
  <2>3. \A p \in Requests, t \in Tokens : Waits(p, t)' => Waits(p, t) \/ (p = q /\ t = r.token)
    BY <1>1, <2>1, Steps DEF Consume, Waits
  <2>4. mark'[r.token] = "USED"
    BY <1>1, <1>3, <1>5 DEF Consume, UsedMark, TypeOK
  <2>5. loose' = loose
    BY <1>5 DEF Consume
  <2>6. ASSUME NEW t \in Tokens, t \notin loose, TokenInv(t)
        PROVE  TokenInv(t)'
    <3>1. CASE t # r.token
      <4>1. \A p \in Requests : Waits(p, t)' => Waits(p, t)
        BY <2>3, <3>1
      <4>2. mark'[t] = mark[t]
        BY <1>2, <3>1
      <4> QED
        BY <1>2, <2>6, <4>1, <4>2, TokenKept
    <3>2. CASE t = r.token /\ revoked
      <4>1. r.token <= cut
        BY <1>1, <2>6, <3>2 DEF RequestInv
      <4> QED
        BY <1>1, <1>2, <1>3, <3>2, <4>1, Numbers DEF TokenInv
    <3>3. CASE t = r.token /\ ~revoked
      <4>1. Once(t)
        BY <2>6, <3>3 DEF TokenInv
      <4>2. /\ \A c \in 1..issued : parent[c] # t
            /\ \A p \in Requests : ~Waits(p, t)
        BY <1>5, <3>3, <4>1 DEF Once
      <4>3. Once(t)'
        BY <1>2, <2>3, <2>4, <3>3, <4>2 DEF Once
      <4> QED
        BY <1>2, <3>3, <4>3 DEF TokenInv
    <3> QED
      BY <3>1, <3>2, <3>3
  <2> QED
    BY <1>1, <1>2, <2>2, <2>5, <2>6, Steps, RequestKept, Numbers DEF Consume, Inv
<1>6. CASE ~redis
  <2>1. req'[q] = Unseen(r) /\ loose' = loose \cup {r.token} /\ mark' = mark
    BY <1>1, <1>6, Steps DEF Consume
  <2>2. RequestInv(q)'
    BY <1>1, <1>2, <1>3, <2>1, Numbers DEF RequestInv, Refreshing, Unseen
  <2>3. \A p \in Requests, t \in Tokens \ loose' : Waits(p, t)' => Waits(p, t)
    BY <1>1, <2>1, Steps DEF Consume, Waits, Unseen
  <2> QED
    BY <1>1, <1>2, <2>1, <2>2, <2>3, Steps, RequestKept, TokenKept, Numbers DEF Consume, Inv
<1> QED
  BY <1>1, <1>4, <1>5, <1>6 DEF TypeOK

LEMMA IssueStep ==
    ASSUME Inv, TypeOK', NEW q \in Requests, Issue(q) \/ LoginIssue(q)
    PROVE  Inv'
<1>1. TypeOK /\ req[q] \in ReqType /\ RequestInv(q) /\ issued \in Nat
  BY Numbers DEF Inv
<1>2. PICK of \in 0..MaxTokens : /\ IssueToken(of) /\ Goes(q, Idle) /\ of <= issued
                                 /\ \/ Issue(q) /\ req[q].token = of
                                    \/ LoginIssue(q) /\ of = 0
  <2>1. CASE Issue(q)
    <3>1. req[q].op = "issue" /\ req[q].token \in Tokens /\ req[q].token <= issued
      BY <1>1, <2>1, RequestFields DEF Issue, Refreshing, RequestInv
    <3>2. req[q].token \in 0..MaxTokens
      BY <3>1 DEF Tokens
    <3>3. IssueToken(req[q].token) /\ Goes(q, Idle)
      BY <2>1 DEF Issue
    <3> WITNESS req[q].token \in 0..MaxTokens
    <3> QED
      BY <2>1, <3>1, <3>3
  <2>2. CASE LoginIssue(q)
    BY <1>1, <2>2, Numbers DEF LoginIssue, ByLogin
  <2> QED
    BY <2>1, <2>2
<1>3. /\ issued' = issued + 1 /\ expired' = expired /\ loose' = loose
      /\ revoked' = revoked /\ cut' = cut
  BY <1>1, <1>2, IssueFacts
<1>4. ASSUME NEW c \in 1..issued'
      PROVE  parent'[c] <= issued'
  <2>1. CASE c = issued + 1
    BY <1>1, <1>2, <2>1, IssueFacts
  <2>2. CASE c \in 1..issued
    <3>1. parent[c] <= issued
      BY <2>2 DEF Inv
    <3>2. parent'[c] = parent[c]
      BY <1>1, <1>2, <2>2, IssueFacts
    <3>3. c \in Tokens
      <4>1. issued \in 0..MaxTokens
        BY <1>1 DEF TypeOK
      <4> QED
        BY <2>2, <4>1, Numbers DEF Tokens
    <3>4. parent[c] \in Nat
      BY <1>1, <3>3, Numbers
    <3> QED
      BY <1>1, <1>3, <3>1, <3>2, <3>4
  <2> QED
    BY <1>1, <1>3, <2>1, <2>2
<1>5. ASSUME NEW p \in Requests
      PROVE  RequestInv(p)'
  <2>1. CASE p = q
    BY <1>1, <1>2, <2>1, Steps DEF RequestInv, Idle, Refreshing
  <2>2. CASE p # q
    BY <1>1, <1>2, <1>3, <2>2, Steps, RequestKept, Numbers
  <2> QED
    BY <2>1, <2>2
<1>6. ASSUME NEW t \in Tokens \ loose, expired < t, t <= issued'
      PROVE  TokenInv(t)'
  <2>1. CASE t = issued + 1
    BY <1>2, <2>1, NewToken
  <2>2. CASE t # issued + 1
    <3>1. t \in 1..issued /\ TokenInv(t)
      BY <1>1, <1>3, <1>6, <2>2 DEF Inv, Tokens
    <3>2. CASE t = of
      <4>1. Issue(q) /\ req[q].token = t
        BY <1>2, <3>1, <3>2
      <4> QED
        BY <3>1, <4>1, ExchangedToken
    <3>3. CASE t # of
      BY <1>2, <3>1, <3>3, OtherToken
    <3> QED
      BY <3>2, <3>3
  <2> QED
    BY <2>1, <2>2
<1> QED
  BY <1>3, <1>4, <1>5, <1>6 DEF Inv

LEMMA RevokeStep ==
    ASSUME Inv, TypeOK', NEW q \in Requests, Revoke(q)
    PROVE  Inv'
<1>1. TypeOK /\ issued \in Nat /\ cut \in Nat /\ cut <= issued
  BY Numbers DEF Inv
<1>2. /\ issued' = issued /\ expired' = expired /\ loose' = loose /\ parent' = parent /\ mark' = mark
  BY DEF Revoke, tokens
<1>3. CASE redis
  <2>1. revoked' = TRUE /\ cut' = issued /\ \A p \in Requests \ {q} : req'[p] = req[p]
    BY <1>1, <1>3, Steps DEF Revoke
  <2>2. req'[q] = [op |-> "clear", found |-> {t \in Tokens : mark[t] # "none"}]
    BY <1>1, <1>3, Steps DEF Revoke
  <2>3. RequestInv(q)'
    BY <2>1, <2>2 DEF RequestInv, Refreshing
  <2>4. ASSUME NEW p \in Requests, p # q
        PROVE  RequestInv(p)'
    <3>1. RequestInv(p) /\ req[p] \in ReqType /\ req'[p] = req[p]
      BY <1>1, <2>1, <2>4, Numbers DEF Inv
    <3>2. req[p].op \in Refreshing => req[p].token \in Nat /\ req[p].after \in Nat
      BY <3>1, RequestFields DEF Tokens
    <3> QED
      BY <1>1, <1>2, <2>1, <3>1, <3>2, Numbers DEF RequestInv, Refreshing
  <2>5. \A t \in Tokens : t <= issued => TokenInv(t)'
    BY <1>1, <2>1 DEF TokenInv, Tokens
  <2> QED
    BY <1>2, <2>3, <2>4, <2>5 DEF Inv
<1>4. CASE ~redis
  <2>1. revoked' = revoked /\ cut' = cut /\ req'[q] = Idle
    BY <1>1, <1>4, Steps DEF Revoke
  <2>2. RequestInv(q)'
    BY <2>1 DEF RequestInv, Idle, Refreshing
  <2>3. \A p \in Requests, t \in Tokens : Waits(p, t)' => Waits(p, t)
    BY <1>1, <2>1, Steps DEF Revoke, Waits, Idle
  <2> QED
    BY <1>1, <1>2, <2>1, <2>2, <2>3, Steps, RequestKept, TokenKept, Numbers DEF Revoke, Inv
<1> QED
  BY <1>1, <1>3, <1>4 DEF TypeOK

(* Keys are cleared while the user stands revoked. *)
LEMMA ClearStep ==
    ASSUME Inv, TypeOK', NEW q \in Requests, NEW gone \in SUBSET Tokens, Clear(q, gone)
    PROVE  Inv'
<1>1. TypeOK /\ revoked
  BY DEF Inv, RequestInv, Clear
<1>2. /\ issued' = issued /\ expired' = expired /\ loose' = loose /\ parent' = parent
      /\ revoked' = revoked /\ cut' = cut
  BY DEF Clear, tokens
<1>3. req'[q] = Idle
  BY <1>1, Steps DEF Clear
<1>4. RequestInv(q)'
  BY <1>3 DEF RequestInv, Idle, Refreshing
<1>5. ASSUME NEW t \in Tokens, TokenInv(t)
      PROVE  TokenInv(t)'
  <2>1. \A p \in Requests : Waits(p, t)' => Waits(p, t)
    BY <1>1, <1>3, Steps DEF Clear, Waits, Idle
  <2> QED
    BY <1>1, <1>2, <1>5, <2>1 DEF TokenInv, Untouched
<1> QED
  BY <1>1, <1>2, <1>4, <1>5, Steps, RequestKept, Numbers DEF Clear, Inv

LEMMA LoginBeginStep ==
    ASSUME Inv, TypeOK', NEW q \in Requests, LoginBegin(q)
    PROVE  Inv'
<1>1. TypeOK /\ req'[q] = [op |-> "login"]
  BY Steps DEF Inv, LoginBegin
<1>2. /\ issued' = issued /\ expired' = expired /\ loose' = loose /\ parent' = parent
      /\ revoked' = revoked /\ cut' = cut /\ mark' = mark
  BY DEF LoginBegin, keys, tokens
<1>3. RequestInv(q)'
  BY <1>1 DEF RequestInv, Refreshing
<1>4. \A p \in Requests, t \in Tokens : Waits(p, t)' => Waits(p, t)
  BY <1>1, Steps DEF LoginBegin, Waits
<1> QED
  BY <1>1, <1>2, <1>3, <1>4, Steps, RequestKept, TokenKept, Numbers DEF LoginBegin, Inv

LEMMA EnvironmentStep ==
    ASSUME Inv, TypeOK', Environment
    PROVE  Inv'
<1>1. TypeOK /\ issued \in Nat /\ expired \in Nat /\ cut \in Nat
  BY Numbers DEF Inv
<1>2. CASE TokenExpires
  <2>1. /\ issued' = issued /\ expired' = expired + 1 /\ loose' = loose /\ parent' = parent
        /\ revoked' = revoked /\ cut' = cut /\ mark' = mark /\ req' = req
    BY <1>2 DEF TokenExpires, keys
  <2>2. \A t \in Tokens : expired + 1 < t => expired < t
    BY <1>1 DEF Tokens
  <2> QED
    BY <1>1, <2>1, <2>2, RequestKept, TokenKept DEF Inv, Waits
<1>3. CASE RevocationExpires
  <2>1. /\ issued' = issued /\ expired' = expired /\ loose' = loose /\ parent' = parent
        /\ revoked' = FALSE /\ cut' = cut /\ mark' = mark /\ req' = req
        /\ revoked /\ cut <= expired
    BY <1>1, <1>3 DEF RevocationExpires, tokens
  <2>2. ASSUME NEW p \in Requests
        PROVE  RequestInv(p)'
    <3>1. RequestInv(p) /\ req[p] \in ReqType /\ req[p].op # "clear"
      BY <1>1, <1>3, Numbers DEF Inv, RevocationExpires
    <3>2. req[p].op \in Refreshing => req[p].token \in Nat /\ req[p].after \in Nat
      BY <3>1, RequestFields DEF Tokens
    <3> QED
      BY <1>1, <2>1, <3>1, <3>2 DEF RequestInv, Refreshing
  <2>3. ASSUME NEW t \in Tokens, TokenInv(t), expired < t
        PROVE  TokenInv(t)'
    <3>1. Untouched(t)
      BY <1>1, <2>1, <2>3 DEF TokenInv, Tokens
    <3> QED
      BY <2>1, <3>1 DEF TokenInv, Untouched, Once, Waits
  <2> QED
    BY <2>1, <2>2, <2>3 DEF Inv
<1>4. CASE RedisStops
  <2>1. UNCHANGED <<issued, expired, loose, parent, revoked, cut, mark, req>>
    BY <1>4 DEF RedisStops, keys, tokens
  <2> QED
    BY <1>1, <2>1, RequestKept, TokenKept DEF Inv, Waits
<1>5. ASSUME NEW kept \in BOOLEAN, RedisReturns(kept)
      PROVE  Inv'
  <2>1. CASE kept
    <3>1. UNCHANGED <<issued, expired, loose, parent, revoked, cut, mark, req>>
      BY <1>5, <2>1 DEF RedisReturns, keys
    <3> QED
      BY <1>1, <3>1, RequestKept, TokenKept DEF Inv, Waits
  <2>2. CASE ~kept
    <3>1. /\ issued' = issued /\ expired' = expired /\ parent' = parent /\ revoked' = FALSE
          /\ 1..issued \subseteq loose' /\ loose \subseteq loose'
      BY <1>5, <2>2 DEF RedisReturns
    <3>2. ASSUME NEW p \in Requests
          PROVE  RequestInv(p)'
      <4> DEFINE r == req[p]
      <4>1. r \in ReqType /\ RequestInv(p)
        BY <1>1, Numbers DEF Inv
      <4>2. CASE r.op = "clear"
        <5>1. req'[p] = Idle
          BY <1>5, <2>2, <4>2 DEF RedisReturns
        <5> QED
          BY <5>1 DEF RequestInv, Idle, Refreshing
      <4>3. CASE r.op \in Refreshing
        <5>1. /\ r.token \in Nat /\ r.token > 0
              /\ r = [op |-> r.op, token |-> r.token, blind |-> r.blind, after |-> r.after]
          BY <4>1, <4>3, RequestFields DEF Tokens
        <5>2. [r EXCEPT !.after = 0] = [op |-> r.op, token |-> r.token, blind |-> r.blind, after |-> 0]
          BY <5>1
        <5>3. req'[p] = [r EXCEPT !.after = 0]
          BY <1>5, <2>2, <4>3 DEF RedisReturns, Refreshing
        <5>4. /\ req'[p].op = r.op /\ req'[p].token = r.token /\ req'[p].after = 0
          BY <5>2, <5>3
        <5> HIDE DEF r
        <5>5. r.op \in Refreshing => r.token <= issued
          BY <4>1 DEF RequestInv, r
        <5> QED
          BY <3>1, <4>3, <5>1, <5>4, <5>5 DEF RequestInv, Refreshing
      <4>4. CASE r.op # "clear" /\ r.op \notin Refreshing
        <5>1. req'[p] = r
          BY <1>5, <2>2, <4>4 DEF RedisReturns
        <5> QED
          BY <4>4, <5>1 DEF RequestInv, Refreshing
      <4> QED
        BY <4>2, <4>3, <4>4
    <3>3. \A t \in Tokens \ loose' : ~(t <= issued')
      BY <1>1, <3>1 DEF Tokens
    <3> QED
      BY <3>1, <3>2, <3>3 DEF Inv
  <2> QED
    BY <2>1, <2>2
<1> QED
  BY <1>2, <1>3, <1>4, <1>5 DEF Environment

LEMMA Step == Inv /\ [Next]_vars => Inv'
<1> SUFFICES ASSUME Inv, [Next]_vars PROVE Inv'
  OBVIOUS
<1>1. CASE Next
  <2>1. TypeOK'
    BY <1>1, TypeStep
  <2> QED
    BY <1>1, <2>1, RefreshBeginStep, CheckStep, ConsumeStep, IssueStep, RevokeStep, ClearStep,
       LoginBeginStep, EnvironmentStep
    DEF Next, Refresh, Login
<1>2. CASE UNCHANGED vars
  <2>1. UNCHANGED <<redis, outages, issued, expired, loose, parent, revoked, cut, mark, req>>
    BY <1>2 DEF vars, redisVars, keys, tokens
  <2> QED
    BY <2>1 DEF Inv, TypeOK, RequestInv, TokenInv, Once, Untouched, Waits
<1> QED
  BY <1>1, <1>2

LEMMA Invariance == Spec => []Inv
BY InitInv, Step, PTL DEF Spec

-----------------------------------------------------------------------------
(* The results *)

(* The state of the sessions keeps its shape, however many requests run.    *)
THEOREM TypeCorrect == Spec => []TypeOK
<1>1. Inv => TypeOK
  BY DEF Inv
<1> QED
  BY <1>1, Invariance, PTL

(* A valid token that was exchanged twice belongs to a revoked user, unless *)
(* Redis failed one of the requests or lost the mark: _consume_refresh_token*)
(* marks and reads in one command.                                          *)
THEOREM TwiceMeansRevokedHolds == Spec => []TwiceMeansRevoked
<1>1. Inv => TwiceMeansRevoked
  <2> SUFFICES ASSUME Inv, NEW t \in (expired + 1)..issued, t \notin loose,
                      Cardinality(Children(t)) >= 2, ~revoked
               PROVE  FALSE
    BY DEF TwiceMeansRevoked
  <2>1. t \in Tokens \ loose /\ expired < t /\ t <= issued
    BY Numbers DEF Inv, Tokens
  <2>2. \A c, d \in Children(t) : c = d
    BY <2>1 DEF Inv, TokenInv, Once, Children
  <2>3. CASE Children(t) = {}
    BY <2>3, FS_EmptySet
  <2>4. ASSUME NEW c \in Children(t)
        PROVE  FALSE
    <3>1. Children(t) = {c}
      BY <2>2
    <3>2. Cardinality({c}) = 1
      BY FS_Singleton
    <3>3. Cardinality(Children(t)) = 1
      BY <3>1, <3>2
    <3> QED
      BY <3>3
  <2> QED
    BY <2>3, <2>4
<1> QED
  BY <1>1, Invariance, PTL

(* A request that began after a revocation exchanges no token from before   *)
(* it unless Redis did not answer it: the mark of the user outlives those   *)
(* of its tokens.                                                           *)
THEOREM RevocationHoldsAlways == Spec => []RevocationHolds
<1>1. Inv => RevocationHolds
  <2> SUFFICES ASSUME Inv, NEW q \in Requests, req[q].op = "issue", ~req[q].blind,
                      req[q].token \in (expired + 1)..req[q].after
               PROVE  FALSE
    BY DEF RevocationHolds
  <2>1. req[q] \in ReqType /\ RequestInv(q) /\ expired \in Nat
    BY Numbers DEF Inv
  <2>2. req[q].token \in Nat /\ req[q].after \in Nat
    BY <2>1, RequestFields DEF Refreshing, Tokens
  <2> QED
    BY <2>1, <2>2 DEF RequestInv
<1> QED
  BY <1>1, Invariance, PTL

(* Both halves of the rotation, as the run checks them.                     *)
THEOREM ReuseIsStoppedHolds == Spec => []ReuseIsStopped
<1>1. TwiceMeansRevoked /\ RevocationHolds => ReuseIsStopped
  BY DEF ReuseIsStopped
<1> QED
  BY <1>1, TwiceMeansRevokedHolds, RevocationHoldsAlways, PTL

-----------------------------------------------------------------------------
(* Part II: the pages of a supplier and the notices of the managers *)

KnownRow == [blacklisted : BOOLEAN, status : {"ACTIVE", "INACTIVE"}]

StatusChange ==
    [op : {"status"}, company : Companies, was : KnownRow, want : KnownRow,
     account : Companies, active : BOOLEAN, bids : SUBSET Lots,
     cascaded : BOOLEAN, hit : SUBSET Lots, due : SUBSET Lots,
     wrote : BOOLEAN, overtaken : BOOLEAN]

Changed == {r \in Changes : change[r] # NoChange}

(* An upload in flight is the only one, so its company has no bid yet.      *)
UploadOk ==
    upload # NoUpload =>
        /\ upload.company \in Known /\ upload.lot \in Lots
        /\ bid[upload.company][upload.lot] = "none"

PortalType ==
    /\ name \in [Companies -> Names]
    /\ company \in [Companies -> {Unknown} \cup KnownRow]
    /\ enabled \in [Companies -> BOOLEAN]
    /\ bid \in [Companies -> [Lots -> {"none", "SUBMITTED", "DISQUALIFIED"}]]
    /\ inbox \in [Companies -> [Lots -> {"none", "unread", "read"}]]
    /\ told \in [Companies -> SUBSET Lots]
    /\ change \in [Changes -> {NoChange} \cup StatusChange]
    /\ UploadOk
    /\ \A r \in Changed : change[r].company \in Known /\ change[r].account \in Namesakes(change[r].company)

LEMMA RowFacts ==
    /\ Unknown \notin KnownRow
    /\ NoChange \notin StatusChange /\ NoChange.op = "idle"
    /\ \A q \in StatusChange : q.op = "status"
    /\ \A q \in {NoChange} \cup StatusChange : q # NoChange <=> q \in StatusChange
BY DEF Unknown, KnownRow, NoChange, StatusChange

LEMMA KnownFacts ==
    ASSUME PortalType, NEW c \in Companies
    PROVE  /\ c \in Known <=> company[c] \in KnownRow
           /\ c \notin Known => company[c] = Unknown /\ ~company[c].blacklisted
<1>1. company[c] \in {Unknown} \cup KnownRow
  BY DEF PortalType
<1>2. c \in Known <=> company[c] # Unknown
  BY DEF Known
<1>3. ~Unknown.blacklisted
  BY DEF Unknown
<1> QED
  BY <1>1, <1>2, <1>3, RowFacts

(* A change that another one has overtaken, or has not.                     *)
Alike(x, y) == y = x \/ (x \in StatusChange /\ y = [x EXCEPT !.overtaken = TRUE])

LEMMA AlikeFields ==
    ASSUME NEW x \in {NoChange} \cup StatusChange, NEW y, Alike(x, y)
    PROVE  /\ y \in {NoChange} \cup StatusChange
           /\ y # NoChange <=> x # NoChange
           /\ Blacklisting(y) <=> Blacklisting(x)
           /\ \A c : Sending(y, c) <=> Sending(x, c)
           /\ x # NoChange =>
                /\ y.company = x.company /\ y.was = x.was /\ y.want = x.want
                /\ y.account = x.account /\ y.active = x.active /\ y.bids = x.bids
                /\ y.cascaded = x.cascaded /\ y.hit = x.hit /\ y.due = x.due
                /\ y.wrote = x.wrote
<1>1. CASE y = x
  BY <1>1
<1>2. CASE x \in StatusChange /\ y = [x EXCEPT !.overtaken = TRUE]
  <2>1. /\ y \in StatusChange /\ y.op = x.op
        /\ y.company = x.company /\ y.was = x.was /\ y.want = x.want
        /\ y.account = x.account /\ y.active = x.active /\ y.bids = x.bids
        /\ y.cascaded = x.cascaded /\ y.hit = x.hit /\ y.due = x.due
        /\ y.wrote = x.wrote
    BY <1>2 DEF StatusChange
  <2> QED
    BY <1>2, <2>1, RowFacts DEF Blacklisting, Sending
<1> QED
  BY <1>1, <1>2 DEF Alike

(* The manager of the lot was told of the company, or is about to be, or    *)
(* the request that had to died.                                            *)
Covered(c, l) ==
    \/ l \in told[c] \/ c \in silent
    \/ \E r \in Changes : Sending(change[r], c) /\ change[r].wrote /\ l \in change[r].due

Owed(c, l) == l \in Managed /\ HasBid(c, l) /\ <<c, l>> \notin late

Staged ==
    \A r \in Changed :
        /\ change[r].cascaded => Blacklisting(change[r])
        /\ ~change[r].cascaded => change[r].hit = {} /\ change[r].due = {}
        /\ change[r].wrote /\ Blacklisting(change[r]) => change[r].cascaded

(* A change that was not overtaken has read what is there.                  *)
UpToDate ==
    \A r \in Changed : ~change[r].wrote /\ ~change[r].overtaken =>
        /\ change[r].was = company[change[r].company]
        /\ change[r].active = enabled[change[r].account]

(* What a blacklisting will see to: before its cascade all bids that it has *)
(* read or can still find, then those that it has to tell of.               *)
Foreseen(q, c, l) ==
    \/ q.cascaded /\ l \in q.due
    \/ ~q.cascaded /\ (l \in q.bids \/ bid[c][l] = "SUBMITTED")

Pending ==
    \A r \in Changed, c \in Companies, l \in Lots :
        change[r].company = c /\ Blacklisting(change[r]) /\ Owed(c, l) =>
            Covered(c, l) \/ Foreseen(change[r], c, l)

(* A cascade has taken bids that are there, and all that it found.          *)
Taken ==
    \A r \in Changed, l \in Lots :
        /\ l \in change[r].hit => bid[change[r].company][l] # "none"
        /\ change[r].cascaded /\ ~change[r].wrote /\ bid[change[r].company][l] = "SUBMITTED" =>
                l \in change[r].hit \/ <<change[r].company, l>> \in late

Barred ==
    \A c \in Companies, l \in Lots :
        company[c].blacklisted /\ bid[c][l] = "SUBMITTED" => <<c, l>> \in late

Informed ==
    \A c \in Companies, l \in Lots : company[c].blacklisted /\ Owed(c, l) => Covered(c, l)

Noticed == \A c \in Companies, l \in Lots : l \in told[c] => inbox[c][l] # "none"

(* An account that nobody set by hand goes with its company.                *)
InStep ==
    \A c \in Known : Namesakes(c) = {c} /\ c \notin slipped =>
        (enabled[c] <=> company[c].status = "ACTIVE")

PortalInv ==
    /\ PortalType
    /\ Staged /\ UpToDate /\ Pending /\ Taken
    /\ Barred /\ Informed /\ Noticed /\ InStep

LEMMA PortalBegins == PortalInit => PortalInv
<1> SUFFICES ASSUME PortalInit PROVE PortalInv
  OBVIOUS
<1>1. Changed = {} /\ Known = {}
  BY DEF PortalInit, Changed, Known
<1>2. PortalType
  BY <1>1 DEF PortalInit, PortalType, UploadOk
<1>3. \A c \in Companies : ~company[c].blacklisted /\ told[c] = {}
  BY DEF PortalInit, Unknown
<1> QED
  BY <1>1, <1>2, <1>3 DEF PortalInv, Staged, UpToDate, Pending, Taken, Barred, Informed, Noticed, InStep

-----------------------------------------------------------------------------
(* Steps that touch no change of status *)

LEMMA QuietStep ==
    ASSUME PortalInv,
           UNCHANGED <<name, company, enabled, bid, change, told, silent, late, slipped>>,
           inbox' \in [Companies -> [Lots -> {"none", "unread", "read"}]],
           \A c \in Companies, l \in Lots : inbox[c][l] # "none" => inbox'[c][l] # "none",
           UploadOk'
    PROVE  PortalInv'
<1>1. Known' = Known /\ Changed' = Changed /\ \A c \in Known : Namesakes(c)' = Namesakes(c)
  BY DEF Known, Changed, Namesakes
<1>2. PortalType'
  BY <1>1 DEF PortalInv, PortalType
<1>3. \A c, l : (Covered(c, l)' <=> Covered(c, l)) /\ (Owed(c, l)' <=> Owed(c, l))
  BY DEF Covered, Owed, HasBid
<1>4. Staged' /\ UpToDate' /\ Taken' /\ Barred' /\ InStep'
  BY <1>1 DEF PortalInv, Staged, UpToDate, Taken, Barred, InStep
<1>5. Pending' /\ Informed'
  BY <1>1, <1>3 DEF PortalInv, Pending, Foreseen, Informed
<1>6. Noticed'
  BY DEF PortalInv, Noticed
<1> QED
  BY <1>2, <1>4, <1>5, <1>6 DEF PortalInv

LEMMA UploadBeginStep ==
    ASSUME PortalInv, NEW c \in Companies, NEW l \in Lots, UploadBegin(c, l)
    PROVE  PortalInv'
<1>1. /\ UNCHANGED <<name, company, enabled, bid, change, told, silent, late, slipped, inbox>>
      /\ c \in Known /\ bid[c][l] = "none"
      /\ upload' = [op |-> "upload", company |-> c, lot |-> l]
  BY DEF UploadBegin, Accepted, HasBid, history
<1>2. Known' = Known
  BY <1>1 DEF Known
<1>3. UploadOk'
  BY <1>1, <1>2 DEF UploadOk
<1> QED
  BY <1>1, <1>3, QuietStep DEF PortalInv, PortalType

LEMMA ReadingStep ==
    ASSUME PortalInv,
           \/ UploadFails
           \/ \E l \in Lots : Close(l) \/ MarkAllRead(l)
           \/ \E c \in Companies, l \in Lots : MarkRead(c, l)
    PROVE  PortalInv'
<1>1. /\ UNCHANGED <<name, company, enabled, bid, change, told, silent, late, slipped>>
      /\ upload' \in {upload, NoUpload}
  BY DEF UploadFails, Close, MarkAllRead, MarkRead, history
<1>2. Known' = Known
  BY <1>1 DEF Known
<1>3. UploadOk'
  BY <1>1, <1>2 DEF PortalInv, PortalType, UploadOk
<1>4. inbox \in [Companies -> [Lots -> {"none", "unread", "read"}]]
  BY DEF PortalInv, PortalType
<1>5. CASE UNCHANGED inbox
  BY <1>1, <1>3, <1>4, <1>5, QuietStep
<1>6. ASSUME NEW l \in Lots, MarkAllRead(l) PROVE PortalInv'
  <2>1. inbox' = [c \in Companies |->
                    IF c \in Unread(l) THEN [inbox[c] EXCEPT ![l] = "read"] ELSE inbox[c]]
    BY <1>6 DEF MarkAllRead
  <2>2. inbox' \in [Companies -> [Lots -> {"none", "unread", "read"}]]
    BY <1>4, <2>1
  <2>3. \A c \in Companies, k \in Lots : inbox[c][k] # "none" => inbox'[c][k] # "none"
    BY <1>4, <2>1
  <2> QED
    BY <1>1, <1>3, <2>2, <2>3, QuietStep
<1>7. ASSUME NEW d \in Companies, NEW l \in Lots, MarkRead(d, l) PROVE PortalInv'
  <2>1. inbox' = [inbox EXCEPT ![d][l] = "read"]
    BY <1>7 DEF MarkRead
  <2>2. inbox' \in [Companies -> [Lots -> {"none", "unread", "read"}]]
    BY <1>4, <2>1
  <2>3. \A c \in Companies, k \in Lots : inbox[c][k] # "none" => inbox'[c][k] # "none"
    BY <1>4, <2>1
  <2> QED
    BY <1>1, <1>3, <2>2, <2>3, QuietStep
<1>8. UNCHANGED inbox \/ (\E l \in Lots : MarkAllRead(l))
      \/ \E c \in Companies, l \in Lots : MarkRead(c, l)
  BY DEF UploadFails, Close
<1> QED
  BY <1>5, <1>6, <1>7, <1>8

LEMMA ImportStep ==
    ASSUME PortalInv, NEW c \in Companies, Import(c)
    PROVE  PortalInv'
<1> DEFINE row == [blacklisted |-> FALSE, status |-> "ACTIVE"]
<1>1. /\ c \notin Known
      /\ company' = [company EXCEPT ![c] = row] /\ enabled' = [enabled EXCEPT ![c] = TRUE]
      /\ UNCHANGED <<name, bid, upload, change, inbox, told, silent, late, slipped>>
  BY DEF Import, history
<1>2. row \in KnownRow /\ ~row.blacklisted /\ row.status = "ACTIVE"
  BY DEF KnownRow
<1> HIDE DEF row
<1>3. /\ company \in [Companies -> {Unknown} \cup KnownRow] /\ enabled \in [Companies -> BOOLEAN]
      /\ company'[c] = row /\ enabled'[c] = TRUE
      /\ \A d \in Companies : d # c => company'[d] = company[d] /\ enabled'[d] = enabled[d]
  BY <1>1 DEF PortalInv, PortalType
<1>4. Known' = Known \cup {c}
  BY <1>1, <1>2, <1>3, RowFacts DEF Known
<1>5. \A d \in Known : Namesakes(d) \subseteq Namesakes(d)' /\ d \in Namesakes(d) /\ d # c
  BY <1>1, <1>4 DEF Namesakes
<1>6. /\ \A d, l : (Covered(d, l)' <=> Covered(d, l)) /\ (Owed(d, l)' <=> Owed(d, l))
      /\ Changed' = Changed
  BY <1>1 DEF Covered, Owed, HasBid, Changed
<1>7. \A r \in Changed : /\ change[r].company \in Known
                         /\ change[r].account \in Namesakes(change[r].company)
                         /\ change[r].account \in Known
  BY DEF PortalInv, PortalType, Namesakes
<1>8. PortalType'
  <2>1. UploadOk'
    BY <1>1, <1>4 DEF PortalInv, PortalType, UploadOk
  <2>2. company' \in [Companies -> {Unknown} \cup KnownRow] /\ enabled' \in [Companies -> BOOLEAN]
    BY <1>1, <1>2, <1>3
  <2> QED
    BY <1>1, <1>4, <1>5, <1>6, <1>7, <2>1, <2>2 DEF PortalInv, PortalType
<1>9. Staged' /\ Taken'
  BY <1>1, <1>6 DEF PortalInv, Staged, Taken
<1>10. UpToDate'
  <2>1. \A r \in Changed : change[r].company # c /\ change[r].account # c
                           /\ change[r].company \in Companies /\ change[r].account \in Companies
    BY <1>1, <1>7 DEF Known
  <2> QED
    BY <1>1, <1>3, <1>6, <2>1 DEF PortalInv, UpToDate
<1>11. Pending'
  BY <1>1, <1>6 DEF PortalInv, Pending, Foreseen
<1>12. Barred' /\ Informed'
  <2>1. \A d \in Companies : company'[d].blacklisted => company[d].blacklisted
    BY <1>2, <1>3
  <2> QED
    BY <1>1, <1>6, <2>1 DEF PortalInv, Barred, Informed
<1>13. Noticed'
  BY <1>1 DEF PortalInv, Noticed
<1>14. InStep'
  <2>1. ASSUME NEW d \in Known', Namesakes(d)' = {d}, d \notin slipped
        PROVE  enabled'[d] <=> company'[d].status = "ACTIVE"
    <3>1. CASE d = c
      BY <1>2, <1>3, <3>1
    <3>2. CASE d # c
      <4>1. d \in Known /\ Namesakes(d) = {d} /\ d \in Companies
        BY <1>4, <1>5, <2>1, <3>2 DEF Known
      <4> QED
        BY <1>3, <2>1, <3>2, <4>1 DEF PortalInv, InStep
    <3> QED
      BY <3>1, <3>2
  <2> QED
    BY <1>1, <2>1 DEF InStep
<1> QED
  BY <1>8, <1>9, <1>10, <1>11, <1>12, <1>13, <1>14 DEF PortalInv

LEMMA UploadCommitStep ==
    ASSUME PortalInv, UploadCommit
    PROVE  PortalInv'
<1> DEFINE c == upload.company
           l == upload.lot
<1>1. /\ upload # NoUpload /\ upload' = NoUpload
      /\ bid' = [bid EXCEPT ![c][l] = "SUBMITTED"]
      /\ late' = IF company[c].blacklisted \/ \E r \in Changes : Sending(change[r], c)
                 THEN late \cup {<<c, l>>} ELSE late
      /\ UNCHANGED <<name, company, enabled, change, inbox, told, silent, slipped>>
  BY DEF UploadCommit
<1>2. /\ c \in Known /\ c \in Companies /\ l \in Lots /\ bid[c][l] = "none"
  BY <1>1 DEF PortalInv, PortalType, UploadOk, Known
<1> HIDE DEF c, l
<1>3. /\ bid \in [Companies -> [Lots -> {"none", "SUBMITTED", "DISQUALIFIED"}]]
      /\ bid' \in [Companies -> [Lots -> {"none", "SUBMITTED", "DISQUALIFIED"}]]
      /\ bid'[c][l] = "SUBMITTED"
      /\ \A d \in Companies, k \in Lots : d # c \/ k # l => bid'[d][k] = bid[d][k]
  BY <1>1, <1>2 DEF PortalInv, PortalType
<1>4. /\ Known' = Known /\ Changed' = Changed
      /\ \A d \in Known : Namesakes(d)' = Namesakes(d)
      /\ \A d, k : Covered(d, k)' <=> Covered(d, k)
  BY <1>1 DEF Known, Changed, Namesakes, Covered
<1>5. \A d \in Companies, k \in Lots : Owed(d, k)' /\ (d # c \/ k # l) => Owed(d, k)
  BY <1>1, <1>3 DEF Owed, HasBid
<1>6. PortalType'
  BY <1>1, <1>3, <1>4 DEF PortalInv, PortalType, UploadOk
<1>7. Staged' /\ UpToDate' /\ Noticed' /\ InStep'
  BY <1>1, <1>4 DEF PortalInv, Staged, UpToDate, Noticed, InStep
<1>8. \A r \in Changed : change[r].company \in Companies /\ change[r] \in StatusChange
                         /\ change[r].op = "status" /\ r \in Changes
  BY RowFacts DEF PortalInv, PortalType, Known, Changed
<1>9. Pending'
  <2>1. ASSUME NEW r \in Changed, NEW k \in Lots, NEW d \in Companies,
               d = change[r].company, Blacklisting(change[r]), Owed(d, k)'
        PROVE  Covered(d, k) \/ Foreseen(change[r], d, k)'
    <3>1. CASE d = c /\ k = l
      <4>1. ~change[r].cascaded
        BY <1>1, <1>8, <2>1, <3>1 DEF Owed, Sending
      <4> QED
        BY <1>1, <1>3, <3>1, <4>1 DEF Foreseen
    <3>2. CASE ~ (d = c /\ k = l)
      <4>1. Owed(d, k) /\ r \in Changed /\ Blacklisting(change[r])
        BY <1>5, <1>8, <2>1, <3>2
      <4>2. Covered(d, k) \/ Foreseen(change[r], d, k)
        BY <2>1, <4>1 DEF PortalInv, Pending
      <4>3. bid'[d][k] = bid[d][k]
        BY <1>3, <1>8, <3>2
      <4> QED
        BY <1>1, <4>2, <4>3 DEF Foreseen
    <3> QED
      BY <3>1, <3>2
  <2> QED
    BY <1>1, <1>4, <2>1 DEF Pending
<1>10. Taken'
  <2>1. ASSUME NEW r \in Changed, NEW k \in Lots, change[r].cascaded, ~change[r].wrote,
               bid'[change[r].company][k] = "SUBMITTED"
        PROVE  k \in change[r].hit \/ <<change[r].company, k>> \in late'
    <3>1. CASE change[r].company = c /\ k = l
      <4>1. Sending(change[r], c)
        BY <1>8, <2>1, <3>1 DEF PortalInv, Staged, Sending
      <4> QED
        BY <1>1, <1>8, <3>1, <4>1
    <3>2. CASE ~ (change[r].company = c /\ k = l)
      BY <1>1, <1>3, <1>8, <2>1, <3>2 DEF PortalInv, Taken
    <3> QED
      BY <3>1, <3>2
  <2>2. ASSUME NEW r \in Changed, NEW k \in Lots, k \in change[r].hit
        PROVE  bid'[change[r].company][k] # "none"
    <3>1. bid[change[r].company][k] # "none"
      BY <2>2 DEF PortalInv, Taken
    <3> QED
      BY <1>2, <1>3, <1>8, <3>1
  <2> QED
    BY <1>1, <1>4, <2>1, <2>2 DEF Taken
<1>11. Barred'
  BY <1>1, <1>3 DEF PortalInv, Barred
<1>12. Informed'
  <2>1. ASSUME NEW d \in Companies, NEW k \in Lots, company[d].blacklisted, Owed(d, k)'
        PROVE  Covered(d, k)
    <3>1. d # c \/ k # l
      BY <1>1, <2>1 DEF Owed
    <3> QED
      BY <1>5, <2>1, <3>1 DEF PortalInv, Informed
  <2> QED
    BY <1>1, <1>4, <2>1 DEF Informed
<1> QED
  BY <1>6, <1>7, <1>9, <1>10, <1>11, <1>12 DEF PortalInv

LEMMA DisqualifyStep ==
    ASSUME PortalInv, NEW c \in Companies, NEW l \in Lots, Disqualify(c, l)
    PROVE  PortalInv'
<1>1. /\ bid[c][l] = "SUBMITTED" /\ bid' = [bid EXCEPT ![c][l] = "DISQUALIFIED"]
      /\ late' = IF \E r \in Changes : /\ Blacklisting(change[r]) /\ ~change[r].cascaded
                                       /\ change[r].company = c /\ l \notin change[r].bids
                 THEN late \cup {<<c, l>>} ELSE late
      /\ UNCHANGED <<name, company, enabled, upload, change, inbox, told, silent, slipped>>
  BY DEF Disqualify
<1>2. /\ bid \in [Companies -> [Lots -> {"none", "SUBMITTED", "DISQUALIFIED"}]]
      /\ bid' \in [Companies -> [Lots -> {"none", "SUBMITTED", "DISQUALIFIED"}]]
      /\ bid'[c][l] = "DISQUALIFIED"
      /\ \A d \in Companies, k \in Lots : d # c \/ k # l => bid'[d][k] = bid[d][k]
  BY <1>1 DEF PortalInv, PortalType
<1>3. /\ Known' = Known /\ Changed' = Changed
      /\ \A d \in Known : Namesakes(d)' = Namesakes(d)
      /\ \A d, k : Covered(d, k)' <=> Covered(d, k)
  BY <1>1 DEF Known, Changed, Namesakes, Covered
<1>4. \A d \in Companies, k \in Lots : Owed(d, k)' => Owed(d, k)
  BY <1>1, <1>2 DEF Owed, HasBid
<1>5. late \subseteq late' /\ \A d \in Companies, k \in Lots :
          bid'[d][k] = "SUBMITTED" => bid[d][k] = "SUBMITTED"
  BY <1>1, <1>2
<1>6. PortalType'
  <2>1. UploadOk'
    BY <1>1, <1>2, <1>3 DEF PortalInv, PortalType, UploadOk, Known
  <2> QED
    BY <1>1, <1>2, <1>3, <2>1 DEF PortalInv, PortalType
<1>7. Staged' /\ UpToDate' /\ Noticed' /\ InStep'
  BY <1>1, <1>3 DEF PortalInv, Staged, UpToDate, Noticed, InStep
<1>8. \A r \in Changed : change[r].company \in Companies /\ r \in Changes
  BY DEF PortalInv, PortalType, Known, Changed
<1>9. Pending'
  <2>1. ASSUME NEW r \in Changed, NEW k \in Lots, NEW d \in Companies,
               d = change[r].company, Blacklisting(change[r]), Owed(d, k)'
        PROVE  Covered(d, k) \/ Foreseen(change[r], d, k)'
    <3>1. CASE d = c /\ k = l /\ ~change[r].cascaded
      <4>1. k \in change[r].bids
        BY <1>1, <1>8, <2>1, <3>1 DEF Owed
      <4> QED
        BY <1>1, <3>1, <4>1 DEF Foreseen
    <3>2. CASE ~ (d = c /\ k = l /\ ~change[r].cascaded)
      <4>1. Owed(d, k) /\ r \in Changed /\ Blacklisting(change[r])
        BY <1>4, <2>1
      <4>2. Covered(d, k) \/ Foreseen(change[r], d, k)
        BY <2>1, <4>1 DEF PortalInv, Pending
      <4>3. change[r].cascaded \/ bid'[d][k] = bid[d][k]
        BY <1>2, <1>8, <3>2
      <4> QED
        BY <1>1, <4>2, <4>3 DEF Foreseen
    <3> QED
      BY <3>1, <3>2
  <2> QED
    BY <1>1, <1>3, <2>1 DEF Pending
<1>10. Taken' /\ Barred'
  BY <1>1, <1>3, <1>5, <1>8 DEF PortalInv, Taken, Barred
<1>11. Informed'
  BY <1>1, <1>3, <1>4 DEF PortalInv, Informed
<1> QED
  BY <1>6, <1>7, <1>9, <1>10, <1>11 DEF PortalInv

-----------------------------------------------------------------------------
(* Changes of status *)

(* What a change of status has besides whether it was overtaken.            *)
SameAs(x, y) ==
    /\ y.company = x.company /\ y.was = x.was /\ y.want = x.want
    /\ y.account = x.account /\ y.active = x.active /\ y.bids = x.bids
    /\ y.cascaded = x.cascaded /\ y.hit = x.hit /\ y.due = x.due /\ y.wrote = x.wrote

OnlyOf(r) ==
    /\ change' \in [Changes -> {NoChange} \cup StatusChange]
    /\ \A p \in Changes : p # r => Alike(change[p], change'[p])

LEMMA Others ==
    ASSUME PortalInv, NEW r \in Changes, OnlyOf(r), NEW p \in Changes, p # r
    PROVE  /\ p \in Changed' <=> p \in Changed
           /\ change'[p] \in {NoChange} \cup StatusChange
           /\ Blacklisting(change'[p]) <=> Blacklisting(change[p])
           /\ \A c : Sending(change'[p], c) <=> Sending(change[p], c)
           /\ p \in Changed => SameAs(change[p], change'[p])
<1>1. change[p] \in {NoChange} \cup StatusChange /\ Alike(change[p], change'[p])
  BY DEF PortalInv, PortalType, OnlyOf
<1> QED
  BY <1>1, AlikeFields DEF Changed, SameAs

LEMMA ChangeFacts ==
    ASSUME PortalInv, NEW r \in Changed
    PROVE  /\ r \in Changes /\ change[r] \in StatusChange /\ change[r].op = "status"
           /\ change[r].company \in Known /\ change[r].company \in Companies
           /\ change[r].account \in Namesakes(change[r].company)
           /\ change[r].account \in Known /\ change[r].account \in Companies
           /\ \A c : Sending(change[r], c) <=> change[r].company = c /\ change[r].cascaded
BY RowFacts DEF PortalInv, PortalType, Changed, Known, Namesakes, Staged, Sending

LEMMA StatusBeginStep ==
    ASSUME PortalInv, NEW r \in Changes, NEW c \in Companies, NEW body \in Bodies,
           StatusBegin(r, c, body)
    PROVE  PortalInv'
<1>1. PICK a \in Namesakes(c) :
          change' = [change EXCEPT ![r] =
            [op |-> "status", company |-> c, was |-> company[c],
             want |-> Target(company[c], body),
             account |-> a, active |-> enabled[a],
             bids |-> BidsOf(c),
             cascaded |-> FALSE, hit |-> {}, due |-> {}, wrote |-> FALSE, overtaken |-> FALSE]]
  BY DEF StatusBegin
<1>2. /\ change[r] = NoChange /\ c \in Known
      /\ UNCHANGED <<name, company, enabled, bid, upload, inbox, told, silent, late, slipped>>
  BY DEF StatusBegin, history
<1> DEFINE q == [op |-> "status", company |-> c, was |-> company[c],
             want |-> Target(company[c], body),
             account |-> a, active |-> enabled[a],
             bids |-> BidsOf(c),
             cascaded |-> FALSE, hit |-> {}, due |-> {}, wrote |-> FALSE, overtaken |-> FALSE]
<1>3. q \in StatusChange
  <2>1. company[c] \in KnownRow
    BY <1>2, KnownFacts DEF PortalInv
  <2>2. Target(company[c], body) \in KnownRow
    BY <2>1 DEF Target, Bodies, KnownRow
  <2>3. BidsOf(c) \subseteq Lots /\ a \in Companies /\ enabled[a] \in BOOLEAN
    BY DEF BidsOf, Namesakes, Known, PortalInv, PortalType
  <2> QED
    BY <2>1, <2>2, <2>3 DEF StatusChange
<1>4. /\ q.company = c /\ q.was = company[c] /\ q.account = a /\ q.active = enabled[a]
      /\ q.bids = BidsOf(c) /\ q.cascaded = FALSE /\ q.hit = {} /\ q.due = {} /\ q.wrote = FALSE
  OBVIOUS
<1> HIDE DEF q
<1>5. /\ change \in [Changes -> {NoChange} \cup StatusChange]
      /\ change' = [change EXCEPT ![r] = q]
  BY <1>1 DEF PortalInv, PortalType, q
<1>6. /\ change' \in [Changes -> {NoChange} \cup StatusChange]
      /\ change'[r] = q /\ \A p \in Changes : p # r => change'[p] = change[p]
      /\ Changed' = Changed \cup {r} /\ r \notin Changed
      /\ Known' = Known /\ \A d \in Known : Namesakes(d)' = Namesakes(d)
  BY <1>2, <1>3, <1>5, RowFacts DEF Changed, Known, Namesakes
<1>7. /\ \A d, l : (Covered(d, l)' <=> Covered(d, l)) /\ (Owed(d, l)' <=> Owed(d, l))
      /\ \A p, d, l : p \in Changed => (Foreseen(change[p], d, l)' <=> Foreseen(change[p], d, l))
  <2>1. ASSUME NEW d, NEW l PROVE Covered(d, l)' <=> Covered(d, l)
    <3>1. \A p \in Changes : change[p].wrote /\ Sending(change[p], d) => p # r
      BY <1>2, RowFacts DEF Sending, Blacklisting
    <3>2. \A p \in Changes : change'[p].wrote => p # r
      BY <1>4, <1>6
    <3> QED
      BY <1>2, <1>6, <3>1, <3>2 DEF Covered
  <2>2. ASSUME NEW p, NEW d, NEW l, p \in Changed
        PROVE  Foreseen(change[p], d, l)' <=> Foreseen(change[p], d, l)
    BY <1>2, <1>6, <2>2 DEF Foreseen, Changed
  <2> QED
    BY <1>2, <2>1, <2>2 DEF Owed, HasBid
<1>8. PortalType'
  <2>1. \A p \in Changed' : /\ change'[p].company \in Known
                            /\ change'[p].account \in Namesakes(change'[p].company)
    BY <1>2, <1>4, <1>6, ChangeFacts
  <2> QED
    BY <1>2, <1>6, <2>1 DEF PortalInv, PortalType, UploadOk
<1>9. Staged' /\ UpToDate' /\ Taken'
  BY <1>2, <1>4, <1>6 DEF PortalInv, Staged, UpToDate, Taken, Changed
<1>10. Pending'
  <2>1. ASSUME NEW p \in Changed', NEW d \in Companies, NEW l \in Lots,
               change'[p].company = d, Blacklisting(change'[p]), Owed(d, l)
        PROVE  Covered(d, l) \/ Foreseen(change[p], d, l)'
    <3>1. CASE p = r
      <4>1. l \in BidsOf(d)
        BY <1>4, <1>6, <2>1, <3>1 DEF Owed, BidsOf
      <4> QED
        BY <1>4, <1>6, <2>1, <3>1, <4>1 DEF Foreseen
    <3>2. CASE p # r
      <4>1. p \in Changed /\ change'[p] = change[p]
        BY <1>6, <3>2 DEF Changed
      <4> QED
        BY <1>7, <2>1, <4>1 DEF PortalInv, Pending
    <3> QED
      BY <3>1, <3>2
  <2> QED
    BY <1>7, <2>1 DEF Pending
<1>11. Barred' /\ Noticed' /\ InStep'
  BY <1>2, <1>6 DEF PortalInv, Barred, Noticed, InStep
<1>12. Informed'
  BY <1>2, <1>7 DEF PortalInv, Informed
<1> QED
  BY <1>8, <1>9, <1>10, <1>11, <1>12 DEF PortalInv

LEMMA CascadeStep ==
    ASSUME PortalInv, NEW r \in Changes, Cascade(r)
    PROVE  PortalInv'
<1> DEFINE q == change[r]
           c == q.company
           hit == {l \in Lots : bid[q.company][l] = "SUBMITTED"}
           due == Affected(q.bids, hit)
<1>1. /\ Blacklisting(q) /\ ~q.cascaded
      /\ change' = [change EXCEPT ![r].cascaded = TRUE, ![r].hit = hit, ![r].due = due]
      /\ UNCHANGED <<name, company, enabled, bid, upload, inbox, told, silent, late, slipped>>
  BY DEF Cascade, history
<1>2. q \in StatusChange /\ r \in Changed /\ c \in Companies /\ q.bids \subseteq Lots /\ hit \subseteq Lots
  BY <1>1, RowFacts, ChangeFacts DEF Blacklisting, Changed, PortalInv, PortalType, StatusChange
<1>3. due = (q.bids \cup hit) \cap Managed /\ due \subseteq Lots
  BY <1>2 DEF Affected
<1>4. /\ change \in [Changes -> {NoChange} \cup StatusChange]
      /\ \A l \in Lots : l \in hit <=> bid[c][l] = "SUBMITTED"
  BY DEF PortalInv, PortalType
<1> HIDE DEF hit, due
<1>5. /\ change' \in [Changes -> {NoChange} \cup StatusChange]
      /\ \A p \in Changes : p # r => change'[p] = change[p]
      /\ change'[r] \in StatusChange
      /\ change'[r].cascaded /\ change'[r].hit = hit /\ change'[r].due = due
      /\ change'[r].company = c /\ change'[r].was = q.was /\ change'[r].want = q.want
      /\ change'[r].account = q.account /\ change'[r].active = q.active
      /\ change'[r].wrote = q.wrote /\ change'[r].overtaken = q.overtaken
      /\ change'[r].op = q.op
  BY <1>1, <1>2, <1>3, <1>4 DEF StatusChange
<1>6. /\ Changed' = Changed
      /\ Known' = Known /\ \A d \in Known : Namesakes(d)' = Namesakes(d)
      /\ Blacklisting(change'[r])
  <2>1. Blacklisting(change'[r])
    BY <1>1, <1>5 DEF Blacklisting
  <2>2. \A p \in Changes : change'[p] # NoChange <=> change[p] # NoChange
    BY <1>2, <1>5, RowFacts DEF Changed
  <2>3. Changed' = Changed
    BY <2>2 DEF Changed
  <2> QED
    BY <1>1, <2>1, <2>3 DEF Known, Namesakes
<1>7. /\ \A d, l : Owed(d, l)' <=> Owed(d, l)
      /\ \A d, l : Covered(d, l) => Covered(d, l)'
  <2>1. ASSUME NEW d, NEW l, NEW p \in Changes, Sending(change[p], d)
        PROVE  p # r
    BY <1>1, <2>1 DEF Sending
  <2> QED
    BY <1>1, <1>5, <2>1 DEF Owed, HasBid, Covered
<1>8. PortalType'
  <2>1. \A p \in Changed' : /\ change'[p].company \in Known
                            /\ change'[p].account \in Namesakes(change'[p].company)
    <3>1. \A p \in Changed : change'[p].company = change[p].company
                             /\ change'[p].account = change[p].account
      BY <1>5 DEF Changed
    <3> QED
      BY <1>6, <3>1, ChangeFacts
  <2> QED
    BY <1>1, <1>5, <1>6, <2>1, ChangeFacts DEF PortalInv, PortalType, UploadOk
<1>9. Staged' /\ Taken' /\ UpToDate'
  <2>1. Staged'
    BY <1>5, <1>6 DEF PortalInv, Staged, Changed
  <2>2. Taken'
    BY <1>1, <1>4, <1>5, <1>6 DEF PortalInv, Taken, Changed
  <2>3. UpToDate'
    BY <1>1, <1>5, <1>6 DEF PortalInv, UpToDate, Changed
  <2> QED
    BY <2>1, <2>2, <2>3
<1>10. Pending'
  <2>1. ASSUME NEW p \in Changed, NEW d \in Companies, NEW l \in Lots,
               change'[p].company = d, Blacklisting(change'[p]), Owed(d, l)
        PROVE  Covered(d, l)' \/ Foreseen(change[p], d, l)'
    <3>1. CASE p = r
      <4>1. Covered(d, l) \/ l \in q.bids \/ bid[d][l] = "SUBMITTED"
        BY <1>1, <1>2, <1>5, <2>1, <3>1 DEF PortalInv, Pending, Foreseen
      <4>2. l \in Managed
        BY <2>1 DEF Owed
      <4>3. ~Covered(d, l) => l \in due
        BY <1>3, <1>4, <1>5, <2>1, <3>1, <4>1, <4>2
      <4> QED
        BY <1>5, <1>7, <3>1, <4>3 DEF Foreseen
    <3>2. CASE p # r
      <4>1. change'[p] = change[p] /\ bid' = bid
        BY <1>1, <1>5, <3>2 DEF Changed
      <4>2. Covered(d, l) \/ Foreseen(change[p], d, l)
        BY <2>1, <4>1 DEF PortalInv, Pending
      <4> QED
        BY <1>7, <4>1, <4>2 DEF Foreseen
    <3> QED
      BY <3>1, <3>2
  <2> QED
    BY <1>6, <1>7, <2>1 DEF Pending
<1>11. Barred' /\ Noticed' /\ InStep'
  BY <1>1, <1>6 DEF PortalInv, Barred, Noticed, InStep
<1>12. Informed'
  BY <1>1, <1>7 DEF PortalInv, Informed
<1> QED
  BY <1>8, <1>9, <1>10, <1>11, <1>12 DEF PortalInv

LEMMA DiesStep ==
    ASSUME PortalInv, NEW r \in Changes, Dies(r)
    PROVE  PortalInv'
<1> DEFINE c == change[r].company
<1>1. /\ r \in Changed /\ change' = [change EXCEPT ![r] = NoChange]
      /\ silent' = IF change[r].wrote THEN silent \cup {c} ELSE silent
      /\ UNCHANGED <<name, company, enabled, bid, upload, inbox, told, late, slipped>>
  BY DEF Dies, Changed
<1>2. /\ change \in [Changes -> {NoChange} \cup StatusChange]
      /\ c \in Companies
  BY <1>1, ChangeFacts DEF PortalInv, PortalType
<1> HIDE DEF c
<1>3. /\ change' \in [Changes -> {NoChange} \cup StatusChange]
      /\ Changed' = Changed \ {r}
      /\ \A p \in Changes : p # r => change'[p] = change[p]
      /\ Known' = Known /\ \A d \in Known : Namesakes(d)' = Namesakes(d)
  BY <1>1, <1>2 DEF Changed, Known, Namesakes
<1>4. /\ \A d, l : Owed(d, l)' <=> Owed(d, l)
      /\ \A d, l : Covered(d, l) => Covered(d, l)'
  <2>1. ASSUME NEW d, NEW l, Covered(d, l) PROVE Covered(d, l)'
    <3>1. CASE l \in told[d] \/ d \in silent
      BY <1>1, <3>1 DEF Covered
    <3>2. ASSUME NEW p \in Changes, Sending(change[p], d), change[p].wrote, l \in change[p].due
          PROVE  Covered(d, l)'
      <4>1. CASE p = r
        BY <1>1, <3>2, <4>1 DEF Covered, Sending, c
      <4>2. CASE p # r
        BY <1>3, <3>2, <4>2 DEF Covered
      <4> QED
        BY <4>1, <4>2
    <3> QED
      BY <2>1, <3>1, <3>2 DEF Covered
  <2> QED
    BY <1>1, <2>1 DEF Owed, HasBid
<1>5. PortalType'
  <2>1. \A p \in Changed' : /\ change'[p].company \in Known
                            /\ change'[p].account \in Namesakes(change'[p].company)
    BY <1>3, ChangeFacts
  <2> QED
    BY <1>1, <1>3, <2>1 DEF PortalInv, PortalType, UploadOk
<1>6. Staged' /\ Taken' /\ UpToDate'
  <2>1. \A p \in Changed' : p \in Changed /\ change'[p] = change[p]
    BY <1>3 DEF Changed
  <2> QED
    BY <1>1, <2>1 DEF PortalInv, Staged, Taken, UpToDate
<1>7. Pending'
  <2>1. \A p \in Changed' : p \in Changed /\ change'[p] = change[p]
    BY <1>3 DEF Changed
  <2> QED
    BY <1>1, <1>4, <2>1 DEF PortalInv, Pending, Foreseen
<1>8. Barred' /\ Noticed' /\ InStep'
  BY <1>1, <1>3 DEF PortalInv, Barred, Noticed, InStep
<1>9. Informed'
  BY <1>1, <1>4 DEF PortalInv, Informed
<1> QED
  BY <1>5, <1>6, <1>7, <1>8, <1>9 DEF PortalInv

LEMMA SetActiveStep ==
    ASSUME PortalInv, NEW a \in Companies, NEW active \in BOOLEAN, SetActive(a, active)
    PROVE  PortalInv'
<1>1. /\ a \in Known /\ enabled' = [enabled EXCEPT ![a] = active]
      /\ slipped' = slipped \cup {a}
      /\ change' = [p \in Changes |->
                     IF change[p].op = "status" /\ change[p].account = a /\ ~change[p].wrote
                     THEN [change[p] EXCEPT !.overtaken = TRUE] ELSE change[p]]
      /\ UNCHANGED <<name, company, bid, upload, inbox, told, silent, late>>
  BY DEF SetActive, history
<1>2. change \in [Changes -> {NoChange} \cup StatusChange] /\ enabled \in [Companies -> BOOLEAN]
  BY DEF PortalInv, PortalType
<1>3. \A p \in Changes : Alike(change[p], change'[p])
  BY <1>1, <1>2, RowFacts DEF Alike
<1>4. \A p \in Changed : change[p].account = a /\ ~change[p].wrote => change'[p].overtaken
  <2>1. ASSUME NEW p \in Changed, change[p].account = a, ~change[p].wrote
        PROVE  change'[p].overtaken
    <3>1. change[p] \in StatusChange /\ p \in Changes
      BY ChangeFacts
    <3> QED
      BY <1>1, <2>1, <3>1, RowFacts DEF StatusChange
  <2> QED
    BY <2>1
<1>5. \A p \in Changes :
          /\ p \in Changed' <=> p \in Changed
          /\ change'[p] \in {NoChange} \cup StatusChange
          /\ Blacklisting(change'[p]) <=> Blacklisting(change[p])
          /\ \A c : Sending(change'[p], c) <=> Sending(change[p], c)
          /\ p \in Changed => SameAs(change[p], change'[p])
  <2>1. ASSUME NEW p \in Changes
        PROVE  /\ p \in Changed' <=> p \in Changed
               /\ change'[p] \in {NoChange} \cup StatusChange
               /\ Blacklisting(change'[p]) <=> Blacklisting(change[p])
               /\ \A c : Sending(change'[p], c) <=> Sending(change[p], c)
               /\ p \in Changed => SameAs(change[p], change'[p])
    BY <1>2, <1>3, AlikeFields DEF Changed, SameAs
  <2> QED
    BY <2>1
<1>6. /\ Changed' = Changed /\ change' \in [Changes -> {NoChange} \cup StatusChange]
      /\ Known' = Known /\ \A d \in Known : Namesakes(d)' = Namesakes(d)
  BY <1>1, <1>5 DEF Changed, Known, Namesakes
<1>7. /\ \A d, l : Owed(d, l)' <=> Owed(d, l)
      /\ \A d, l : Covered(d, l) => Covered(d, l)'
  <2>1. ASSUME NEW d, NEW l, NEW p \in Changes, Sending(change[p], d),
               change[p].wrote, l \in change[p].due
        PROVE  Sending(change'[p], d) /\ change'[p].wrote /\ l \in change'[p].due
    <3>1. p \in Changed
      BY <2>1, RowFacts DEF Sending, Blacklisting, Changed
    <3> QED
      BY <1>5, <2>1, <3>1 DEF SameAs
  <2> QED
    BY <1>1, <2>1 DEF Owed, HasBid, Covered
<1>8. PortalType'
  <2>1. \A p \in Changed' : /\ change'[p].company \in Known
                            /\ change'[p].account \in Namesakes(change'[p].company)
    BY <1>5, <1>6, ChangeFacts DEF SameAs
  <2> QED
    BY <1>1, <1>2, <1>6, <2>1 DEF PortalInv, PortalType, UploadOk
<1>9. Staged' /\ Taken'
  <2>1. Staged'
    BY <1>5, <1>6, ChangeFacts DEF PortalInv, Staged, SameAs
  <2>2. Taken'
    BY <1>1, <1>5, <1>6, ChangeFacts DEF PortalInv, Taken, SameAs
  <2> QED
    BY <2>1, <2>2
<1>10. UpToDate'
  <2>1. ASSUME NEW p \in Changed, ~change'[p].wrote, ~change'[p].overtaken
        PROVE  /\ change'[p].was = company[change'[p].company]
               /\ change'[p].active = enabled'[change'[p].account]
    <3>1. /\ p \in Changes /\ change[p] \in StatusChange /\ SameAs(change[p], change'[p])
          /\ change[p].account \in Companies
      BY <1>5, ChangeFacts
    <3>2. ~change[p].wrote /\ change[p].account # a
      BY <1>4, <2>1, <3>1 DEF SameAs
    <3>3. ~change[p].overtaken
      BY <1>1, <2>1, <3>1, <3>2
    <3>4. enabled'[change[p].account] = enabled[change[p].account]
      BY <1>1, <1>2, <3>1, <3>2
    <3> QED
      BY <3>1, <3>2, <3>3, <3>4 DEF PortalInv, UpToDate, SameAs
  <2> QED
    BY <1>1, <1>6, <2>1 DEF UpToDate
<1>11. Pending'
  <2>1. ASSUME NEW p \in Changed, NEW d \in Companies, NEW l \in Lots,
               change'[p].company = d, Blacklisting(change'[p]), Owed(d, l)
        PROVE  Covered(d, l)' \/ Foreseen(change[p], d, l)'
    <3>1. SameAs(change[p], change'[p]) /\ Blacklisting(change[p]) /\ bid' = bid
      BY <1>1, <1>5, <2>1, ChangeFacts
    <3>2. Covered(d, l) \/ Foreseen(change[p], d, l)
      BY <2>1, <3>1 DEF PortalInv, Pending, SameAs
    <3> QED
      BY <1>7, <3>1, <3>2 DEF Foreseen, SameAs
  <2> QED
    BY <1>6, <1>7, <2>1 DEF Pending
<1>12. Barred' /\ Noticed'
  BY <1>1, <1>6 DEF PortalInv, Barred, Noticed
<1>13. InStep'
  BY <1>1, <1>2, <1>6 DEF PortalInv, InStep, Known
<1>14. Informed'
  BY <1>1, <1>7 DEF PortalInv, Informed
<1> QED
  BY <1>8, <1>9, <1>10, <1>11, <1>12, <1>13, <1>14 DEF PortalInv

-----------------------------------------------------------------------------
(* The commit of a change *)

(* What the first commit of the change r leaves in the tables.              *)
Stores(r, q) ==
    /\ \A p \in Changed :
            p # r /\ ~change[p].wrote
              /\ (change[p].company = q.company \/ change[p].account = q.account)
            => change'[p].overtaken
    /\ company' \in [Companies -> {Unknown} \cup KnownRow] /\ Known' = Known
    /\ \A d \in Companies : d # q.company => company'[d] = company[d]
    /\ company'[q.company].blacklisted =
            IF q.was.blacklisted = q.want.blacklisted
            THEN company[q.company].blacklisted ELSE q.want.blacklisted
    /\ company'[q.company].status =
            IF q.was.status = q.want.status THEN company[q.company].status ELSE q.want.status
    /\ enabled' \in [Companies -> BOOLEAN]
    /\ \A d \in Companies : d # q.account => enabled'[d] = enabled[d]
    /\ enabled'[q.account] =
            IF q.active = (q.want.status = "ACTIVE")
            THEN enabled[q.account] ELSE q.want.status = "ACTIVE"
    /\ bid' \in [Companies -> [Lots -> {"none", "SUBMITTED", "DISQUALIFIED"}]]
    /\ \A d \in Companies : d # q.company => bid'[d] = bid[d]
    /\ \A l \in Lots : bid'[q.company][l] =
            IF l \in q.hit THEN "DISQUALIFIED" ELSE bid[q.company][l]
    /\ slipped' = IF q.overtaken /\ ~(/\ q.was.status # q.want.status
                                      /\ q.active # (q.want.status = "ACTIVE"))
                  THEN slipped \cup {q.account} ELSE slipped \ {q.account}

LEMMA Written ==
    ASSUME PortalInv, NEW r \in Changed, ~change[r].wrote,
           NEW after \in {NoChange} \cup StatusChange, Write(r, after),
           NEW q, q = change[r]
    PROVE  OnlyOf(r) /\ change'[r] = after /\ Stores(r, q)
<1> DEFINE c == q.company
           row == [blacklisted |-> IF q.was.blacklisted = q.want.blacklisted
                                   THEN company[c].blacklisted ELSE q.want.blacklisted,
                   status |-> IF q.was.status = q.want.status
                              THEN company[c].status ELSE q.want.status]
           act == IF q.active = (q.want.status = "ACTIVE")
                  THEN enabled[q.account] ELSE q.want.status = "ACTIVE"
<1>1. /\ company' = [company EXCEPT ![c] = row]
      /\ enabled' = [enabled EXCEPT ![q.account] = act]
      /\ bid' = [bid EXCEPT ![c] =
                    [l \in Lots |-> IF l \in q.hit THEN "DISQUALIFIED" ELSE bid[c][l]]]
      /\ slipped' = IF q.overtaken /\ ~(/\ q.was.status # q.want.status
                                        /\ q.active # (q.want.status = "ACTIVE"))
                    THEN slipped \cup {q.account} ELSE slipped \ {q.account}
      /\ change' = [p \in Changes |->
                       IF p = r THEN after
                       ELSE IF change[p].op = "status" /\ ~change[p].wrote
                               /\ (change[p].company = c \/ change[p].account = q.account)
                       THEN [change[p] EXCEPT !.overtaken = TRUE]
                       ELSE change[p]]
  BY DEF Write, Flushed
<1>2. /\ r \in Changes /\ q \in StatusChange /\ c \in Known /\ c \in Companies
      /\ q.account \in Companies
  BY ChangeFacts
<1>3. /\ company[c] \in KnownRow /\ row \in KnownRow /\ act \in BOOLEAN
      /\ q.was \in KnownRow /\ q.want \in KnownRow
  <2>1. company[c] \in KnownRow
    BY <1>2, KnownFacts DEF PortalInv
  <2>2. q.was \in KnownRow /\ q.want \in KnownRow /\ q.active \in BOOLEAN
    BY <1>2 DEF StatusChange
  <2>3. row \in KnownRow
    BY <2>1, <2>2 DEF KnownRow
  <2>4. enabled[q.account] \in BOOLEAN
    BY <1>2 DEF PortalInv, PortalType
  <2> QED
    BY <2>1, <2>2, <2>3, <2>4
<1>4. /\ company \in [Companies -> {Unknown} \cup KnownRow]
      /\ enabled \in [Companies -> BOOLEAN]
      /\ bid \in [Companies -> [Lots -> {"none", "SUBMITTED", "DISQUALIFIED"}]]
      /\ change \in [Changes -> {NoChange} \cup StatusChange]
  BY DEF PortalInv, PortalType
<1>5. row.blacklisted = (IF q.was.blacklisted = q.want.blacklisted
                         THEN company[c].blacklisted ELSE q.want.blacklisted)
      /\ row.status = (IF q.was.status = q.want.status
                       THEN company[c].status ELSE q.want.status)
  OBVIOUS
<1> HIDE DEF row, act
<1>6. /\ company' \in [Companies -> {Unknown} \cup KnownRow]
      /\ company'[c] = row /\ \A d \in Companies : d # c => company'[d] = company[d]
  BY <1>1, <1>2, <1>3, <1>4
<1>7. Known' = Known
  BY <1>2, <1>3, <1>6, RowFacts DEF Known
<1>8. /\ enabled' \in [Companies -> BOOLEAN] /\ enabled'[q.account] = act
      /\ \A d \in Companies : d # q.account => enabled'[d] = enabled[d]
  BY <1>1, <1>2, <1>3, <1>4
<1>9. /\ bid' \in [Companies -> [Lots -> {"none", "SUBMITTED", "DISQUALIFIED"}]]
      /\ \A d \in Companies : d # c => bid'[d] = bid[d]
      /\ \A l \in Lots : bid'[c][l] = IF l \in q.hit THEN "DISQUALIFIED" ELSE bid[c][l]
  BY <1>1, <1>2, <1>4
<1>10. change'[r] = after /\ \A p \in Changes : p # r => Alike(change[p], change'[p])
  BY <1>1, <1>2, <1>4, RowFacts DEF Alike
<1>11. OnlyOf(r)
  <2>1. ASSUME NEW p \in Changes PROVE change'[p] \in {NoChange} \cup StatusChange
    BY <1>4, <1>10, AlikeFields
  <2>2. change' = [p \in Changes |-> change'[p]]
    BY <1>1
  <2> QED
    BY <1>10, <2>1, <2>2 DEF OnlyOf
<1>12. ASSUME NEW p \in Changed, p # r, ~change[p].wrote,
              change[p].company = c \/ change[p].account = q.account
       PROVE  change'[p].overtaken
  <2>1. p \in Changes /\ change[p] \in StatusChange /\ change[p].op = "status"
    BY ChangeFacts
  <2>2. change'[p] = [change[p] EXCEPT !.overtaken = TRUE]
    BY <1>1, <1>12, <2>1
  <2> QED
    BY <2>1, <2>2 DEF StatusChange
<1>13. /\ company'[c].blacklisted =
            (IF q.was.blacklisted = q.want.blacklisted
             THEN company[c].blacklisted ELSE q.want.blacklisted)
       /\ company'[c].status =
            (IF q.was.status = q.want.status THEN company[c].status ELSE q.want.status)
  BY <1>5, <1>6
<1>14. enabled'[q.account] =
            (IF q.active = (q.want.status = "ACTIVE")
             THEN enabled[q.account] ELSE q.want.status = "ACTIVE")
  BY <1>8 DEF act
<1>15. slipped' = IF q.overtaken /\ ~(/\ q.was.status # q.want.status
                                      /\ q.active # (q.want.status = "ACTIVE"))
                  THEN slipped \cup {q.account} ELSE slipped \ {q.account}
  BY <1>1
<1>16. \A p \in Changed :
            p # r /\ ~change[p].wrote
              /\ (change[p].company = q.company \/ change[p].account = q.account)
            => change'[p].overtaken
  BY ONLY <1>12
<1>17. /\ OnlyOf(r) /\ change'[r] = after
       /\ company' \in [Companies -> {Unknown} \cup KnownRow] /\ Known' = Known
       /\ \A d \in Companies : d # q.company => company'[d] = company[d]
       /\ enabled' \in [Companies -> BOOLEAN]
       /\ \A d \in Companies : d # q.account => enabled'[d] = enabled[d]
       /\ bid' \in [Companies -> [Lots -> {"none", "SUBMITTED", "DISQUALIFIED"}]]
       /\ \A d \in Companies : d # q.company => bid'[d] = bid[d]
       /\ \A l \in Lots : bid'[q.company][l] =
                            IF l \in q.hit THEN "DISQUALIFIED" ELSE bid[q.company][l]
  BY ONLY <1>6, <1>7, <1>8, <1>9, <1>10, <1>11
<1> QED
  BY ONLY <1>13, <1>14, <1>15, <1>16, <1>17 DEF Stores

(* What is left of a change after a commit: it has written, and is the same *)
(* but for those it has to tell.                                            *)
Continues(x, y) ==
    y # NoChange =>
        /\ y.company = x.company /\ y.was = x.was /\ y.want = x.want
        /\ y.account = x.account /\ y.active = x.active /\ y.bids = x.bids
        /\ y.cascaded = x.cascaded /\ y.hit = x.hit /\ y.due \subseteq x.due /\ y.wrote

(* Lots that a commit leaves untold are still to be told.                   *)
Hands(x, y, lots) == \A l \in x.due : l \in lots \/ (y # NoChange /\ l \in y.due)

(* The change r commits, and goes on as after.                              *)
Commits(r, q, after, lots) ==
    /\ q = change[r] /\ after \in {NoChange} \cup StatusChange
    /\ Blacklisting(q) => q.cascaded
    /\ OnlyOf(r) /\ change'[r] = after
    /\ Continues(q, after) /\ Hands(q, after, lots)
    /\ Remember(q.company, lots)
    /\ Known' = Known /\ UNCHANGED <<name, upload>>
    /\ \A d \in Companies, l \in Lots : bid'[d][l] = "none" <=> bid[d][l] = "none"

LEMMA CommitRemembers ==
    ASSUME PortalInv, NEW r \in Changed, NEW q, NEW after, NEW lots,
           Commits(r, q, after, lots), lots \subseteq Lots
    PROVE  /\ q.company \in Companies
           /\ told' \in [Companies -> SUBSET Lots]
           /\ \A d \in Companies : told'[d] \subseteq told[d] \cup (IF d = q.company THEN lots ELSE {})
           /\ \A d \in Companies : d # q.company \/ ~Cleared(q.company) =>
                /\ told[d] \subseteq told'[d]
                /\ d \in silent => d \in silent'
                /\ \A l : <<d, l>> \in late => <<d, l>> \in late'
                /\ \A l : <<d, l>> \in late' => <<d, l>> \in late
           /\ ~Cleared(q.company) => lots \subseteq told'[q.company]
<1>1. /\ q.company \in Companies /\ told \in [Companies -> SUBSET Lots]
  BY ChangeFacts DEF Commits, PortalInv, PortalType
<1>2. /\ told' = [told EXCEPT ![q.company] = IF Cleared(q.company) THEN {} ELSE @ \cup lots]
      /\ silent' = IF Cleared(q.company) THEN silent \ {q.company} ELSE silent
      /\ late' = IF Cleared(q.company) THEN {p \in late : p[1] # q.company} ELSE late
  BY DEF Commits, Remember
<1> DEFINE clear == Cleared(q.company)
<1> HIDE DEF clear
<1>3. /\ told' = [told EXCEPT ![q.company] = IF clear THEN {} ELSE @ \cup lots]
      /\ silent' = IF clear THEN silent \ {q.company} ELSE silent
      /\ late' = IF clear THEN {p \in late : p[1] # q.company} ELSE late
  BY <1>2 DEF clear
<1>4. /\ told' \in [Companies -> SUBSET Lots]
      /\ told'[q.company] = IF clear THEN {} ELSE told[q.company] \cup lots
      /\ \A d \in Companies : d # q.company => told'[d] = told[d]
  BY <1>1, <1>3
<1>5. \A d \in Companies : d # q.company \/ ~clear =>
          /\ told[d] \subseteq told'[d]
          /\ d \in silent => d \in silent'
          /\ \A l : <<d, l>> \in late => <<d, l>> \in late'
          /\ \A l : <<d, l>> \in late' => <<d, l>> \in late
  BY <1>3, <1>4
<1>6. \A d \in Companies : told'[d] \subseteq told[d] \cup (IF d = q.company THEN lots ELSE {})
  BY <1>4
<1>7. ~clear => lots \subseteq told'[q.company]
  BY <1>4
<1> QED
  BY ONLY <1>1, <1>4, <1>5, <1>6, <1>7 DEF clear

LEMMA CommitKeeps ==
    ASSUME PortalInv, NEW r \in Changed, NEW q, NEW after, NEW lots,
           Commits(r, q, after, lots), lots \subseteq Lots,
           NEW d \in Companies, NEW l \in Lots, d # q.company \/ ~Cleared(q.company)
    PROVE  /\ Owed(d, l)' => Owed(d, l)
           /\ Sending(q, d) /\ l \in q.due => Covered(d, l)'
           /\ Covered(d, l) => Covered(d, l)'
<1>1. Owed(d, l)' => Owed(d, l)
  BY CommitRemembers DEF Owed, HasBid, Commits
<1>2. ASSUME Sending(q, d), l \in q.due PROVE Covered(d, l)'
  <2>1. CASE l \in lots
    BY <1>2, <2>1, CommitRemembers DEF Covered, Sending
  <2>2. CASE after # NoChange /\ l \in after.due
    <3>1. Sending(after, d) /\ after.wrote
      BY <1>2, <2>2, RowFacts DEF Commits, Continues, Sending, Blacklisting
    <3>2. r \in Changes /\ change'[r] = after
      BY DEF Commits, Changed
    <3> QED
      BY <2>2, <3>1, <3>2 DEF Covered
  <2> QED
    BY <1>2, <2>1, <2>2 DEF Commits, Hands
<1>3. ASSUME NEW p \in Changes, Sending(change[p], d), change[p].wrote, l \in change[p].due
      PROVE  Covered(d, l)'
  <2>1. CASE p = r
    BY <1>2, <1>3, <2>1 DEF Commits
  <2>2. CASE p # r
    <3>1. p \in Changed
      BY <1>3, RowFacts DEF Sending, Blacklisting, Changed
    <3>2. Sending(change'[p], d) /\ SameAs(change[p], change'[p])
      BY <1>3, <2>2, <3>1, Others DEF Commits, Changed
    <3> QED
      BY <1>3, <3>2 DEF Covered, SameAs
  <2> QED
    BY <2>1, <2>2
<1>4. l \in told[d] \/ d \in silent => Covered(d, l)'
  BY CommitRemembers DEF Covered
<1> QED
  BY <1>1, <1>2, <1>3, <1>4 DEF Covered

(* Who is in flight after a commit.                                         *)
LEMMA CommitLeaves ==
    ASSUME PortalInv, NEW r \in Changed, NEW q, NEW after, NEW lots,
           Commits(r, q, after, lots), NEW p \in Changed'
    PROVE  /\ p \in Changed /\ p \in Changes
           /\ change'[p].company = change[p].company
           /\ change'[p].account = change[p].account
           /\ change'[p].cascaded = change[p].cascaded
           /\ change'[p].hit = change[p].hit
           /\ change'[p].bids = change[p].bids
           /\ Blacklisting(change'[p]) <=> Blacklisting(change[p])
           /\ p # r => SameAs(change[p], change'[p]) /\ Alike(change[p], change'[p])
           /\ p = r => after # NoChange /\ change'[p] = after /\ after.wrote
<1>1. p \in Changes /\ change'[p] # NoChange
  BY DEF Changed
<1>2. CASE p = r
  <2>1. after # NoChange /\ change'[p] = after /\ after \in StatusChange
    BY <1>1, <1>2 DEF Commits
  <2>2. after.op = "status" /\ q.op = "status"
    BY <2>1, RowFacts, ChangeFacts DEF Commits
  <2>3. Blacklisting(after) <=> Blacklisting(q)
    BY <2>1, <2>2 DEF Commits, Continues, Blacklisting
  <2> QED
    BY <1>1, <1>2, <2>1, <2>3 DEF Commits, Continues
<1>3. CASE p # r
  <2>1. r \in Changes /\ OnlyOf(r)
    BY DEF Commits, Changed
  <2>2. Alike(change[p], change'[p])
    BY <1>1, <1>3, <2>1 DEF OnlyOf
  <2>3. p \in Changed /\ SameAs(change[p], change'[p])
        /\ (Blacklisting(change'[p]) <=> Blacklisting(change[p]))
    BY <1>1, <1>3, <2>1, Others
  <2> QED
    BY <1>1, <1>3, <2>2, <2>3 DEF SameAs
<1> QED
  BY <1>2, <1>3

LEMMA CommitForms ==
    ASSUME PortalInv, NEW r \in Changed, NEW q, NEW after, NEW lots,
           Commits(r, q, after, lots), lots \subseteq Lots,
           company' \in [Companies -> {Unknown} \cup KnownRow],
           enabled' \in [Companies -> BOOLEAN],
           bid' \in [Companies -> [Lots -> {"none", "SUBMITTED", "DISQUALIFIED"}]],
           inbox' \in [Companies -> [Lots -> {"none", "unread", "read"}]],
           \A d \in Companies, l \in Lots : inbox[d][l] # "none" => inbox'[d][l] # "none",
           \A l \in lots : inbox'[q.company][l] # "none"
    PROVE  PortalType' /\ Staged' /\ Noticed'
<1>1. /\ Known' = Known /\ UNCHANGED <<name, upload>>
      /\ change' \in [Changes -> {NoChange} \cup StatusChange]
  BY DEF Commits, OnlyOf
<1>2. \A d \in Known : Namesakes(d)' = Namesakes(d)
  BY <1>1 DEF Namesakes
<1>3. \A p \in Changed' : /\ change'[p].company \in Known
                          /\ change'[p].account \in Namesakes(change'[p].company)
  BY CommitLeaves, ChangeFacts
<1>5. UploadOk'
  <2>1. upload # NoUpload => upload.company \in Companies
    BY DEF PortalInv, PortalType, UploadOk, Known
  <2> QED
    BY <1>1, <2>1 DEF PortalInv, PortalType, UploadOk, Commits
<1>6. PortalType'
  <2>1. name' \in [Companies -> Names] /\ told' \in [Companies -> SUBSET Lots]
    BY <1>1, CommitRemembers DEF PortalInv, PortalType
  <2> QED
    BY <1>1, <1>2, <1>3, <1>5, <2>1 DEF PortalType
<1>7. Staged'
  <2>1. ASSUME NEW p \in Changed'
        PROVE  /\ change'[p].cascaded => Blacklisting(change'[p])
               /\ ~change'[p].cascaded => change'[p].hit = {} /\ change'[p].due = {}
               /\ change'[p].wrote /\ Blacklisting(change'[p]) => change'[p].cascaded
    <3>1. CASE p # r
      BY <3>1, CommitLeaves DEF PortalInv, Staged, SameAs
    <3>2. CASE p = r
      <4>1. /\ after # NoChange /\ change'[r] = after
            /\ change'[r].cascaded = change[r].cascaded
            /\ change'[r].hit = change[r].hit
            /\ Blacklisting(change'[r]) <=> Blacklisting(change[r])
        BY <3>2, CommitLeaves
      <4>2. Blacklisting(change[r]) => change[r].cascaded
        BY DEF Commits
      <4>3. after.due \subseteq change[r].due
        BY <4>1 DEF Commits, Continues
      <4> QED
        BY <3>2, <4>1, <4>2, <4>3 DEF PortalInv, Staged
    <3> QED
      BY <3>1, <3>2
  <2> QED
    BY <2>1 DEF Staged
<1>8. Noticed'
  BY CommitRemembers DEF PortalInv, Noticed
<1> QED
  BY <1>6, <1>7, <1>8

LEMMA FirstCommit ==
    ASSUME PortalInv, NEW r \in Changed, NEW q, NEW after, NEW lots,
           Commits(r, q, after, lots), lots \subseteq Lots, ~q.wrote, Stores(r, q),
           inbox' \in [Companies -> [Lots -> {"none", "unread", "read"}]],
           \A d \in Companies, l \in Lots : inbox[d][l] # "none" => inbox'[d][l] # "none",
           \A l \in lots : inbox'[q.company][l] # "none"
    PROVE  PortalInv'
<1> DEFINE c == q.company
<1>1. /\ r \in Changes /\ q = change[r] /\ q \in StatusChange /\ c \in Known /\ c \in Companies
      /\ q.account \in Companies /\ q.account \in Known /\ q.account \in Namesakes(c)
      /\ \A d : Sending(q, d) <=> q.company = d /\ q.cascaded
  BY ChangeFacts DEF Commits
<1>2. Blacklisting(q) => q.cascaded
  BY DEF Commits
<1>3. /\ Known' = Known /\ name' = name
      /\ \A d \in Known : Namesakes(d)' = Namesakes(d)
  BY DEF Commits, Namesakes
<1>4. PortalType' /\ Staged' /\ Noticed'
  BY CommitForms DEF Stores
<1>5. \A p \in Changed : Blacklisting(change[p]) /\ change[p].company = c => ~Cleared(c)
  BY DEF Cleared, InFlight, Changed
<1>6. company'[c].blacklisted => ~Cleared(c)
  BY DEF Cleared
<1>7. \A d \in Companies, l \in Lots :
          bid'[d][l] = "SUBMITTED" => bid[d][l] = "SUBMITTED" /\ (d = c => l \notin q.hit)
  BY <1>1 DEF Stores
<1>8. ASSUME NEW l \in Lots, Blacklisting(q), Owed(c, l) PROVE Covered(c, l)'
  <2>1. Covered(c, l) \/ Foreseen(q, c, l)
    BY <1>1, <1>8 DEF PortalInv, Pending
  <2>2. ~Cleared(c) /\ q.cascaded
    BY <1>1, <1>2, <1>5, <1>8
  <2> QED
    BY <1>1, <2>1, <2>2, CommitKeeps DEF Foreseen
<1>9. UpToDate'
  <2>1. ASSUME NEW p \in Changed', ~change'[p].wrote, ~change'[p].overtaken
        PROVE  /\ change'[p].was = company'[change'[p].company]
               /\ change'[p].active = enabled'[change'[p].account]
    <3>1. /\ p # r /\ p \in Changed /\ p \in Changes
          /\ SameAs(change[p], change'[p]) /\ Alike(change[p], change'[p])
      BY <2>1, CommitLeaves
    <3>2. change[p] \in StatusChange /\ change[p].company \in Companies /\ change[p].account \in Companies
      BY <3>1, ChangeFacts
    <3>3. change'[p] = change[p]
      BY <2>1, <3>1, <3>2 DEF Alike, StatusChange
    <3>4. change[p].company # c /\ change[p].account # q.account
      BY <2>1, <3>1, <3>3 DEF Stores
    <3>5. change[p].was = company[change[p].company] /\ change[p].active = enabled[change[p].account]
      BY <2>1, <3>1, <3>3 DEF PortalInv, UpToDate
    <3> QED
      BY <3>2, <3>3, <3>4, <3>5 DEF Stores
  <2> QED
    BY <2>1 DEF UpToDate
<1>10. Pending'
  <2>1. ASSUME NEW p \in Changed', NEW d \in Companies, NEW l \in Lots,
               change'[p].company = d, Blacklisting(change'[p]), Owed(d, l)'
        PROVE  Covered(d, l)' \/ Foreseen(change[p], d, l)'
    <3>1. p \in Changed /\ Blacklisting(change[p]) /\ change[p].company = d
      BY <2>1, CommitLeaves
    <3>2. d # c \/ ~Cleared(c)
      BY <1>5, <3>1
    <3>3. Owed(d, l) /\ (Covered(d, l) => Covered(d, l)')
      BY <2>1, <3>2, CommitKeeps
    <3>4. Covered(d, l) \/ Foreseen(change[p], d, l)
      BY <3>1, <3>3 DEF PortalInv, Pending
    <3>5. CASE p = r
      BY <1>1, <1>8, <3>1, <3>3, <3>5
    <3>6. CASE p # r /\ Foreseen(change[p], d, l)
      <4>1. SameAs(change[p], change'[p])
        BY <3>6, CommitLeaves
      <4>2. CASE bid'[d][l] = bid[d][l]
        BY <3>6, <4>1, <4>2 DEF Foreseen, SameAs
      <4>3. CASE bid'[d][l] # bid[d][l]
        <5>1. d = c /\ l \in q.hit
          BY <4>3 DEF Stores
        <5>2. Blacklisting(q)
          BY <1>1, <5>1 DEF PortalInv, Staged
        <5> QED
          BY <1>8, <3>3, <5>1, <5>2
      <4> QED
        BY <4>2, <4>3
    <3> QED
      BY <3>3, <3>4, <3>5, <3>6
  <2> QED
    BY <2>1 DEF Pending
<1>11. Taken'
  <2>1. ASSUME NEW p \in Changed', NEW l \in Lots
        PROVE  /\ l \in change'[p].hit => bid'[change'[p].company][l] # "none"
               /\ change'[p].cascaded /\ ~change'[p].wrote
                    /\ bid'[change'[p].company][l] = "SUBMITTED" =>
                  l \in change'[p].hit \/ <<change'[p].company, l>> \in late'
    <3>1. /\ p \in Changed /\ change[p].company \in Companies
          /\ change'[p].company = change[p].company /\ change'[p].hit = change[p].hit
          /\ change'[p].cascaded = change[p].cascaded
      BY CommitLeaves, ChangeFacts
    <3>2. l \in change[p].hit => bid'[change[p].company][l] # "none"
      BY <3>1 DEF PortalInv, Taken, Commits
    <3>3. ASSUME change[p].cascaded, ~change'[p].wrote, bid'[change[p].company][l] = "SUBMITTED"
          PROVE  l \in change[p].hit \/ <<change[p].company, l>> \in late'
      <4>1. ~change[p].wrote
        BY <3>3, CommitLeaves DEF SameAs
      <4>2. l \in change[p].hit \/ <<change[p].company, l>> \in late
        BY <1>7, <3>1, <3>3, <4>1 DEF PortalInv, Taken
      <4>3. change[p].company # c \/ ~Cleared(c)
        BY <1>5, <3>1, <3>3 DEF PortalInv, Staged
      <4> QED
        BY <3>1, <4>2, <4>3, CommitRemembers
    <3> QED
      BY <3>1, <3>2, <3>3
  <2> QED
    BY <2>1 DEF Taken
<1>12. Barred'
  <2>1. ASSUME NEW d \in Companies, NEW l \in Lots,
               company'[d].blacklisted, bid'[d][l] = "SUBMITTED"
        PROVE  <<d, l>> \in late'
    <3>1. bid[d][l] = "SUBMITTED" /\ (d = c => l \notin q.hit)
      BY <1>7, <2>1
    <3>2. d # c \/ ~Cleared(c)
      BY <1>6, <2>1
    <3>3. CASE company[d].blacklisted
      BY <3>1, <3>2, <3>3, CommitRemembers DEF PortalInv, Barred
    <3>4. CASE ~company[d].blacklisted
      <4>1. d = c
        BY <2>1, <3>4 DEF Stores
      <4>2. q.want.blacklisted /\ ~q.was.blacklisted
        <5>1. q.was.blacklisted \in BOOLEAN /\ q.want.blacklisted \in BOOLEAN
          BY <1>1 DEF StatusChange, KnownRow
        <5> QED
          BY <2>1, <3>4, <4>1, <5>1 DEF Stores
      <4>3. q.cascaded
        BY <1>1, <1>2, <4>2, RowFacts DEF Blacklisting
      <4>4. <<d, l>> \in late
        BY <1>1, <3>1, <4>1, <4>3 DEF PortalInv, Taken
      <4> QED
        BY <3>2, <4>4, CommitRemembers
    <3> QED
      BY <3>3, <3>4
  <2> QED
    BY <2>1 DEF Barred
<1>13. Informed'
  <2>1. ASSUME NEW d \in Companies, NEW l \in Lots, company'[d].blacklisted, Owed(d, l)'
        PROVE  Covered(d, l)'
    <3>1. d # c \/ ~Cleared(c)
      BY <1>6, <2>1
    <3>2. Owed(d, l) /\ (Covered(d, l) => Covered(d, l)')
      BY <2>1, <3>1, CommitKeeps
    <3>3. CASE company[d].blacklisted
      BY <3>2, <3>3 DEF PortalInv, Informed
    <3>4. CASE ~company[d].blacklisted
      <4>1. d = c
        BY <2>1, <3>4 DEF Stores
      <4>2. q.want.blacklisted /\ ~q.was.blacklisted
        <5>1. q.was.blacklisted \in BOOLEAN /\ q.want.blacklisted \in BOOLEAN
          BY <1>1 DEF StatusChange, KnownRow
        <5> QED
          BY <2>1, <3>4, <4>1, <5>1 DEF Stores
      <4>3. Blacklisting(q)
        BY <1>1, <4>2, RowFacts DEF Blacklisting
      <4> QED
        BY <1>8, <3>2, <4>1, <4>3
    <3> QED
      BY <3>3, <3>4
  <2> QED
    BY <2>1 DEF Informed
<1>14. InStep'
  <2>1. ASSUME NEW d \in Known, Namesakes(d) = {d}, d \notin slipped'
        PROVE  enabled'[d] <=> company'[d].status = "ACTIVE"
    <3>1. d \in Companies
      BY DEF Known
    <3>2. CASE d # c /\ d # q.account
      <4>1. d \notin slipped
        BY <2>1, <3>2 DEF Stores
      <4> QED
        BY <2>1, <3>1, <3>2, <4>1 DEF PortalInv, InStep, Stores
    <3>3. CASE d = c \/ d = q.account
      <4>1. d = c /\ d = q.account
        BY <1>1, <2>1, <3>3 DEF Namesakes
      <4>2. /\ q.was.status \in {"ACTIVE", "INACTIVE"} /\ q.want.status \in {"ACTIVE", "INACTIVE"}
            /\ q.active \in BOOLEAN
        BY <1>1 DEF StatusChange, KnownRow
      <4>3. ~q.overtaken => q.was = company[d] /\ q.active = enabled[d]
        BY <1>1, <4>1 DEF PortalInv, UpToDate
      <4>4. q.overtaken => q.was.status # q.want.status /\ q.active # (q.want.status = "ACTIVE")
        BY <2>1, <4>1 DEF Stores
      <4>5. /\ company'[d].status =
                (IF q.was.status = q.want.status THEN company[d].status ELSE q.want.status)
            /\ enabled'[d] = (IF q.active = (q.want.status = "ACTIVE")
                              THEN enabled[d] ELSE q.want.status = "ACTIVE")
        BY <4>1 DEF Stores
      <4>6. company'[d].status = q.want.status
        BY <4>3, <4>4, <4>5
      <4>7. enabled'[d] = (q.want.status = "ACTIVE")
        BY <4>3, <4>4, <4>5
      <4> QED
        BY <4>6, <4>7
    <3> QED
      BY <3>2, <3>3
  <2> QED
    BY <1>3, <2>1 DEF InStep
<1> QED
  BY <1>4, <1>9, <1>10, <1>11, <1>12, <1>13, <1>14 DEF PortalInv

LEMMA LaterCommit ==
    ASSUME PortalInv, NEW r \in Changed, NEW q, NEW after, NEW lots,
           Commits(r, q, after, lots), lots \subseteq Lots,
           UNCHANGED <<company, enabled, bid, slipped>>,
           \A p \in Changes : p # r => change'[p] = change[p],
           inbox' \in [Companies -> [Lots -> {"none", "unread", "read"}]],
           \A d \in Companies, l \in Lots : inbox[d][l] # "none" => inbox'[d][l] # "none",
           \A l \in lots : inbox'[q.company][l] # "none"
    PROVE  PortalInv'
<1>1. /\ Known' = Known /\ name' = name
      /\ \A d \in Known : Namesakes(d)' = Namesakes(d)
      /\ ~Cleared(q.company)
  BY DEF Commits, Namesakes, Cleared
<1>2. PortalType' /\ Staged' /\ Noticed'
  BY CommitForms DEF PortalInv, PortalType
<1>3. \A d \in Companies, l \in Lots :
          /\ Owed(d, l)' => Owed(d, l)
          /\ Covered(d, l) => Covered(d, l)'
          /\ <<d, l>> \in late => <<d, l>> \in late'
  BY <1>1, CommitKeeps, CommitRemembers
<1>4. UpToDate'
  BY CommitLeaves DEF PortalInv, UpToDate
<1>5. Taken'
  <2>1. ASSUME NEW p \in Changed', NEW l \in Lots
        PROVE  /\ l \in change'[p].hit => bid[change'[p].company][l] # "none"
               /\ change'[p].cascaded /\ ~change'[p].wrote
                    /\ bid[change'[p].company][l] = "SUBMITTED" =>
                  l \in change'[p].hit \/ <<change'[p].company, l>> \in late'
    <3>1. /\ p \in Changed /\ change[p].company \in Companies
          /\ change'[p].company = change[p].company /\ change'[p].hit = change[p].hit
          /\ change'[p].cascaded = change[p].cascaded
          /\ ~change'[p].wrote => ~change[p].wrote
      BY CommitLeaves, ChangeFacts DEF SameAs
    <3> QED
      BY <1>3, <3>1 DEF PortalInv, Taken
  <2> QED
    BY <2>1 DEF Taken
<1>6. Pending'
  <2>1. ASSUME NEW p \in Changed', NEW d \in Companies, NEW l \in Lots,
               change'[p].company = d, Blacklisting(change'[p]), Owed(d, l)'
        PROVE  Covered(d, l)' \/ Foreseen(change[p], d, l)'
    <3>1. p \in Changed /\ Blacklisting(change[p]) /\ change[p].company = d /\ p \in Changes
      BY <2>1, CommitLeaves
    <3>2. Covered(d, l) \/ Foreseen(change[p], d, l)
      BY <1>3, <2>1, <3>1 DEF PortalInv, Pending
    <3>3. CASE p = r
      <4>1. q = change[r] /\ q.cascaded /\ Sending(q, d)
        BY <3>1, <3>3 DEF Commits, Sending
      <4> QED
        BY <1>1, <1>3, <3>2, <3>3, <4>1, CommitKeeps DEF Foreseen
    <3>4. CASE p # r
      BY <1>3, <3>1, <3>2, <3>4 DEF Foreseen
    <3> QED
      BY <3>3, <3>4
  <2> QED
    BY <2>1 DEF Pending
<1>7. Barred' /\ Informed' /\ InStep'
  BY <1>1, <1>3 DEF PortalInv, Barred, Informed, InStep
<1> QED
  BY <1>2, <1>4, <1>5, <1>6, <1>7 DEF PortalInv

LEMMA BidsStay ==
    ASSUME PortalInv, NEW r \in Changed, NEW q, q = change[r], Stores(r, q)
    PROVE  \A d \in Companies, l \in Lots : bid'[d][l] = "none" <=> bid[d][l] = "none"
<1> SUFFICES ASSUME NEW d \in Companies, NEW l \in Lots
             PROVE  bid'[d][l] = "none" <=> bid[d][l] = "none"
  OBVIOUS
<1>1. l \in q.hit => bid[q.company][l] # "none"
  BY DEF PortalInv, Taken
<1>2. CASE d # q.company
  BY <1>2 DEF Stores
<1>3. CASE d = q.company
  BY <1>1, <1>3 DEF Stores
<1> QED
  BY <1>2, <1>3

LEMMA SendStep ==
    ASSUME PortalInv, NEW r \in Changes, NEW l \in Lots, Send(r, l)
    PROVE  PortalInv'
<1>1. PICK q : q = change[r]
  OBVIOUS
<1> DEFINE after == [q EXCEPT !.due = @ \ {l}, !.wrote = TRUE]
<1>2. /\ q.op = "status" /\ l \in q.due
      /\ inbox' = [inbox EXCEPT ![q.company][l] = "unread"]
      /\ Remember(q.company, {l}) /\ UNCHANGED <<name, upload>>
      /\ q.wrote => /\ change' = [change EXCEPT ![r] = after]
                    /\ UNCHANGED <<company, enabled, bid, slipped>>
      /\ ~q.wrote => Write(r, after)
  BY <1>1 DEF Send
<1>3. r \in Changed /\ q \in StatusChange /\ q.company \in Companies
  BY <1>1, <1>2, RowFacts, ChangeFacts DEF Changed
<1>4. /\ after \in StatusChange /\ after.op = "status"
      /\ after.company = q.company /\ after.was = q.was /\ after.want = q.want
      /\ after.account = q.account /\ after.active = q.active /\ after.bids = q.bids
      /\ after.cascaded = q.cascaded /\ after.hit = q.hit
      /\ after.due = q.due \ {l} /\ after.wrote
  BY <1>3 DEF StatusChange
<1> HIDE DEF after
<1>5. q.cascaded
  BY <1>1, <1>2, <1>3 DEF PortalInv, Staged
<1>6. /\ inbox' \in [Companies -> [Lots -> {"none", "unread", "read"}]]
      /\ \A d \in Companies, k \in Lots : inbox[d][k] # "none" => inbox'[d][k] # "none"
      /\ inbox'[q.company][l] # "none"
  BY <1>2, <1>3 DEF PortalInv, PortalType
<1>7. Continues(q, after) /\ Hands(q, after, {l}) /\ {l} \subseteq Lots
  <2>1. after # NoChange /\ after.due \subseteq q.due
    BY <1>4, RowFacts
  <2>2. \A k \in q.due : k \in {l} \/ k \in after.due
    BY <1>4
  <2>3. Continues(q, after)
    BY <1>4, <2>1 DEF Continues
  <2>4. Hands(q, after, {l})
    BY <2>1, <2>2 DEF Hands
  <2> QED
    BY <2>3, <2>4
<1>8. CASE q.wrote
  <2>1. /\ change' = [change EXCEPT ![r] = after]
        /\ UNCHANGED <<company, enabled, bid, slipped, name, upload>>
    BY <1>2, <1>8
  <2>2. /\ change' \in [Changes -> {NoChange} \cup StatusChange] /\ change'[r] = after
        /\ \A p \in Changes : p # r => change'[p] = change[p]
    BY <1>4, <2>1 DEF PortalInv, PortalType
  <2>3. OnlyOf(r) /\ Known' = Known
    BY <2>1, <2>2 DEF OnlyOf, Alike, Known
  <2>4. Commits(r, q, after, {l})
    BY <1>1, <1>2, <1>4, <1>5, <1>7, <2>1, <2>2, <2>3 DEF Commits
  <2> QED
    BY <1>3, <1>6, <1>7, <2>1, <2>2, <2>4, LaterCommit
<1>9. CASE ~q.wrote
  <2>1. OnlyOf(r) /\ change'[r] = after /\ Stores(r, q)
    BY <1>1, <1>2, <1>3, <1>4, <1>9, Written
  <2>2. \A d \in Companies, k \in Lots : bid'[d][k] = "none" <=> bid[d][k] = "none"
    BY <1>1, <1>3, <2>1, BidsStay
  <2>3. Commits(r, q, after, {l})
    <3>1. Known' = Known
      BY <2>1 DEF Stores
    <3> QED
      BY <1>1, <1>2, <1>4, <1>5, <1>7, <2>1, <2>2, <3>1 DEF Commits
  <2> QED
    BY <1>3, <1>6, <1>7, <1>9, <2>1, <2>3, FirstCommit
<1> QED
  BY <1>8, <1>9

LEMMA AnswerStep ==
    ASSUME PortalInv, NEW r \in Changes, Answer(r)
    PROVE  PortalInv'
<1>1. PICK q : q = change[r]
  OBVIOUS
<1>2. /\ q.op = "status" /\ q.due = {}
      /\ Blacklisting(q) => q.cascaded
      /\ Remember(q.company, {}) /\ UNCHANGED <<name, upload, inbox>>
      /\ q.wrote => /\ change' = [change EXCEPT ![r] = NoChange]
                    /\ UNCHANGED <<company, enabled, bid, slipped>>
      /\ ~q.wrote => Write(r, NoChange)
  BY <1>1 DEF Answer
<1>3. r \in Changed /\ q \in StatusChange /\ q.company \in Companies
  BY <1>1, <1>2, RowFacts, ChangeFacts DEF Changed
<1>4. inbox' \in [Companies -> [Lots -> {"none", "unread", "read"}]]
  BY <1>2 DEF PortalInv, PortalType
<1>5. Continues(q, NoChange) /\ Hands(q, NoChange, {})
  BY <1>2 DEF Continues, Hands
<1>6. CASE q.wrote
  <2>1. /\ change' = [change EXCEPT ![r] = NoChange]
        /\ UNCHANGED <<company, enabled, bid, slipped, name, upload>>
    BY <1>2, <1>6
  <2>2. /\ change' \in [Changes -> {NoChange} \cup StatusChange] /\ change'[r] = NoChange
        /\ \A p \in Changes : p # r => change'[p] = change[p]
    BY <2>1 DEF PortalInv, PortalType
  <2>3. OnlyOf(r) /\ Known' = Known
    BY <2>1, <2>2 DEF OnlyOf, Alike, Known
  <2>4. Commits(r, q, NoChange, {})
    BY <1>1, <1>2, <1>5, <2>1, <2>2, <2>3 DEF Commits
  <2> QED
    BY <1>2, <1>3, <1>4, <2>1, <2>2, <2>4, LaterCommit
<1>7. CASE ~q.wrote
  <2>1. OnlyOf(r) /\ change'[r] = NoChange /\ Stores(r, q)
    BY <1>1, <1>2, <1>3, <1>7, Written
  <2>2. \A d \in Companies, k \in Lots : bid'[d][k] = "none" <=> bid[d][k] = "none"
    BY <1>1, <1>3, <2>1, BidsStay
  <2>3. Commits(r, q, NoChange, {})
    <3>1. Known' = Known
      BY <2>1 DEF Stores
    <3> QED
      BY <1>1, <1>2, <1>5, <2>1, <2>2, <3>1 DEF Commits
  <2> QED
    BY <1>2, <1>3, <1>4, <1>7, <2>1, <2>3, FirstCommit
<1> QED
  BY <1>6, <1>7

LEMMA PortalStep == PortalInv /\ [PortalNext]_portalVars => PortalInv'
<1> SUFFICES ASSUME PortalInv, [PortalNext]_portalVars PROVE PortalInv'
  OBVIOUS
<1>1. CASE \E c \in Companies : Import(c)
  BY <1>1, ImportStep
<1>2. CASE \E c \in Companies, l \in Lots : SupplierUploads(c, l) \/ AdminUploads(c, l)
  <2>1. PICK c \in Companies, l \in Lots : UploadBegin(c, l)
    BY <1>2 DEF SupplierUploads, AdminUploads, Bidder, Namesakes, Known
  <2> QED
    BY <2>1, UploadBeginStep
<1>3. CASE \E c \in Companies, l \in Lots : Disqualify(c, l)
  BY <1>3, DisqualifyStep
<1>4. CASE UploadCommit
  BY <1>4, UploadCommitStep
<1>5. CASE \/ UploadFails
           \/ \E l \in Lots : Close(l) \/ MarkAllRead(l)
           \/ \E c \in Companies, l \in Lots : MarkRead(c, l)
  BY <1>5, ReadingStep
<1>6. CASE \E r \in Changes, c \in Companies, body \in Bodies : StatusBegin(r, c, body)
  BY <1>6, StatusBeginStep
<1>7. CASE \E r \in Changes : Cascade(r)
  BY <1>7, CascadeStep
<1>8. CASE \E r \in Changes : Answer(r)
  BY <1>8, AnswerStep
<1>9. CASE \E r \in Changes : Dies(r)
  BY <1>9, DiesStep
<1>10. CASE \E r \in Changes, l \in Lots : Send(r, l)
  BY <1>10, SendStep
<1>11. CASE \E a \in Companies, active \in BOOLEAN : SetActive(a, active)
  BY <1>11, SetActiveStep
<1>12. CASE UNCHANGED portalVars
  <2>1. UNCHANGED <<name, company, enabled, bid, upload, change, inbox, told, silent, late, slipped>>
    BY <1>12 DEF portalVars
  <2>2. inbox' \in [Companies -> [Lots -> {"none", "unread", "read"}]] /\ UploadOk'
    BY <2>1 DEF PortalInv, PortalType, UploadOk, Known
  <2> QED
    BY <2>1, <2>2, QuietStep
<1> QED
  BY <1>1, <1>2, <1>3, <1>4, <1>5, <1>6, <1>7, <1>8, <1>9, <1>10, <1>11, <1>12 DEF PortalNext

LEMMA PortalInvariance == PortalSpec => []PortalInv
BY PortalBegins, PortalStep, PTL DEF PortalSpec

-----------------------------------------------------------------------------
(* An account that has a company has its own, and the company is alone      *)
(* under its name.                                                          *)
LEMMA MeIsOwn ==
    ASSUME NEW a \in Known, NEW c \in Me(a)
    PROVE  c = a /\ Namesakes(a) = {a} /\ Me(a) = {a}
<1>1. a \in Namesakes(a) /\ Namesakes(a) \subseteq Companies
  BY DEF Namesakes, Known
<1>2. IsFiniteSet(Namesakes(a))
  BY <1>1, PortalAssumption, FS_Subset DEF PortalAssumption
<1>3. Cardinality(Namesakes(a)) = 1 /\ c \in Namesakes(a) /\ Me(a) = Namesakes(a)
  BY DEF Me
<1>4. PICK x : Namesakes(a) = {x}
  BY <1>2, <1>3, FS_Singleton
<1> QED
  BY <1>1, <1>3, <1>4

LEMMA PagesAreRight == PortalInv => PortalIsRight
<1> SUFFICES ASSUME PortalInv PROVE OfferStands /\ ShownIsOwn
  BY DEF PortalIsRight
<1>1. OfferStands
  <2> SUFFICES ASSUME NEW a \in Known, enabled[a], a \notin slipped,
                      NEW c \in Me(a), NEW l \in Market(a)
               PROVE  \/ Accepted(c, l)
                      \/ company[c] = [blacklisted |-> TRUE, status |-> "ACTIVE"]
    BY DEF OfferStands
  <2>1. c = a /\ Namesakes(a) = {a} /\ Me(a) = {a}
    BY MeIsOwn
  <2>2. l \in Lots /\ lot[l] = "BIDDING" /\ ~HasBid(a, l)
    BY <2>1 DEF Market, Offered
  <2>3. company[a].status = "ACTIVE"
    BY <2>1 DEF PortalInv, InStep
  <2>4. company[a] \in KnownRow
    BY KnownFacts DEF PortalInv, Known
  <2> QED
    BY <2>1, <2>2, <2>3, <2>4 DEF Accepted, Eligible, KnownRow
<1>2. ShownIsOwn
  <2> SUFFICES ASSUME NEW a \in Known, NEW c \in Companies, NEW l \in Lots
               PROVE  (<<c, l>> \in MyBids(a) <=> Opens(a, c, l)) /\ (Opens(a, c, l) => c = a)
    BY DEF ShownIsOwn
  <2>1. Opens(a, c, l) => c = a
    BY MeIsOwn DEF Opens
  <2>2. <<c, l>> \in MyBids(a) <=> Opens(a, c, l)
    BY DEF MyBids, Opens, BidsOf
  <2> QED
    BY <2>1, <2>2
<1> QED
  BY <1>1, <1>2

LEMMA ManagersAreTold == PortalInv => NobodyPassedOver
<1> SUFFICES ASSUME PortalInv, NEW c \in Companies, company[c].blacklisted, c \notin silent,
                    \A r \in Changes : ~Sending(change[r], c),
                    NEW l \in Managed, HasBid(c, l), <<c, l>> \notin late, l \in Lots
             PROVE  l \in told[c] /\ inbox[c][l] # "none" /\ bid[c][l] = "DISQUALIFIED"
  BY PortalAssumption DEF NobodyPassedOver, PortalAssumption
<1>1. l \in told[c]
  BY DEF PortalInv, Informed, Owed, Covered
<1>2. inbox[c][l] # "none"
  BY <1>1 DEF PortalInv, Noticed
<1>3. bid[c][l] = "DISQUALIFIED"
  BY DEF PortalInv, PortalType, Barred, HasBid
<1> QED
  BY <1>1, <1>2, <1>3

(* What the market offers an account can be uploaded at once, and the bids  *)
(* it is shown are its own: however the changes of status in               *)
(* supplier_service overlap with it and with each other.                    *)
THEOREM PortalIsRightHolds == PortalSpec => []PortalIsRight
BY PortalInvariance, PagesAreRight, PTL

(* _notify_blacklist reads the bids of its snapshot and those that the     *)
(* cascade has changed: no manager of a bid of a company that stands        *)
(* blacklisted is left out, but by a request that died or by a late bid.    *)
THEOREM NobodyPassedOverHolds == PortalSpec => []NobodyPassedOver
BY PortalInvariance, ManagersAreTold, PTL

-----------------------------------------------------------------------------
(* The paged lists *)

LEMMA PagedRows == IsFiniteSet(Rows) /\ PageSize \in Nat /\ PageSize > 0 /\ LastTime \in Nat
BY ListingsAssumption

Listed(f) == {r \in Rows : f[r] > 0}
NewerRows(f, t) == {r \in Listed(f) : f[r] > t}

LEMMA NewerIs ==
    ASSUME NEW t
    PROVE  /\ Present = Listed(time)
           /\ Present' = Listed(time')
           /\ Newer(t) = Cardinality(NewerRows(time, t))
           /\ Newer(t)' = Cardinality(NewerRows(time', t))
BY DEF Newer, Present, Listed, NewerRows

LEMMA NewerCounts ==
    ASSUME NEW f, NEW t
    PROVE  /\ IsFiniteSet(NewerRows(f, t)) /\ IsFiniteSet(Listed(f))
           /\ Cardinality(NewerRows(f, t)) \in Nat
           /\ Cardinality(Listed(f)) \in Nat
           /\ Cardinality(NewerRows(f, t)) <= Cardinality(Listed(f))
<1>1. IsFiniteSet(Listed(f))
  BY PagedRows, FS_Subset DEF Listed
<1>2. NewerRows(f, t) \in SUBSET Listed(f)
  BY DEF NewerRows
<1>3. IsFiniteSet(NewerRows(f, t)) /\ Cardinality(NewerRows(f, t)) <= Cardinality(Listed(f))
  BY <1>1, <1>2, FS_Subset
<1> QED
  BY <1>1, <1>3, FS_CardinalityType

(* A row that is alone with its time has the place after the newer ones.     *)
LEMMA AloneInPlace ==
    ASSUME time \in [Rows -> 0..LastTime],
           NEW s \in Present, ~Beside(s)
    PROVE  /\ Places(time[s]) = {Newer(time[s]) + 1}
           /\ Newer(time[s]) \in Nat
           /\ Newer(time[s]) + 1 <= Cardinality(Present)
<1> DEFINE t == time[s]
<1>1. s \in Listed(time) /\ t \in 1..LastTime
  BY PagedRows, NewerIs DEF Listed
<1>2. NewerRows(time, t - 1) = NewerRows(time, t) \cup {s} /\ s \notin NewerRows(time, t)
  <2>1. \A r \in Listed(time) : time[r] \in Int
    BY PagedRows DEF Listed
  <2>2. \A r \in Listed(time) : time[r] = t => r = s
    BY NewerIs DEF Beside
  <2>3. \A r \in Listed(time) : time[r] > t - 1 <=> time[r] > t \/ r = s
    BY <1>1, <2>1, <2>2
  <2> QED
    BY <1>1, <2>1, <2>3 DEF NewerRows
<1>3. Cardinality(NewerRows(time, t - 1)) = Cardinality(NewerRows(time, t)) + 1
  <2>1. IsFiniteSet(NewerRows(time, t))
    BY NewerCounts
  <2> QED
    BY <1>2, <2>1, FS_AddElement
<1>4. Newer(t - 1) = Newer(t) + 1 /\ Newer(t) \in Nat
  BY <1>3, NewerIs, NewerCounts
<1>5. Newer(t - 1) <= Cardinality(Present)
  BY NewerIs, NewerCounts
<1>6. Places(t) = (Newer(t) + 1)..(Newer(t) + 1)
  BY <1>4 DEF Places
<1> QED
  BY <1>4, <1>5, <1>6

(* The page whose window has that place returns the row.                     *)
LEMMA PageHasRow ==
    ASSUME time \in [Rows -> 0..LastTime],
           NEW s \in Present, ~Beside(s),
           NEW n \in Nat, NEW rows \in Pages(n),
           Newer(time[s]) + 1 \in Window(n)
    PROVE  s \in rows
<1> DEFINE t == time[s]
           same == {r \in rows : time[r] = t}
<1>1. t \in 1..LastTime
  BY PagedRows DEF Present
<1>2. rows \subseteq Present
  BY DEF Pages
<1>3. Cardinality(same) = Cardinality(Places(t) \cap Window(n))
  BY <1>1 DEF Pages
<1>4. Places(t) \cap Window(n) = {Newer(t) + 1}
  BY AloneInPlace
<1>5. Cardinality(same) = 1
  BY <1>3, <1>4, FS_Singleton
<1>6. IsFiniteSet(Present)
  BY NewerIs, NewerCounts
<1>7. IsFiniteSet(same)
  BY <1>2, <1>6, FS_Subset
<1>8. PICK r : same = {r}
  BY <1>5, <1>7, FS_Singleton
<1>9. r \in Present /\ r \in rows /\ time[r] = t
  BY <1>2, <1>8
<1>10. r = s
  BY <1>9 DEF Beside
<1> QED
  BY <1>9, <1>10

(* A row that stayed, was not overtaken by the gap of one that left, and has *)
(* not been shown yet stands behind the pages that were read.                *)
NotShown == steady \ (slid \cup tied \cup seen)

PagesInv ==
    /\ time \in [Rows -> 0..LastTime]
    /\ page \in Nat \cup {Done}
    /\ steady \subseteq Present
    /\ page # Done => \A s \in NotShown : Newer(time[s]) >= page * PageSize
    /\ page = Done => NotShown = {}

LEMMA PagesBegin == ListInit => PagesInv
BY PagedRows DEF ListInit, PagesInv, NotShown, Present, Done

(* Who stays in the list, and has no row gone that was ahead, is not moved   *)
(* up.                                                                       *)
LEMMA NotMovedUp ==
    ASSUME NEW f, NEW g, NEW s,
           \A q \in Listed(f) : f[q] > f[s] => q \in Listed(g) /\ g[q] > g[s]
    PROVE  Cardinality(NewerRows(f, f[s])) <= Cardinality(NewerRows(g, g[s]))
<1>1. NewerRows(f, f[s]) \in SUBSET NewerRows(g, g[s])
  BY DEF NewerRows
<1>2. IsFiniteSet(NewerRows(g, g[s]))
  BY NewerCounts
<1> QED
  BY <1>1, <1>2, FS_Subset

(* Rows that come in push the others down ...                                *)
LEMMA RowsCome ==
    ASSUME PagesInv, NEW r \in Rows, Enter(r) \/ Appear(r)
    PROVE  PagesInv'
<1>1. PICK t \in 1..LastTime : time' = [time EXCEPT ![r] = t]
  BY DEF Enter, Appear
<1>2. /\ r \notin Listed(time)
      /\ UNCHANGED <<page, seen, steady, slid, tied>>
  BY NewerIs DEF Enter, Appear
<1>3. time' \in [Rows -> 0..LastTime]
  BY <1>1, PagedRows DEF PagesInv
<1>4. Listed(time) \subseteq Listed(time') /\ \A s \in Listed(time) : time'[s] = time[s]
  BY <1>1, <1>2, PagedRows DEF PagesInv, Listed
<1>5. ASSUME NEW s \in NotShown', page' # Done
      PROVE  Newer(time[s])' >= page' * PageSize
  <2>1. s \in NotShown /\ s \in Listed(time)
    BY <1>2, <1>5, NewerIs DEF NotShown, PagesInv
  <2>2. Newer(time[s]) >= page * PageSize /\ page \in Nat
    BY <1>2, <1>5, <2>1 DEF PagesInv
  <2>3. Cardinality(NewerRows(time, time[s])) <= Cardinality(NewerRows(time', time'[s]))
    BY <1>4, <2>1, NotMovedUp
  <2>4. /\ Newer(time[s]) = Cardinality(NewerRows(time, time[s]))
        /\ Newer(time[s])' = Cardinality(NewerRows(time', time'[s]))
    BY DEF Newer, Present, Listed, NewerRows
  <2> QED
    BY <1>2, <2>2, <2>3, <2>4, PagedRows, NewerCounts
<1>6. (steady \subseteq Present)'
  BY <1>2, <1>4, NewerIs DEF PagesInv
<1>7. NotShown' = NotShown
  BY <1>2 DEF NotShown
<1>8. Done' = Done
  BY DEF Done
<1> QED
  BY <1>2, <1>3, <1>5, <1>6, <1>7, <1>8 DEF PagesInv

(* ... and one that leaves pulls up only those behind it.                    *)
LEMMA RowLeaves ==
    ASSUME PagesInv, NEW r \in Rows, Leave(r)
    PROVE  PagesInv'
<1>1. /\ r \in Listed(time) /\ time' = [time EXCEPT ![r] = 0]
      /\ steady' = steady \ {r} /\ tied' = tied \ {r}
      /\ slid' = {s \in steady' : s \in slid \/ time[s] <= time[r]}
      /\ UNCHANGED <<page, seen>>
  BY NewerIs DEF Leave
<1>2. time' \in [Rows -> 0..LastTime]
  BY <1>1, PagedRows DEF PagesInv
<1>3. Listed(time') = Listed(time) \ {r} /\ \A s \in Listed(time') : time'[s] = time[s]
  BY <1>1, PagedRows DEF PagesInv, Listed
<1>4. (steady \subseteq Present)'
  BY <1>1, <1>3, NewerIs DEF PagesInv
<1>5. ASSUME NEW s \in NotShown'
      PROVE  s \in NotShown /\ s \in Listed(time') /\ time[s] > time[r]
  <2>1. s \in steady /\ s # r /\ s \notin slid' /\ s \notin tied /\ s \notin seen
    BY <1>1, <1>5 DEF NotShown
  <2>2. s \in Rows /\ s \in Listed(time') /\ r \in Rows
    BY <1>3, <2>1, NewerIs DEF PagesInv, Listed
  <2>3. s \notin slid /\ ~(time[s] <= time[r])
    BY <1>1, <2>1
  <2>4. time[s] \in Int /\ time[r] \in Int
    BY <2>2, PagedRows DEF PagesInv
  <2> QED
    BY <2>1, <2>2, <2>3, <2>4 DEF NotShown
<1>6. ASSUME NEW s \in NotShown', page' # Done
      PROVE  Newer(time[s])' >= page' * PageSize
  <2>1. s \in NotShown /\ s \in Listed(time') /\ s \in Listed(time) /\ time[s] > time[r]
    BY <1>3, <1>5
  <2>2. Newer(time[s]) >= page * PageSize /\ page \in Nat
    BY <1>1, <1>6, <2>1 DEF PagesInv
  <2>3. \A q \in Listed(time) : time[q] > time[s] => q \in Listed(time') /\ time'[q] > time'[s]
    <3>1. \A q \in Listed(time) : time[q] \in Int
      BY PagedRows DEF PagesInv, Listed
    <3>2. r \in Listed(time) /\ time[s] \in Int /\ time[r] \in Int
      BY <1>1, <2>1, <3>1
    <3>3. \A q \in Listed(time) : time[q] > time[s] => q # r
      BY <2>1, <3>1, <3>2
    <3> QED
      BY <1>3, <2>1, <3>3
  <2>4. Cardinality(NewerRows(time, time[s])) <= Cardinality(NewerRows(time', time'[s]))
    BY <2>3, NotMovedUp
  <2>5. /\ Newer(time[s]) = Cardinality(NewerRows(time, time[s]))
        /\ Newer(time[s])' = Cardinality(NewerRows(time', time'[s]))
    BY DEF Newer, Present, Listed, NewerRows
  <2> QED
    BY <1>1, <2>2, <2>4, <2>5, PagedRows, NewerCounts
<1>7. Done' = Done
  BY DEF Done
<1> QED
  BY <1>1, <1>2, <1>4, <1>5, <1>6, <1>7 DEF PagesInv

(* Rows that are alone with their time are on the page read, or behind it;   *)
(* behind the last page is none.                                             *)
LEMMA PageTurns ==
    ASSUME PagesInv, Turn
    PROVE  PagesInv'
<1>1. page \in Nat
  BY DEF Turn, PagesInv
<1> DEFINE n == page + 1
<1>2. PICK rows \in Pages(n) : seen' = seen \cup rows
  BY DEF Turn
<1>3. /\ page' = IF n * PageSize < Cardinality(Present) THEN n ELSE Done
      /\ steady' = IF page = 0 THEN Present ELSE steady
      /\ tied' = tied \cup {r \in steady' : Beside(r)}
      /\ UNCHANGED <<time, slid>>
  BY DEF Turn
<1>4. Present' = Present /\ Done' = Done
  BY <1>3 DEF Present, Done
<1>5. steady' \subseteq Present
  BY <1>3 DEF PagesInv
<1>6. ASSUME NEW s \in NotShown'
      PROVE  /\ Newer(time[s]) \in Nat
             /\ Newer(time[s]) >= n * PageSize
             /\ Newer(time[s]) + 1 <= Cardinality(Present)
  <2>1. s \in Present /\ ~Beside(s) /\ s \notin rows
    BY <1>2, <1>3, <1>5, <1>6 DEF NotShown
  <2> DEFINE k == Newer(time[s])
  <2>2. k \in Nat /\ k + 1 <= Cardinality(Present)
    BY <2>1, AloneInPlace DEF PagesInv
  <2>3. k >= page * PageSize
    <3>1. CASE page = 0
      BY <2>2, <3>1, PagedRows
    <3>2. CASE page # 0
      <4>1. s \in NotShown
        BY <1>2, <1>3, <1>6, <3>2 DEF NotShown
      <4> QED
        BY <1>1, <4>1 DEF PagesInv, Done
    <3> QED
      BY <3>1, <3>2
  <2>4. k + 1 \notin Window(n)
    BY <1>1, <2>1, PageHasRow DEF PagesInv
  <2>5. Window(n) = (page * PageSize + 1)..(page * PageSize + PageSize)
    BY <1>1 DEF Window, Offset
  <2>6. page * PageSize \in Nat /\ n * PageSize = page * PageSize + PageSize
    BY <1>1, PagedRows
  <2> HIDE DEF k
  <2>7. k >= n * PageSize
    BY <2>2, <2>3, <2>4, <2>5, <2>6, PagedRows
  <2> QED
    BY <2>2, <2>7 DEF k
<1>7. ASSUME page' = Done
      PROVE  NotShown' = {}
  <2>1. ~(n * PageSize < Cardinality(Present))
    BY <1>1, <1>3, <1>7 DEF Done
  <2>2. n * PageSize \in Nat /\ Cardinality(Present) \in Nat
    BY <1>1, PagedRows, NewerIs, NewerCounts
  <2> QED
    BY <1>6, <2>1, <2>2
<1>8. ASSUME page' # Done, NEW s \in NotShown'
      PROVE  Newer(time[s])' >= page' * PageSize
  <2>1. page' = n
    BY <1>3, <1>8
  <2>2. Newer(time[s])' = Newer(time[s])
    BY <1>3 DEF Newer, Present
  <2> QED
    BY <1>6, <2>1, <2>2
<1>9. page' \in Nat \cup {Done}
  BY <1>1, <1>3
<1> QED
  BY <1>3, <1>4, <1>5, <1>7, <1>8, <1>9 DEF PagesInv

LEMMA PagesStep ==
    ASSUME PagesInv, [ListNext]_listVars
    PROVE  PagesInv'
<1>1. CASE UNCHANGED listVars
  BY <1>1 DEF listVars, PagesInv, NotShown, Newer, Present, Done
<1>2. CASE Leaf
  BY <1>2 DEF Leaf, PagesInv, NotShown, Present, Done
<1>3. CASE Turn
  BY <1>3, PageTurns
<1>4. ASSUME NEW r \in Rows, Enter(r) \/ Appear(r) \/ Leave(r)
      PROVE  PagesInv'
  BY <1>4, RowsCome, RowLeaves
<1> QED
  BY <1>1, <1>2, <1>3, <1>4 DEF ListNext

(* Whoever turns all the pages of a list (the queries with ORDER BY, LIMIT   *)
(* and OFFSET) is shown every row that was in it all the time, unless a row  *)
(* ahead of it left or another has its time; whatever the length of a page.  *)
THEOREM PagesMissNothingHolds == ListSpec => []PagesMissNothing
<1>1. ListInit => PagesInv
  BY PagesBegin
<1>2. PagesInv /\ [ListNext]_listVars => PagesInv'
  BY PagesStep
<1>3. PagesInv => PagesMissNothing
  BY DEF PagesInv, NotShown, PagesMissNothing
<1> QED
  BY <1>1, <1>2, <1>3, PTL DEF ListSpec
=============================================================================
