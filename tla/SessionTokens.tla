--------------------------- MODULE SessionTokens ---------------------------
(***************************************************************************)
(* The sessions of one user: a login issues a refresh token; a refresh     *)
(* consumes the token it presents and issues the next one; a token         *)
(* presented again after it was consumed revokes all tokens of the user.   *)
(* Tokens are numbered in the order in which they are issued and expire in *)
(* that order; a browser, its other tabs and whoever kept an old token are *)
(* all requests that present some token.                                   *)
(*                                                                         *)
(* The marks are in Redis, whose every failure is passed over in favour of *)
(* the request, and which may lose its keys.                               *)
(***************************************************************************)
EXTENDS Integers, FiniteSets

CONSTANTS
    Requests,       \* requests in flight together
    MaxTokens,      \* bound: tokens issued
    MaxOutages      \* bound: times Redis stops answering

ASSUME SessionAssumption ==
    MaxTokens \in Nat /\ MaxOutages \in Nat

VARIABLES
    redis,          \* whether Redis answers
    outages,        \* how often it has stopped
    issued,         \* tokens issued so far
    expired,        \* of these, how many have expired
    mark,           \* refresh:user:{user}:{jti} per token
    revoked,        \* refresh:revoke:{user}
    cut,            \* tokens issued when revoked was last set
    req,            \* requests in flight
    parent,         \* history: the token a token was issued for, 0 at login
    loose           \* history: tokens used while Redis failed, or lost by it

redisVars == <<redis, outages>>
keys == <<mark, revoked, cut>>
tokens == <<issued, expired, parent, loose>>
vars == <<redisVars, keys, req, tokens>>

-----------------------------------------------------------------------------
Tokens == 1..MaxTokens
ByLogin == 0

Idle == [op |-> "idle"]

(* blind: Redis did not answer the request; after: the tokens issued       *)
(* before the revocation in force when it began; found: the keys the scan  *)
(* of a revocation will return.                                            *)
Refreshing == {"check", "consume", "issue"}

RefreshRequest == [op: Refreshing, token: Tokens, blind: BOOLEAN, after: 0..MaxTokens]

RevokeRequest == [op: {"revoke"}] \cup [op: {"clear"}, found: SUBSET Tokens]

LoginRequest == [op: {"login"}]

TypeOK ==
    /\ redis \in BOOLEAN /\ revoked \in BOOLEAN
    /\ outages \in 0..MaxOutages
    /\ issued \in 0..MaxTokens /\ expired \in 0..issued /\ cut \in 0..issued
    /\ mark \in [Tokens -> {"none", "1", "USED"}]
    /\ req \in [Requests -> {Idle} \cup RefreshRequest \cup RevokeRequest \cup LoginRequest]
    /\ parent \in [Tokens -> 0..MaxTokens]
    /\ loose \subseteq Tokens

Init ==
    /\ redis = TRUE /\ outages = 0
    /\ issued = 0 /\ expired = 0
    /\ mark = [t \in Tokens |-> "none"]
    /\ revoked = FALSE /\ cut = 0
    /\ req = [q \in Requests |-> Idle]
    /\ parent = [t \in Tokens |-> ByLogin]
    /\ loose = {}

-----------------------------------------------------------------------------
Goes(q, state) == req' = [req EXCEPT ![q] = state]

(* A new token is registered; where Redis fails it stays without a mark. *)
IssueToken(of) ==
    /\ issued < MaxTokens
    /\ issued' = issued + 1
    /\ parent' = [parent EXCEPT ![issued + 1] = of]
    /\ mark' = IF redis THEN [mark EXCEPT ![issued + 1] = "1"] ELSE mark
    /\ UNCHANGED <<redisVars, revoked, cut, expired, loose>>

-----------------------------------------------------------------------------
(* POST /auth/refresh *)

(* The token is valid and its user exists and is enabled. *)
RefreshBegin(q, t) ==
    /\ req[q] = Idle
    /\ t \in (expired + 1)..issued
    /\ Goes(q, [op |-> "check", token |-> t, blind |-> FALSE,
                after |-> IF revoked THEN cut ELSE 0])
    /\ UNCHANGED <<redisVars, keys, tokens>>

(* Redis does not answer: the token is exchanged unseen. *)
Unseen(r) == [op |-> "issue", token |-> r.token, blind |-> TRUE, after |-> r.after]

(* Mutant: a revocation is only found by the marks it cleared.             *)
RefusedByMark(q) == mark[req[q].token] = "USED"

Refused(q) == revoked

(* _consume_refresh_token: is the user revoked? *)
Check(q) ==
    /\ req[q].op = "check"
    /\ IF redis
       THEN /\ Goes(q, IF Refused(q) THEN Idle ELSE [req[q] EXCEPT !.op = "consume"])
            /\ UNCHANGED loose
       ELSE /\ Goes(q, Unseen(req[q]))
            /\ loose' = loose \cup {req[q].token}
    /\ UNCHANGED <<redisVars, keys, issued, expired, parent>>

UsedMark(t) == [mark EXCEPT ![t] = "USED"]

(* SET key USED GET.  A token without a mark passes: it may never have     *)
(* been registered.                                                        *)
Consume(q) ==
    /\ req[q].op = "consume"
    /\ LET t == req[q].token
       IN  IF redis
           THEN /\ mark' = UsedMark(t)
                /\ Goes(q, IF mark[t] = "USED" THEN [op |-> "revoke"]
                           ELSE [req[q] EXCEPT !.op = "issue"])
                /\ UNCHANGED loose
           ELSE /\ Goes(q, Unseen(req[q]))
                /\ loose' = loose \cup {t}
                /\ UNCHANGED mark
    /\ UNCHANGED <<redisVars, revoked, cut, issued, expired, parent>>

Issue(q) ==
    /\ req[q].op = "issue"
    /\ IssueToken(req[q].token)
    /\ Goes(q, Idle)

(* _revoke_all_refresh: the mark of the user, ... *)
Revoke(q) ==
    /\ req[q].op = "revoke"
    /\ IF redis
       THEN /\ revoked' = TRUE /\ cut' = issued
            /\ Goes(q, [op |-> "clear", found |-> {t \in Tokens : mark[t] # "none"}])
       ELSE /\ Goes(q, Idle)
            /\ UNCHANGED <<revoked, cut>>
    /\ UNCHANGED <<redisVars, mark, tokens>>

(* ... then the keys of its tokens; the scan returns those that were there *)
(* all along and any of the later ones.                                    *)
Clear(q, gone) ==
    /\ req[q].op = "clear"
    /\ redis => req[q].found \subseteq gone
    /\ mark' = IF redis THEN [t \in Tokens |-> IF t \in gone THEN "none" ELSE mark[t]] ELSE mark
    /\ Goes(q, Idle)
    /\ UNCHANGED <<redisVars, revoked, cut, tokens>>

-----------------------------------------------------------------------------
(* POST /auth/login *)

(* The limiter lets the attempt pass (or the request is over), and the     *)
(* password is right and the user enabled.                                 *)
LoginBegin(q) ==
    /\ req[q] = Idle
    /\ Goes(q, [op |-> "login"])
    /\ UNCHANGED <<redisVars, keys, tokens>>

(* The token of a login; a revocation stays in force. *)
LoginIssue(q) ==
    /\ req[q].op = "login"
    /\ IssueToken(ByLogin)
    /\ Goes(q, Idle)

-----------------------------------------------------------------------------
(* Time and Redis *)

TokenExpires ==
    /\ expired < issued
    /\ expired' = expired + 1
    /\ UNCHANGED <<redisVars, keys, req, issued, parent, loose>>

(* A revocation lives as long as a token issued at the same moment, for    *)
(* days, and so longer than the requests that clear the keys.              *)
RevocationExpires ==
    /\ revoked /\ expired >= cut
    /\ \A q \in Requests : req[q].op # "clear"
    /\ revoked' = FALSE
    /\ UNCHANGED <<redisVars, mark, cut, req, tokens>>

RedisStops ==
    /\ redis /\ outages < MaxOutages
    /\ redis' = FALSE
    /\ outages' = outages + 1
    /\ UNCHANGED <<keys, req, tokens>>

(* Redis answers again, with its keys or without; its restart breaks off a *)
(* scan.                                                                   *)
RedisReturns(kept) ==
    /\ ~redis
    /\ redis' = TRUE
    /\ IF kept
       THEN UNCHANGED <<keys, req, loose>>
       ELSE /\ mark' = [t \in Tokens |-> "none"]
            /\ revoked' = FALSE /\ cut' = 0
            /\ loose' = loose \cup 1..issued
            /\ req' = [q \in Requests |->
                        IF req[q].op = "clear" THEN Idle
                        ELSE IF req[q].op \in Refreshing THEN [req[q] EXCEPT !.after = 0]
                        ELSE req[q]]
    /\ UNCHANGED <<outages, issued, expired, parent>>

-----------------------------------------------------------------------------
Refresh(q) ==
    \/ \E t \in Tokens : RefreshBegin(q, t)
    \/ Check(q) \/ Consume(q) \/ Issue(q)
    \/ Revoke(q) \/ \E gone \in SUBSET Tokens : Clear(q, gone)

Login(q) == LoginBegin(q) \/ LoginIssue(q)

Environment ==
    \/ TokenExpires \/ RevocationExpires
    \/ RedisStops \/ \E kept \in BOOLEAN : RedisReturns(kept)

Next == (\E q \in Requests : Refresh(q) \/ Login(q)) \/ Environment

Spec == Init /\ [][Next]_vars

-----------------------------------------------------------------------------
Children(t) == {c \in 1..issued : parent[c] = t}

(* A token that is still valid and has been exchanged twice is one of a    *)
(* user who stands revoked: two requests that present it together cannot   *)
(* both go on unnoticed, unless Redis failed one of them or lost its mark. *)
TwiceMeansRevoked ==
    \A t \in (expired + 1)..issued :
        t \notin loose /\ Cardinality(Children(t)) >= 2 => revoked

(* A request that began after a revocation does not get to exchange a      *)
(* token from before it, even though its mark is gone and a token without  *)
(* a mark passes; only a request Redis did not answer does.                *)
RevocationHolds ==
    \A q \in Requests :
        req[q].op = "issue" /\ ~req[q].blind =>
            req[q].token \notin (expired + 1)..req[q].after

(* A token that two hold is noticed, and then neither gets on with it.     *)
ReuseIsStopped == TwiceMeansRevoked /\ RevocationHolds
=============================================================================
