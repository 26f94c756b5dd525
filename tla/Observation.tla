---------------------------- MODULE Observation ----------------------------
(***************************************************************************)
(* What the observing platform is told of a request that streams an answer *)
(* (obs.py, core/middleware.py): one root status, and a record of every    *)
(* call to the LLM.  The stream answers 200 whatever happens, so a failed  *)
(* call has to mark the request, and the end of the stream reads the mark. *)
(*                                                                         *)
(* A request makes its first call through LLMClient's gated caller of the  *)
(* same name.  In a chat the model may ask for a tool; the answer is then  *)
(* written by a later call, which asks nobody but the breaker: the caller  *)
(* Later[q].  A chat that was answered may have its summary made, by a     *)
(* call past the client, which retries nothing and asks no breaker.        *)
(* The platform's SDK is taken as configured.                              *)
(***************************************************************************)
EXTENDS LLMClient, Sequences

CONSTANT Later      \* the caller that makes a request's later call

ASSUME LaterAssumption == Later \in [Gated -> Callers \ Gated]

VARIABLES
    route,      \* per request: "score" or "chat"
    at,         \* "none", "first", "tool", "later", "summary", "sent" (its last frame)
    hardFail,   \* health["hard_fail"] of the request's context
    root,       \* what end_request was told: "none", "ok", or the type of error
    entries,    \* what record_llm was told, call by call
    sent,       \* history: calls of the request that reached the provider
    fate        \* history: what became of it: "open", "answered", "unusable" (an
                \* answer that is empty or no call of a tool), "failed", "shed" (its
                \* later call was refused), "left" (by the client), "broken" (by
                \* something that is not the LLM)

traceVars == <<route, at, hardFail, root, entries, sent, fate>>
obsVars == <<vars, traceVars>>

Outcomes == {"answered", "unusable", "failed", "shed", "left", "broken"}

TraceTypeOK ==
    /\ route \in [Gated -> {"score", "chat"}]
    /\ at \in [Gated -> {"none", "first", "tool", "later", "summary", "sent"}]
    /\ hardFail \in [Gated -> BOOLEAN]
    /\ root \in [Gated -> {"none", "ok", "HTTP_503", "LLM", "CLIENT_DISCONNECT"}]
    /\ entries \in [Gated -> Seq({"ok", "error"})]
    /\ sent \in [Gated -> Nat]
    /\ fate \in [Gated -> Outcomes \cup {"open"}]

ObservedInit ==
    /\ Init
    /\ route = [q \in Gated |-> "score"]
    /\ at = [q \in Gated |-> "none"]
    /\ hardFail = [q \in Gated |-> FALSE]
    /\ root = [q \in Gated |-> "none"]
    /\ entries = [q \in Gated |-> <<>>]
    /\ sent = [q \in Gated |-> 0]
    /\ fate = [q \in Gated |-> "open"]

-----------------------------------------------------------------------------
(* The request that the call of c belongs to, in a set of at most one. *)
Whose(c) ==
    IF c \in Gated
    THEN {q \in {c} : at[q] = "first"}
    ELSE {q \in Gated : at[q] = "later" /\ Later[q] = c}

Moves(q, to) == at' = [at EXCEPT ![q] = to]
Comes(q, to) == Moves(q, "sent") /\ fate' = [fate EXCEPT ![q] = to]

(* The answer is there; maybe_summarize finds that it is time, or not.     *)
Answered(q) ==
    /\ fate' = [fate EXCEPT ![q] = "answered"]
    /\ \/ Moves(q, "sent") /\ UNCHANGED sent
       \/ route[q] = "chat" /\ Moves(q, "summary") /\ sent' = [sent EXCEPT ![q] = @ + 1]

Records(q, outcome) == entries' = [entries EXCEPT ![q] = Append(@, outcome)]

(* mark_llm_hard_fail: the first failure of a request is kept. *)
Marks(q) == hardFail' = [hardFail EXCEPT ![q] = TRUE]

(* A step of a caller that works for no request leaves every trace alone. *)
Untraced(c) == Whose(c) = {} /\ UNCHANGED traceVars

-----------------------------------------------------------------------------
(* begin_request, and a fresh mark in the context; then the route, whose   *)
(* refusal is an answer like any other.                                    *)
Arrive(q) ==
    /\ at[q] = "none"
    /\ Ask(q)
    /\ \E to \in {"score", "chat"} : route' = [route EXCEPT ![q] = to]
    /\ hardFail' = [hardFail EXCEPT ![q] = FALSE]
    /\ entries' = [entries EXCEPT ![q] = <<>>]
    /\ sent' = [sent EXCEPT ![q] = 0]
    /\ IF Seen = "OPEN"
       THEN /\ root' = [root EXCEPT ![q] = "HTTP_503"]
            /\ fate' = [fate EXCEPT ![q] = "failed"]
            /\ UNCHANGED at
       ELSE /\ root' = [root EXCEPT ![q] = "none"]
            /\ fate' = [fate EXCEPT ![q] = "open"]
            /\ Moves(q, "first")

(* Anyone else who uses the client: a job, or a route without a check. *)
Elsewhere(c) ==
    /\ AskDirectly(c)
    /\ \A q \in Gated : ~(at[q] = "later" /\ Later[q] = c)
    /\ UNCHANGED traceVars

(* The tool has run, and the model is to answer. *)
AskAgain(q) ==
    /\ at[q] = "tool"
    /\ AskDirectly(Later[q])
    /\ \A p \in Gated : ~(at[p] = "later" /\ Later[p] = Later[q])
    /\ Moves(q, "later")
    /\ UNCHANGED <<route, hardFail, root, entries, sent, fate>>

(* The tool found nothing: a fixed text. *)
FixedText(q) ==
    /\ at[q] = "tool"
    /\ Answered(q)
    /\ UNCHANGED <<vars, route, hardFail, root, entries>>

(* A price is scored by a formula, a score that is cached is replayed; or  *)
(* the database fails, and an error frame says so.                         *)
WithoutCall(q) ==
    /\ at[q] = "first" /\ call[q].pc = "admitted"
    /\ Abandon(q)
    /\ \E to \in {"answered", "broken"} : (to = "answered" => route[q] = "score") /\ Comes(q, to)
    /\ UNCHANGED <<route, hardFail, root, entries, sent>>

(* Mutant: the refusal of a first call is as silent as that of a later. *)
MarkedRefusalNever(q) == FALSE

(* The scoring stream and the agent's first round mark a refusal; around   *)
(* the later call CircuitOpenError is turned into a frame and no more.     *)
MarkedRefusal(q) == at[q] = "first"

ObservedAcquire(c) ==
    /\ Acquire(c)
    /\ \/ Untraced(c)
       \/ \E q \in Whose(c) :
            IF state = "OPEN" /\ left > 0
            THEN /\ IF MarkedRefusal(q) THEN Marks(q) ELSE UNCHANGED hardFail
                 /\ Comes(q, IF at[q] = "first" THEN "failed" ELSE "shed")
                 /\ UNCHANGED <<route, root, entries, sent>>
            ELSE /\ sent' = [sent EXCEPT ![q] = @ + 1]
                 /\ UNCHANGED <<route, at, hardFail, root, entries, fate>>

(* record_llm_ok; the agent then runs a tool, or the answer is what it is. *)
ObservedSucceed(c) ==
    /\ Succeed(c)
    /\ \/ Untraced(c)
       \/ \E q \in Whose(c) :
            /\ Records(q, "ok")
            /\ \/ Answered(q)
               \/ Comes(q, "unusable") /\ UNCHANGED sent
               \/ /\ at[q] = "first" /\ route[q] = "chat"
                  /\ Moves(q, "tool") /\ UNCHANGED <<sent, fate>>
            /\ UNCHANGED <<route, hardFail, root>>

(* A failure is on record when nothing is left to try: record_llm_error,   *)
(* then the mark, then the exception, which becomes an error frame.        *)
ObservedFails(c, e) ==
    /\ Fails(c, e)
    /\ \/ Untraced(c)
       \/ \E q \in Whose(c) :
            IF call[c].attempts >= RetrySchedule(e)
            THEN /\ Records(q, "error") /\ Marks(q) /\ Comes(q, "failed")
                 /\ UNCHANGED <<route, root, sent>>
            ELSE UNCHANGED traceVars

(* The summary is recorded, and a failure of it is swallowed.              *)
Summarize(q) ==
    /\ at[q] = "summary"
    /\ \E outcome \in {"ok", "error"} : Records(q, outcome)
    /\ Moves(q, "sent")
    /\ UNCHANGED <<vars, route, hardFail, root, sent, fate>>

(* FirstChunk and Resend are on no record. *)
ObservedGoesOn(c) == (FirstChunk(c) \/ Resend(c)) /\ UNCHANGED traceVars

(* The client disconnects.  A generator closed where it yields records ok  *)
(* (in a chat it yields to nobody but the agent), one cancelled in its     *)
(* back-off an error, one cancelled while it waits for the provider, as    *)
(* the summary does, nothing.                                              *)
ObservedAbandon(c) ==
    /\ Abandon(c)
    /\ \/ Untraced(c)
       \/ \E q \in Whose(c) :
            /\ \/ call[c].pc = "stream" /\ route[q] = "score" /\ Records(q, "ok")
               \/ call[c].pc = "backoff" /\ Records(q, "error")
               \/ call[c].pc # "backoff" /\ UNCHANGED entries
            /\ Comes(q, "left")
            /\ UNCHANGED <<route, hardFail, root, sent>>

LeaveBetween(q) ==
    /\ at[q] \in {"tool", "summary"}
    /\ Comes(q, "left")
    /\ UNCHANGED <<vars, route, hardFail, root, entries, sent>>

(* _obs_finish, when the body has been sent.  Of a client that left the    *)
(* middleware may know, or see the body end.                               *)
Finish(q) ==
    /\ at[q] = "sent"
    /\ \E aborted \in {FALSE} \cup {fate[q] = "left"} :
           root' = [root EXCEPT ![q] = IF aborted THEN "CLIENT_DISCONNECT"
                                       ELSE IF hardFail[q] THEN "LLM" ELSE "ok"]
    /\ Moves(q, "none")
    /\ UNCHANGED <<vars, route, hardFail, entries, sent, fate>>

-----------------------------------------------------------------------------
Works(q) == AskAgain(q) \/ FixedText(q) \/ Summarize(q) \/ Finish(q)

ObservedServe(c) ==
    \/ ObservedAcquire(c) \/ ObservedSucceed(c) \/ ObservedGoesOn(c)
    \/ \E e \in Errors : ObservedFails(c, e)

ObservedNext ==
    \/ (Tick \/ AiStatus \/ Provider) /\ UNCHANGED traceVars
    \/ \E q \in Gated : Arrive(q) \/ WithoutCall(q) \/ LeaveBetween(q) \/ Works(q)
    \/ \E c \in Callers : Elsewhere(c) \/ ObservedServe(c) \/ ObservedAbandon(c)

ObservedSpec == ObservedInit /\ [][ObservedNext]_obsVars

(* Running, and a request goes on. *)
ObservedFairSpec ==
    /\ ObservedSpec
    /\ WF_obsVars(Tick /\ UNCHANGED traceVars)
    /\ \A c \in Callers : WF_obsVars(ObservedServe(c))
    /\ \A q \in Gated : WF_obsVars(Works(q))

-----------------------------------------------------------------------------
(* Of a request whose client stayed, "ok" is said if and only if nothing   *)
(* that its answer needed of the LLM failed; except that the refusal of a  *)
(* later call passes for ok.  The only failed call in a trace that is ok   *)
(* is that of a summary, after the answer; and every call that reached the *)
(* provider is on record, once.                                            *)
TraceIsHonest ==
    \A q \in Gated :
        at[q] = "none" /\ root[q] # "none" /\ fate[q] # "left" =>
            /\ root[q] = "ok" <=> fate[q] \in {"answered", "unusable", "broken", "shed"}
            /\ root[q] = "ok" => \A i \in DOMAIN entries[q] :
                   entries[q][i] = "ok" \/ (fate[q] = "answered" /\ i > 1 /\ i = Len(entries[q]))
            /\ Len(entries[q]) = sent[q]
=============================================================================
