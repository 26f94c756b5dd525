----------------------------- MODULE LLMClient ------------------------------
(***************************************************************************)
(* The DeepSeek client: one circuit breaker shared by every call of the    *)
(* process, each call with its retries, and the routes that look at the    *)
(* breaker before they call.                                               *)
(*                                                                         *)
(* One event loop runs everything and the breaker's methods await nothing  *)
(* while they hold its lock, so an action is what happens between two      *)
(* awaits: the HTTP call, a chunk, the back-off sleep.  DEEPSEEK_ENABLED   *)
(* is taken as set.                                                        *)
(***************************************************************************)
EXTENDS Integers

CONSTANTS
    Callers,        \* tasks that may have a call going
    Gated,          \* those that come through a route with a circuit check;
                    \* the others (fraud screening, tag translation, a later
                    \* round of the agent) ask the client directly
    Streaming,      \* those that read the answer chunk by chunk
    Threshold,      \* failures that open the breaker, 5 in the code
    OpenFor,        \* its open window in clock ticks, 30 s in the code
    Backoffs        \* waits in a retry schedule, 3 in the code

ASSUME CallersAssumption == Gated \subseteq Callers /\ Streaming \subseteq Callers

ASSUME SettingsAssumption ==
    /\ Threshold \in Nat \ {0}
    /\ OpenFor \in Nat \ {0}
    /\ Backoffs \in Nat

VARIABLES
    state,      \* _CircuitBreaker._state
    count,      \* _failure_count
    left,       \* _open_until, as the time still to go
    call,       \* what each caller is doing
    healthy,    \* whether the provider answers
    streak,     \* history: breaker failures since the last success, Threshold
                \* standing for all from there on
    sends       \* history: requests each caller sent since the breaker opened

vars == <<state, count, left, call, healthy, streak, sends>>

-----------------------------------------------------------------------------
CircuitState == {"CLOSED", "OPEN", "HALF_OPEN"}

CallType == [pc: {"idle", "admitted", "flight", "stream", "backoff"}, attempts: 0..Backoffs]

Idle == [pc |-> "idle", attempts |-> 0]

TypeOK ==
    /\ state \in CircuitState
    /\ count \in 0..Threshold - 1
    /\ left \in 0..OpenFor
    /\ call \in [Callers -> CallType]
    /\ healthy \in BOOLEAN
    /\ streak \in 0..Threshold
    /\ sends \in [Callers -> Nat]

Init ==
    /\ state = "CLOSED"
    /\ count = 0
    /\ left = 0
    /\ call = [c \in Callers |-> Idle]
    /\ healthy = TRUE
    /\ streak = 0
    /\ sends = [c \in Callers |-> 0]

-----------------------------------------------------------------------------
(* What went wrong with a request.  Timeouts and connection errors go the  *)
(* way of "gateway" (502, 503, 504); "server" is any other 5xx, "refused"  *)
(* any 4xx but 429, "dropped" a stream that broke off.                     *)
Errors == {"rate", "gateway", "server", "refused", "dropped"}

(* Those that speak of a sick provider. *)
Sickness == {"gateway", "server"}

(* Mutant: only timeouts and 502..504 count. *)
IsFuseGateway(e) == e = "gateway"

IsFuseFailure(e) == e \in {"gateway", "server"}

RetrySchedule(e) == IF e \in {"rate", "gateway", "dropped"} THEN Backoffs ELSE 0

(* The history of a step in which the callers in S send a request. *)
Sending(S) ==
    sends' = IF state' = "OPEN"
             THEN [c \in Callers |-> IF c \in S THEN sends[c] + 1 ELSE sends[c]]
             ELSE [c \in Callers |-> 0]

(* The history of a failed request. *)
Streak(e) ==
    streak' = IF e \in Sickness /\ streak < Threshold THEN streak + 1 ELSE streak

(* The state after _maybe_half_open: an expired OPEN has become HALF_OPEN. *)
Seen == IF state = "OPEN" /\ left = 0 THEN "HALF_OPEN" ELSE state

-----------------------------------------------------------------------------
(* The breaker *)

RecordFailure ==
    /\ IF count + 1 >= Threshold
       THEN state' = "OPEN" /\ left' = OpenFor /\ count' = 0
       ELSE /\ count' = count + 1
            /\ IF state = "HALF_OPEN"
               THEN state' = "OPEN" /\ left' = OpenFor
               ELSE UNCHANGED <<state, left>>

RecordSuccess == state' = "CLOSED" /\ count' = 0 /\ streak' = 0 /\ UNCHANGED left

(* The window of an OPEN breaker passes; nothing else happens when it is over. *)
Tick ==
    /\ left > 0
    /\ left' = left - 1
    /\ UNCHANGED <<state, count, call, healthy, streak, sends>>

-----------------------------------------------------------------------------
(* Callers *)

Goes(c, pc) == call' = [call EXCEPT ![c].pc = pc]
Ends(c) == call' = [call EXCEPT ![c] = Idle]

(* GET /reviews/ai-status reads circuit_state, which may migrate it. *)
AiStatus ==
    /\ state' = Seen
    /\ Sending({})
    /\ UNCHANGED <<count, left, call, healthy, streak>>

(* Mutant: the route sees the state as it is stored, and the migration is  *)
(* left to acquire, as it was before 2026-09-17.                           *)
AskAsStored(c) ==
    /\ c \in Gated /\ call[c].pc = "idle"
    /\ state # "OPEN" /\ Goes(c, "admitted")
    /\ UNCHANGED <<state, count, left, healthy, streak, sends>>

(* The route reads circuit_state: 503 when OPEN, otherwise it goes on to   *)
(* resolve the expert and open the stream before it calls the client.      *)
Ask(c) ==
    /\ c \in Gated /\ call[c].pc = "idle"
    /\ state' = Seen
    /\ IF Seen = "OPEN" THEN UNCHANGED call ELSE Goes(c, "admitted")
    /\ Sending({})
    /\ UNCHANGED <<count, left, healthy, streak>>

AskDirectly(c) ==
    /\ c \notin Gated /\ call[c].pc = "idle"
    /\ Goes(c, "admitted")
    /\ UNCHANGED <<state, count, left, healthy, streak, sends>>

(* acquire: CircuitOpenError while the window lasts, otherwise the first   *)
(* request goes out, and in HALF_OPEN so does everyone else's.             *)
Acquire(c) ==
    /\ call[c].pc = "admitted"
    /\ IF state = "OPEN" /\ left > 0
       THEN Ends(c) /\ UNCHANGED <<state, sends>>
       ELSE state' = Seen /\ Goes(c, "flight") /\ Sending({c})
    /\ UNCHANGED <<count, left, healthy, streak>>

FirstChunk(c) ==
    /\ c \in Streaming /\ call[c].pc = "flight"
    /\ Goes(c, "stream")
    /\ UNCHANGED <<state, count, left, healthy, streak, sends>>

(* The whole answer arrived. *)
Succeed(c) ==
    /\ call[c].pc \in {"flight", "stream"}
    /\ RecordSuccess
    /\ Ends(c)
    /\ Sending({})
    /\ UNCHANGED healthy

(* Mutant: the attempts are not counted. *)
RetryUncounted(c, e) ==
    IF call[c].attempts >= RetrySchedule(e) THEN Ends(c) ELSE Goes(c, "backoff")

Retry(c, e) ==
    IF call[c].attempts >= RetrySchedule(e)
    THEN Ends(c)
    ELSE call' = [call EXCEPT ![c] = [pc |-> "backoff", attempts |-> @.attempts + 1]]

(* An exception: count it if it is a fuse failure, then wait and try       *)
(* again, or raise.                                                        *)
Fails(c, e) ==
    /\ ~healthy
    /\ \/ call[c].pc = "flight" /\ e # "dropped"
       \/ call[c].pc = "stream" /\ e = "dropped"
    /\ IF IsFuseFailure(e) THEN RecordFailure ELSE UNCHANGED <<state, count, left>>
    /\ Streak(e)
    /\ Retry(c, e)
    /\ Sending({})
    /\ UNCHANGED healthy

(* After the sleep the request goes out again; nobody asks the breaker. *)
Resend(c) ==
    /\ call[c].pc = "backoff"
    /\ Goes(c, "flight")
    /\ UNCHANGED <<state, count, left, healthy, streak>>
    /\ Sending({c})

(* The client disconnected: GeneratorExit or CancelledError, nothing recorded. *)
Abandon(c) ==
    /\ call[c].pc # "idle"
    /\ Ends(c)
    /\ UNCHANGED <<state, count, left, healthy, streak, sends>>

(* The provider falls ill or recovers. *)
Provider ==
    /\ healthy' = ~healthy
    /\ UNCHANGED <<state, count, left, call, streak, sends>>

-----------------------------------------------------------------------------
Serve(c) ==
    \/ Acquire(c) \/ FirstChunk(c) \/ Succeed(c) \/ Resend(c)
    \/ \E e \in Errors : Fails(c, e)

Next ==
    \/ Tick \/ AiStatus \/ Provider
    \/ \E c \in Callers : Ask(c) \/ AskDirectly(c) \/ Serve(c) \/ Abandon(c)

Spec == Init /\ [][Next]_vars

(* Time passes, a request that was sent gets an answer or a timeout, a     *)
(* sleep ends.                                                             *)
Running == WF_vars(Tick) /\ \A c \in Callers : WF_vars(Serve(c))

(* People keep coming back through the routes, and are not always gone     *)
(* before their call is made, or before the answer is complete.            *)
Users == \A c \in Callers : WF_vars(Ask(c)) /\ SF_vars(Acquire(c)) /\ SF_vars(Succeed(c))

FairSpec == Spec /\ Running

-----------------------------------------------------------------------------
(* Threshold failures of the provider in a row open the breaker: with the  *)
(* failures of overlapping calls and their retries interleaved in any      *)
(* order, a CLOSED breaker has seen fewer.                                 *)
TripsInTime == state = "CLOSED" => streak < Threshold

(* A CLOSED breaker opens on nothing less: failures before a success, or   *)
(* before an earlier opening, are forgotten.                               *)
NoEarlyTrip == [][state = "CLOSED" /\ state' = "OPEN" => streak' = Threshold]_vars

(* While the breaker is OPEN the provider sees no more than the retries of *)
(* the calls it interrupted: at most Backoffs requests of each caller, in  *)
(* however many windows it stays OPEN.                                     *)
OpenShedsLoad == state = "OPEN" => \A c \in Callers : sends[c] <= Backoffs

(* The breaker opens on the threshold and on nothing less, and while it is *)
(* OPEN the provider is spared, however calls and retries interleave.      *)
BreakerHolds == [](TripsInTime /\ OpenShedsLoad) /\ NoEarlyTrip

(* Every call ends, even if the provider never recovers. *)
EveryCallEnds == \A c \in Callers : call[c].pc # "idle" ~> call[c].pc = "idle"

(* When the provider is back and people go on using the routes, these heal *)
(* the breaker by themselves: it does not stay OPEN because they refuse    *)
(* before anyone calls acquire.                                            *)
Heals == Users /\ <>[]healthy => (state # "CLOSED" ~> state = "CLOSED")
=============================================================================
