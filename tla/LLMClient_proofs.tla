-------------------------- MODULE LLMClient_proofs --------------------------
(* Proofs about LLMClient and about Observation, which watches it, for every *)
(* number of callers and requests and every setting; and about ScoreStream:  *)
(* what the cache of the scores holds, what a client sees of a stream, and   *)
(* what it gets when it resumes one; for any number of clients, reviews,     *)
(* runs, changes and outages, and any length of a score.                     *)
EXTENDS Observation, ScoreStream, SequenceTheorems, CountingLemmas, TLAPS

(* Every attribute of the breaker and of the calls always has its type; in *)
(* particular the failure count stays below the threshold and no call uses *)
(* more attempts than its schedule has waits.                              *)
THEOREM TypeCorrect == Spec => []TypeOK
<1>1. Init => TypeOK
    BY SettingsAssumption DEF Init, TypeOK, CircuitState, CallType, Idle
<1>2. TypeOK /\ [Next]_vars => TypeOK'
    <2> SUFFICES ASSUME TypeOK, [Next]_vars PROVE TypeOK'
        OBVIOUS
    <2> USE SettingsAssumption DEF TypeOK, CircuitState, CallType
    <2>1. CASE Tick
        BY <2>1 DEF Tick
    <2>2. CASE AiStatus
        BY <2>2 DEF AiStatus, Seen, Sending
    <2>3. CASE Provider
        BY <2>3 DEF Provider
    <2>4. ASSUME NEW c \in Callers, Ask(c) PROVE TypeOK'
        BY <2>4 DEF Ask, Seen, Sending, Goes
    <2>5. ASSUME NEW c \in Callers, AskDirectly(c) PROVE TypeOK'
        BY <2>5 DEF AskDirectly, Goes
    <2>6. ASSUME NEW c \in Callers, Acquire(c) PROVE TypeOK'
        BY <2>6 DEF Acquire, Seen, Sending, Goes, Ends, Idle
    <2>7. ASSUME NEW c \in Callers, FirstChunk(c) PROVE TypeOK'
        BY <2>7 DEF FirstChunk, Goes
    <2>8. ASSUME NEW c \in Callers, Succeed(c) PROVE TypeOK'
        BY <2>8 DEF Succeed, RecordSuccess, Ends, Idle, Sending
    <2>9. ASSUME NEW c \in Callers, Resend(c) PROVE TypeOK'
        BY <2>9 DEF Resend, Goes, Sending
    <2>10. ASSUME NEW c \in Callers, NEW e \in Errors, Fails(c, e) PROVE TypeOK'
        <3>1. call' \in [Callers -> CallType]
            BY <2>10 DEF Fails, Retry, RetrySchedule, Ends, Idle
        <3>2. state' \in CircuitState /\ count' \in 0..Threshold - 1 /\ left' \in 0..OpenFor
            BY <2>10 DEF Fails, RecordFailure
        <3>3. streak' \in 0..Threshold /\ healthy' \in BOOLEAN
            BY <2>10 DEF Fails, Streak
        <3>4. sends' \in [Callers -> Nat]
            BY <2>10 DEF Fails, Sending
        <3> QED
            BY <3>1, <3>2, <3>3, <3>4
    <2>11. ASSUME NEW c \in Callers, Abandon(c) PROVE TypeOK'
        BY <2>11 DEF Abandon, Ends, Idle
    <2>12. CASE UNCHANGED vars
        BY <2>12 DEF vars
    <2> QED
        BY <2>1, <2>2, <2>3, <2>4, <2>5, <2>6, <2>7, <2>8, <2>9, <2>10, <2>11, <2>12 DEF Next, Serve
<1> QED
    BY <1>1, <1>2, PTL DEF Spec

-----------------------------------------------------------------------------
(* What a CLOSED breaker has counted is the run of failures since the last *)
(* success: it can only become CLOSED by a success, which resets both.     *)
CountsTheStreak == state = "CLOSED" => streak = count

(* Only a recorded failure or success changes the count or the streak, and *)
(* nothing else opens or closes the breaker.                               *)
LEMMA CountStep ==
    ASSUME TypeOK, CountsTheStreak, [Next]_vars
    PROVE  /\ CountsTheStreak'
           /\ state = "CLOSED" /\ state' = "OPEN" => streak' = Threshold
<1> USE SettingsAssumption DEF TypeOK, CountsTheStreak, CircuitState
<1>1. CASE UNCHANGED <<count, streak>> /\ state' \in {state, Seen}
    BY <1>1 DEF Seen
<1>2. ASSUME NEW c \in Callers, Succeed(c) PROVE CountsTheStreak' /\ state' = "CLOSED"
    BY <1>2 DEF Succeed, RecordSuccess
<1>3. ASSUME NEW c \in Callers, NEW e \in Errors, Fails(c, e)
      PROVE  /\ CountsTheStreak'
             /\ state = "CLOSED" /\ state' = "OPEN" => streak' = Threshold
    <2>1. CASE IsFuseFailure(e)
        <3>1. RecordFailure /\ streak' = IF streak < Threshold THEN streak + 1 ELSE streak
            BY <1>3, <2>1 DEF Fails, Streak, Sickness, IsFuseFailure
        <3> QED
            BY <3>1 DEF RecordFailure
    <2>2. CASE ~IsFuseFailure(e)
        <3>1. UNCHANGED <<state, count, streak>>
            BY <1>3, <2>2 DEF Fails, Streak, Sickness, IsFuseFailure
        <3> QED
            BY <3>1
    <2> QED
        BY <2>1, <2>2
<1>4. \/ UNCHANGED <<count, streak>> /\ state' \in {state, Seen}
      \/ \E c \in Callers : Succeed(c)
      \/ \E c \in Callers, e \in Errors : Fails(c, e)
    BY DEF Next, Serve, Tick, AiStatus, Provider, Ask, AskDirectly, Acquire,
           FirstChunk, Resend, Abandon, vars
<1> QED
    BY <1>1, <1>2, <1>3, <1>4

(* A CLOSED breaker has seen fewer than Threshold failures in a row. *)
THEOREM TripsInTimeHolds == Spec => []TripsInTime
<1>1. Init => CountsTheStreak
    BY DEF Init, CountsTheStreak
<1>2. TypeOK /\ CountsTheStreak /\ [Next]_vars => CountsTheStreak'
    BY CountStep
<1>3. TypeOK /\ CountsTheStreak => TripsInTime
    BY SettingsAssumption DEF TypeOK, CountsTheStreak, TripsInTime
<1> QED
    BY <1>1, <1>2, <1>3, TypeCorrect, PTL DEF Spec

(* A CLOSED breaker opens only on the Threshold-th failure in a row. *)
THEOREM NoEarlyTripHolds == Spec => NoEarlyTrip
<1>1. Init => CountsTheStreak
    BY DEF Init, CountsTheStreak
<1>2. TypeOK /\ CountsTheStreak /\ [Next]_vars
        => CountsTheStreak' /\ [state = "CLOSED" /\ state' = "OPEN" => streak' = Threshold]_vars
    BY CountStep
<1> QED
    BY <1>1, <1>2, TypeCorrect, PTL DEF Spec, NoEarlyTrip

-----------------------------------------------------------------------------
(* Whoever sent requests to an OPEN breaker spent an attempt on each.  The *)
(* part about "backoff" leaves room for the request that is still due.     *)
ShedInv ==
    /\ state # "OPEN" => \A c \in Callers : sends[c] = 0
    /\ \A c \in Callers :
        /\ sends[c] <= Backoffs
        /\ call[c].pc \in {"flight", "stream"} => sends[c] <= call[c].attempts
        /\ call[c].pc = "backoff" => sends[c] < call[c].attempts

(* A step that sends nothing and leaves the calls alone, or ends or admits *)
(* one, keeps the invariant whether or not the breaker leaves OPEN.        *)
LEMMA ShedQuiet ==
    ASSUME TypeOK, ShedInv, Sending({}),
           state' = "OPEN" /\ state # "OPEN" => \A c \in Callers : sends'[c] = 0,
           \A c \in Callers :
              \/ call'[c] = call[c]
              \/ call'[c].pc \in {"idle", "admitted"}
              \/ call'[c].pc = "backoff" /\ call'[c].attempts > sends[c]
              \/ call'[c].pc \in {"flight", "stream"} /\ call'[c].attempts >= sends[c],
           call' \in [Callers -> CallType]
    PROVE  ShedInv'
<1> USE SettingsAssumption DEF TypeOK, CallType
<1>1. CASE state' = "OPEN"
    <2>1. \A c \in Callers : sends'[c] = sends[c]
        BY <1>1 DEF Sending
    <2> QED
        BY <1>1, <2>1 DEF ShedInv
<1>2. CASE state' # "OPEN"
    <2>1. \A c \in Callers : sends'[c] = 0
        BY <1>2 DEF Sending
    <2>2. \A c \in Callers : call'[c].pc = "backoff" => call'[c].attempts > 0
        BY DEF ShedInv
    <2> QED
        BY <2>1, <2>2 DEF ShedInv
<1> QED
    BY <1>1, <1>2

(* While the breaker is OPEN no caller sends more than its retries. *)
THEOREM OpenShedsLoadHolds == Spec => []OpenShedsLoad
<1>1. Init => ShedInv
    BY SettingsAssumption DEF Init, ShedInv, Idle
<1>2. TypeOK /\ TypeOK' /\ ShedInv /\ [Next]_vars => ShedInv'
    <2> SUFFICES ASSUME TypeOK, TypeOK', ShedInv, [Next]_vars PROVE ShedInv'
        OBVIOUS
    <2> USE SettingsAssumption DEF TypeOK, CallType
    <2>1. CASE UNCHANGED <<state, sends, call>>
        BY <2>1 DEF ShedInv
    <2>2. CASE AiStatus
        BY <2>2, ShedQuiet DEF AiStatus, Sending, ShedInv
    <2>3. ASSUME NEW c \in Callers, Ask(c) PROVE ShedInv'
        BY <2>3, ShedQuiet DEF Ask, Goes, Sending, ShedInv
    <2>4. ASSUME NEW c \in Callers, AskDirectly(c) \/ Abandon(c) PROVE ShedInv'
        BY <2>4 DEF AskDirectly, Abandon, Goes, Ends, Idle, ShedInv
    <2>5. ASSUME NEW c \in Callers, Acquire(c) PROVE ShedInv'
        <3>1. CASE state = "OPEN" /\ left > 0
            BY <2>5, <3>1 DEF Acquire, Ends, Idle, ShedInv
        <3>2. CASE ~(state = "OPEN" /\ left > 0)
            <4>1. state' # "OPEN"
                BY <2>5, <3>2 DEF Acquire, Seen
            <4>2. \A d \in Callers : sends'[d] = 0
                BY <2>5, <3>2, <4>1 DEF Acquire, Sending
            <4> QED
                BY <2>5, <3>2, <4>1, <4>2 DEF Acquire, Goes, ShedInv
        <3> QED
            BY <3>1, <3>2
    <2>6. ASSUME NEW c \in Callers, FirstChunk(c) PROVE ShedInv'
        BY <2>6 DEF FirstChunk, Goes, ShedInv
    <2>7. ASSUME NEW c \in Callers, Succeed(c) PROVE ShedInv'
        BY <2>7, ShedQuiet DEF Succeed, RecordSuccess, Ends, Idle, Sending, ShedInv
    <2>8. ASSUME NEW c \in Callers, Resend(c) PROVE ShedInv'
        <3>1. CASE state' = "OPEN"
            BY <2>8, <3>1 DEF Resend, Goes, Sending, ShedInv
        <3>2. CASE state' # "OPEN"
            BY <2>8, <3>2 DEF Resend, Goes, Sending, ShedInv
        <3> QED
            BY <3>1, <3>2
    <2>9. ASSUME NEW c \in Callers, NEW e \in Errors, Fails(c, e) PROVE ShedInv'
        <3>1. \/ call'[c].pc = "idle"
              \/ call'[c].pc = "backoff" /\ call'[c].attempts = call[c].attempts + 1
            BY <2>9 DEF Fails, Retry, Ends, Idle
        <3>2. \A d \in Callers \ {c} : call'[d] = call[d]
            BY <2>9 DEF Fails, Retry, Ends, Idle
        <3>3. sends[c] <= call[c].attempts
            BY <2>9 DEF Fails, ShedInv
        <3>4. Sending({})
            BY <2>9 DEF Fails
        <3>5. state' = "OPEN" /\ state # "OPEN" => \A d \in Callers : sends'[d] = 0
            BY <3>4 DEF Sending, ShedInv
        <3> QED
            BY <3>1, <3>2, <3>3, <3>4, <3>5, ShedQuiet
    <2> QED
        BY <2>1, <2>2, <2>3, <2>4, <2>5, <2>6, <2>7, <2>8, <2>9
           DEF Next, Serve, Tick, Provider, vars
<1>3. ShedInv => OpenShedsLoad
    BY DEF ShedInv, OpenShedsLoad
<1> QED
    BY <1>1, <1>2, <1>3, TypeCorrect, PTL DEF Spec

(* The three together, as the run checks them.                             *)
THEOREM BreakerHoldsAlways == Spec => BreakerHolds
<1> QED
    BY TripsInTimeHolds, OpenShedsLoadHolds, NoEarlyTripHolds, PTL DEF BreakerHolds
-----------------------------------------------------------------------------
(* The observed requests: they only watch the client                        *)

LEMMA Watching == ObservedNext => [Next]_vars
<1> SUFFICES ASSUME ObservedNext PROVE [Next]_vars
    OBVIOUS
<1> USE CallersAssumption, LaterAssumption
<1>1. CASE Tick \/ AiStatus \/ Provider
    BY <1>1 DEF Next
<1>2. ASSUME NEW q \in Gated, Arrive(q) \/ WithoutCall(q) \/ LeaveBetween(q) \/ Works(q)
      PROVE  [Next]_vars
    <2>1. q \in Callers /\ Later[q] \in Callers
        OBVIOUS
    <2>2. Ask(q) \/ Abandon(q) \/ AskDirectly(Later[q]) \/ UNCHANGED vars
        BY <1>2 DEF Arrive, WithoutCall, LeaveBetween, Works, AskAgain, FixedText, Summarize, Finish
    <2> QED
        BY <2>1, <2>2 DEF Next
<1>3. ASSUME NEW c \in Callers, Elsewhere(c) \/ ObservedServe(c) \/ ObservedAbandon(c)
      PROVE  [Next]_vars
    <2>1. \/ AskDirectly(c) \/ Acquire(c) \/ Succeed(c) \/ FirstChunk(c) \/ Resend(c)
          \/ Abandon(c) \/ \E e \in Errors : Fails(c, e)
        BY <1>3 DEF Elsewhere, ObservedServe, ObservedAbandon, ObservedAcquire, ObservedSucceed,
                    ObservedGoesOn, ObservedFails
    <2> QED
        BY <2>1 DEF Next, Serve
<1> QED
    BY <1>1, <1>2, <1>3 DEF ObservedNext

(* Every behaviour with observed requests is one of the client, so that all *)
(* that is proved of the breaker above holds while requests are observed.   *)
THEOREM ObservedIsClient == ObservedSpec => Spec
<1>1. ObservedInit => Init
    BY DEF ObservedInit
<1>2. [ObservedNext]_obsVars => [Next]_vars
    BY Watching DEF obsVars
<1> QED
    BY <1>1, <1>2, PTL DEF ObservedSpec, Spec

(* In particular the breaker holds as the run checks it, with requests      *)
(* observed.                                                                *)
THEOREM BreakerHoldsObserved == ObservedSpec => BreakerHolds
<1> QED
    BY ObservedIsClient, BreakerHoldsAlways, PTL

-----------------------------------------------------------------------------
(* Where a request is, and what its trace says by then                      *)

(* Requests of one call that reached the provider, as the trace counts it.  *)
Reached(c) == IF call[c].pc \in {"flight", "stream", "backoff"} THEN 1 ELSE 0

Unmarked(q) == fate[q] = "open" /\ hardFail[q] = FALSE

(* The answer is complete, and says what became of it.                      *)
Truthful(q) ==
    fate[q] # "left" =>
        /\ hardFail[q] <=> fate[q] = "failed"
        /\ sent[q] = Len(entries[q])
        /\ ~hardFail[q] => \A i \in 1..Len(entries[q]) :
              entries[q][i] = "ok" \/ (fate[q] = "answered" /\ i > 1 /\ i = Len(entries[q]))

Ended(q) ==
    root[q] # "none" /\ fate[q] # "left" =>
        /\ root[q] = "ok" <=> fate[q] \in {"answered", "unusable", "broken", "shed"}
        /\ root[q] = "ok" => \A i \in 1..Len(entries[q]) :
              entries[q][i] = "ok" \/ (fate[q] = "answered" /\ i > 1 /\ i = Len(entries[q]))
        /\ sent[q] = Len(entries[q])

TraceOk(q) ==
    /\ at[q] = "none" => Ended(q)
    /\ at[q] = "first" =>
        /\ Unmarked(q) /\ entries[q] = << >>
        /\ call[q].pc # "idle" /\ sent[q] = Reached(q)
    /\ at[q] = "tool" => Unmarked(q) /\ entries[q] = <<"ok">> /\ sent[q] = 1
    /\ at[q] = "later" =>
        /\ Unmarked(q) /\ entries[q] = <<"ok">>
        /\ call[Later[q]].pc # "idle" /\ sent[q] = 1 + Reached(Later[q])
    /\ at[q] = "summary" =>
        /\ fate[q] = "answered" /\ hardFail[q] = FALSE
        /\ entries[q] # << >> /\ sent[q] = Len(entries[q]) + 1
        /\ \A i \in 1..Len(entries[q]) : entries[q][i] = "ok"
    /\ at[q] = "sent" => fate[q] # "open" /\ Truthful(q)

(* A caller makes the later call of one request at a time.                  *)
OneEach ==
    \A p, q \in Gated :
        at[p] = "later" /\ at[q] = "later" /\ Later[p] = Later[q] => p = q

TraceInv == TraceTypeOK /\ OneEach /\ \A q \in Gated : TraceOk(q)
LEMMA Recorded ==
    ASSUME NEW s \in Seq({"ok", "error"}), NEW x \in {"ok", "error"}
    PROVE  /\ Append(s, x) \in Seq({"ok", "error"})
           /\ Len(Append(s, x)) = Len(s) + 1 /\ Len(s) \in Nat
           /\ \A i \in 1..Len(s) : Append(s, x)[i] = s[i]
           /\ Append(s, x)[Len(s) + 1] = x
           /\ Append(s, x) # << >>
BY AppendProperties, LenProperties

LEMMA TraceInit == ObservedInit => TraceInv
<1> SUFFICES ASSUME ObservedInit PROVE TraceInv
    OBVIOUS
<1>1. TraceTypeOK
    <2>1. entries \in [Gated -> Seq({"ok", "error"})]
        BY EmptySeq DEF ObservedInit
    <2> QED
        BY <2>1 DEF ObservedInit, TraceTypeOK, Outcomes
<1>2. \A q \in Gated : at[q] = "none" /\ root[q] = "none"
    BY DEF ObservedInit
<1> QED
    BY <1>1, <1>2 DEF TraceInv, OneEach, TraceOk, Ended

(* A step concerns one caller, and no request but the one it works for.     *)
LEMMA OtherTraces ==
    ASSUME TraceInv, NEW q \in Gated, NEW c \in Callers,
           \A d \in Callers \ {c} : call'[d] = call[d],
           \A p \in Gated \ {q} :
               /\ at'[p] = at[p] /\ hardFail'[p] = hardFail[p] /\ root'[p] = root[p]
               /\ entries'[p] = entries[p] /\ sent'[p] = sent[p] /\ fate'[p] = fate[p]
               /\ at[p] = "first" => p # c
               /\ at[p] = "later" => Later[p] # c,
           TraceTypeOK', TraceOk(q)',
           at'[q] = "later" =>
               \A p \in Gated \ {q} : ~(at[p] = "later" /\ Later[p] = Later[q])
    PROVE  TraceInv'
<1> USE CallersAssumption, LaterAssumption
<1>1. ASSUME NEW p \in Gated \ {q} PROVE TraceOk(p)'
    <2>1. TraceOk(p)
        BY DEF TraceInv
    <2>2. at[p] = "first" => call'[p] = call[p] /\ Reached(p)' = Reached(p)
        BY DEF Reached
    <2>3. at[p] = "later" => call'[Later[p]] = call[Later[p]] /\ Reached(Later[p])' = Reached(Later[p])
        BY DEF Reached
    <2>4. at[p] # "first" /\ at[p] # "later" => TraceOk(p)'
        BY <2>1 DEF TraceOk, Ended, Unmarked, Truthful
    <2>5. at[p] = "first" => TraceOk(p)'
        BY <2>1, <2>2 DEF TraceOk, Unmarked
    <2>6. at[p] = "later" => TraceOk(p)'
        BY <2>1, <2>3 DEF TraceOk, Unmarked
    <2> QED
        BY <2>4, <2>5, <2>6
<1>2. OneEach'
    BY DEF TraceInv, OneEach
<1> QED
    BY <1>1, <1>2 DEF TraceInv

(* One that works for no request. *)
LEMMA UntracedKeeps ==
    ASSUME TraceInv, NEW c \in Callers, UNCHANGED traceVars,
           \A d \in Callers \ {c} : call'[d] = call[d],
           \A p \in Gated : (at[p] = "first" => p # c) /\ (at[p] = "later" => Later[p] # c)
    PROVE  TraceInv'
<1> USE CallersAssumption, LaterAssumption
<1>0. TraceTypeOK'
    BY DEF TraceInv, TraceTypeOK, traceVars
<1>1. ASSUME NEW p \in Gated PROVE TraceOk(p)'
    <2>1. TraceOk(p) /\ UNCHANGED <<at, hardFail, root, entries, sent, fate>>
        BY DEF TraceInv, traceVars
    <2>2. at[p] = "first" => call'[p] = call[p] /\ Reached(p)' = Reached(p)
        BY DEF Reached
    <2>3. at[p] = "later" => call'[Later[p]] = call[Later[p]] /\ Reached(Later[p])' = Reached(Later[p])
        BY DEF Reached
    <2>4. at[p] # "first" /\ at[p] # "later" => TraceOk(p)'
        BY <2>1 DEF TraceOk, Ended, Unmarked, Truthful
    <2>5. at[p] = "first" => TraceOk(p)'
        BY <2>1, <2>2 DEF TraceOk, Unmarked
    <2>6. at[p] = "later" => TraceOk(p)'
        BY <2>1, <2>3 DEF TraceOk, Unmarked
    <2> QED
        BY <2>4, <2>5, <2>6
<1>2. OneEach'
    BY DEF TraceInv, OneEach, traceVars
<1> QED
    BY <1>0, <1>1, <1>2 DEF TraceInv

(* The caller of a request works for no other.                              *)
LEMMA WhoseOther ==
    ASSUME TraceInv, NEW c \in Callers, NEW q \in Whose(c)
    PROVE  /\ q \in Gated
           /\ (at[q] = "first" /\ c = q) \/ (at[q] = "later" /\ c = Later[q])
           /\ \A p \in Gated \ {q} :
                 (at[p] = "first" => p # c) /\ (at[p] = "later" => Later[p] # c)
<1> USE CallersAssumption, LaterAssumption
<1>1. CASE c \in Gated
    <2>1. q = c /\ at[q] = "first"
        BY <1>1 DEF Whose
    <2>2. \A p \in Gated : Later[p] # c
        BY <1>1
    <2>3. q \in Gated /\ \A p \in Gated \ {q} : p # c
        BY <1>1, <2>1
    <2> QED
        BY <2>1, <2>2, <2>3
<1>2. CASE c \notin Gated
    BY <1>2 DEF Whose, TraceInv, OneEach
<1> QED
    BY <1>1, <1>2

LEMMA WhoseNone ==
    ASSUME NEW c \in Callers, Whose(c) = {}
    PROVE  \A p \in Gated : (at[p] = "first" => p # c) /\ (at[p] = "later" => Later[p] # c)
<1> USE CallersAssumption, LaterAssumption
<1> QED
    BY DEF Whose

(* What a step changes of one request leaves the others as they are.        *)
OnlyOf(q) ==
    /\ \A p \in Gated \ {q} :
        /\ at'[p] = at[p] /\ hardFail'[p] = hardFail[p] /\ root'[p] = root[p]
        /\ entries'[p] = entries[p] /\ sent'[p] = sent[p] /\ fate'[p] = fate[p]
    /\ TraceTypeOK'

OnlyCalls(c) == \A d \in Callers \ {c} : call'[d] = call[d]

LEMMA CallsOne ==
    ASSUME TypeOK, NEW c \in Callers, NEW pc
    PROVE  /\ Goes(c, pc) => OnlyCalls(c) /\ call'[c].pc = pc
           /\ Ends(c) => OnlyCalls(c) /\ call'[c].pc = "idle"
           /\ \A e : Retry(c, e) => OnlyCalls(c) /\ call'[c].pc \in {"idle", "backoff"}
<1>1. call \in [Callers -> CallType]
    BY DEF TypeOK
<1>2. Goes(c, pc) => OnlyCalls(c) /\ call'[c].pc = pc
    BY <1>1 DEF Goes, OnlyCalls, CallType
<1>3. Ends(c) => OnlyCalls(c) /\ call'[c].pc = "idle"
    BY <1>1 DEF Ends, OnlyCalls, Idle
<1>4. ASSUME NEW e, Retry(c, e) PROVE OnlyCalls(c) /\ call'[c].pc \in {"idle", "backoff"}
    BY <1>1, <1>3, <1>4 DEF Retry, OnlyCalls
<1> QED
    BY <1>2, <1>3, <1>4
-----------------------------------------------------------------------------
(* One lemma per step of a request                                          *)

LEMMA ArriveKeeps ==
    ASSUME TypeOK, TraceInv, NEW q \in Gated, Arrive(q) PROVE TraceInv'
<1> USE CallersAssumption
<1>1. q \in Callers /\ at[q] = "none" /\ TraceTypeOK
    BY DEF Arrive, TraceInv
<1>2. OnlyCalls(q) /\ (Seen # "OPEN" => call'[q].pc = "admitted")
    <2>1. CASE Seen = "OPEN"
        BY <2>1 DEF Arrive, Ask, OnlyCalls
    <2>2. CASE Seen # "OPEN"
        BY <1>1, <2>2, CallsOne DEF Arrive, Ask
    <2> QED
        BY <2>1, <2>2
<1>3. entries' \in [Gated -> Seq({"ok", "error"})]
    BY <1>1, EmptySeq DEF Arrive, TraceTypeOK
<1>4. OnlyOf(q)
    <2>1. PICK to \in {"score", "chat"} : route' = [route EXCEPT ![q] = to]
        BY DEF Arrive
    <2>2. /\ route' \in [Gated -> {"score", "chat"}]
          /\ hardFail' \in [Gated -> BOOLEAN] /\ sent' \in [Gated -> Nat]
        BY <1>1, <2>1 DEF Arrive, TraceTypeOK
    <2>3. /\ at' \in [Gated -> {"none", "first", "tool", "later", "summary", "sent"}]
          /\ root' \in [Gated -> {"none", "ok", "HTTP_503", "LLM", "CLIENT_DISCONNECT"}]
          /\ fate' \in [Gated -> Outcomes \cup {"open"}]
        <3>1. CASE Seen = "OPEN"
            BY <1>1, <3>1 DEF Arrive, TraceTypeOK, Outcomes
        <3>2. CASE Seen # "OPEN"
            BY <1>1, <3>2 DEF Arrive, Moves, TraceTypeOK
        <3> QED
            BY <3>1, <3>2
    <2>4. TraceTypeOK'
        BY <1>3, <2>2, <2>3 DEF TraceTypeOK
    <2>5. \A p \in Gated \ {q} :
            /\ at'[p] = at[p] /\ hardFail'[p] = hardFail[p] /\ root'[p] = root[p]
            /\ entries'[p] = entries[p] /\ sent'[p] = sent[p] /\ fate'[p] = fate[p]
        BY <1>1 DEF Arrive, Moves, TraceTypeOK
    <2> QED
        BY <2>4, <2>5 DEF OnlyOf
<1>5. /\ hardFail'[q] = FALSE /\ entries'[q] = << >> /\ sent'[q] = 0
      /\ IF Seen = "OPEN" THEN root'[q] = "HTTP_503" /\ fate'[q] = "failed" /\ at'[q] = "none"
         ELSE fate'[q] = "open" /\ at'[q] = "first"
    BY <1>1 DEF Arrive, Moves, TraceTypeOK
<1>6. Seen # "OPEN" => Reached(q)' = 0
    BY <1>2 DEF Reached
<1>7. TraceOk(q)'
    BY <1>2, <1>5, <1>6, EmptySeq DEF TraceOk, Ended, Unmarked
<1>8. \A p \in Gated \ {q} : at[p] = "later" => Later[p] # q
    BY LaterAssumption
<1> QED
    BY <1>1, <1>2, <1>4, <1>5, <1>7, <1>8, OtherTraces DEF OnlyCalls, OnlyOf

LEMMA AskAgainKeeps ==
    ASSUME TypeOK, TraceInv, NEW q \in Gated, AskAgain(q) PROVE TraceInv'
<1> DEFINE c == Later[q]
<1> USE CallersAssumption, LaterAssumption
<1>1. c \in Callers \ Gated /\ at[q] = "tool" /\ TraceTypeOK /\ TraceOk(q)
    BY DEF AskAgain, TraceInv
<1>2. OnlyCalls(c) /\ call'[c].pc = "admitted"
    BY <1>1, CallsOne DEF AskAgain, AskDirectly
<1>3. OnlyOf(q) /\ at'[q] = "later"
    BY <1>1 DEF AskAgain, Moves, OnlyOf, TraceTypeOK
<1>4. Reached(c)' = 0
    BY <1>2 DEF Reached
<1>5. TraceOk(q)'
    BY <1>1, <1>2, <1>3, <1>4 DEF AskAgain, TraceOk, Unmarked
<1>6. \A p \in Gated : ~(at[p] = "later" /\ Later[p] = c)
    BY DEF AskAgain
<1> QED
    BY <1>1, <1>2, <1>3, <1>5, <1>6, OtherTraces DEF OnlyCalls, OnlyOf

(* The steps that end a request, or go on to its summary, call nobody.      *)
LEMMA OwnStep ==
    ASSUME TraceInv, NEW q \in Gated, UNCHANGED call, OnlyOf(q), TraceOk(q)',
           at'[q] # "later"
    PROVE  TraceInv'
<1> USE CallersAssumption, LaterAssumption
<1>1. ASSUME NEW p \in Gated \ {q} PROVE TraceOk(p)'
    <2>1. Reached(p)' = Reached(p) /\ Reached(Later[p])' = Reached(Later[p])
        BY DEF Reached
    <2> QED
        BY <2>1 DEF TraceInv, OnlyOf, TraceOk, Ended, Unmarked, Truthful
<1>2. OneEach'
    BY DEF TraceInv, OneEach, OnlyOf
<1> QED
    BY <1>1, <1>2 DEF TraceInv, OnlyOf

LEMMA AnsweredStep ==
    ASSUME TraceTypeOK, NEW q \in Gated, Answered(q)
    PROVE  /\ at' \in [Gated -> {"none", "first", "tool", "later", "summary", "sent"}]
           /\ sent' \in [Gated -> Nat] /\ fate' \in [Gated -> Outcomes \cup {"open"}]
           /\ \A p \in Gated \ {q} : at'[p] = at[p] /\ sent'[p] = sent[p] /\ fate'[p] = fate[p]
           /\ fate'[q] = "answered"
           /\ \/ at'[q] = "sent" /\ sent'[q] = sent[q]
              \/ at'[q] = "summary" /\ sent'[q] = sent[q] + 1
<1>1. fate' = [fate EXCEPT ![q] = "answered"]
    BY DEF Answered
<1>2. \/ Moves(q, "sent") /\ UNCHANGED sent
      \/ Moves(q, "summary") /\ sent' = [sent EXCEPT ![q] = @ + 1]
    BY DEF Answered
<1>3. fate' \in [Gated -> Outcomes \cup {"open"}] /\ fate'[q] = "answered"
    BY <1>1 DEF TraceTypeOK, Outcomes
<1>4. CASE Moves(q, "sent") /\ UNCHANGED sent
    BY <1>1, <1>3, <1>4 DEF Moves, TraceTypeOK
<1>5. CASE Moves(q, "summary") /\ sent' = [sent EXCEPT ![q] = @ + 1]
    BY <1>1, <1>3, <1>5 DEF Moves, TraceTypeOK
<1> QED
    BY <1>2, <1>4, <1>5

LEMMA FixedTextKeeps ==
    ASSUME TraceInv, NEW q \in Gated, FixedText(q) PROVE TraceInv'
<1>1. TraceTypeOK /\ TraceOk(q) /\ at[q] = "tool" /\ UNCHANGED call
    BY DEF TraceInv, FixedText, vars
<1>2. OnlyOf(q) /\ fate'[q] = "answered" /\ hardFail'[q] = FALSE /\ entries'[q] = <<"ok">>
    BY <1>1, AnsweredStep DEF FixedText, OnlyOf, TraceTypeOK, TraceOk, Unmarked
<1>3. (at'[q] = "sent" /\ sent'[q] = 1) \/ (at'[q] = "summary" /\ sent'[q] = 2)
    BY <1>1, AnsweredStep DEF FixedText, TraceOk
<1>4. Len(<<"ok">>) = 1 /\ <<"ok">>[1] = "ok" /\ <<"ok">> # << >>
    OBVIOUS
<1>5. TraceOk(q)'
    BY <1>2, <1>3, <1>4 DEF TraceOk, Truthful
<1> QED
    BY <1>1, <1>2, <1>3, <1>5, OwnStep

LEMMA SummarizeKeeps ==
    ASSUME TraceInv, NEW q \in Gated, Summarize(q) PROVE TraceInv'
<1>1. TraceTypeOK /\ TraceOk(q) /\ at[q] = "summary" /\ UNCHANGED call
    BY DEF TraceInv, Summarize, vars
<1>2. PICK x \in {"ok", "error"} : Records(q, x)
    BY DEF Summarize
<1> DEFINE s == entries[q]
           t == Append(s, x)
<1>3. /\ t \in Seq({"ok", "error"}) /\ Len(t) = Len(s) + 1 /\ Len(s) \in Nat
      /\ \A i \in 1..Len(s) : t[i] = s[i]
    BY <1>1, Recorded DEF TraceTypeOK
<1>4. entries' = [entries EXCEPT ![q] = t]
    BY <1>2 DEF Records
<1> HIDE DEF t
<1>5. OnlyOf(q) /\ entries'[q] = t /\ at'[q] = "sent"
    BY <1>1, <1>3, <1>4 DEF Summarize, Moves, OnlyOf, TraceTypeOK, Outcomes
<1>6. fate'[q] = "answered" /\ hardFail'[q] = FALSE /\ sent'[q] = Len(s) + 1
    BY <1>1 DEF Summarize, TraceOk
<1>7. /\ \A i \in 1..Len(s) : s[i] = "ok"
      /\ s # << >>
    BY <1>1 DEF TraceOk
<1>8. Len(s) > 0
    BY <1>1, <1>7, EmptySeq DEF TraceTypeOK
<1>9. \A i \in 1..Len(t) : t[i] = "ok" \/ (i > 1 /\ i = Len(t))
    BY <1>3, <1>7, <1>8
<1>10. TraceOk(q)'
    BY <1>3, <1>5, <1>6, <1>9 DEF TraceOk, Truthful
<1> QED
    BY <1>1, <1>5, <1>10, OwnStep

LEMMA LeaveBetweenKeeps ==
    ASSUME TraceInv, NEW q \in Gated, LeaveBetween(q) PROVE TraceInv'
<1>1. TraceTypeOK /\ UNCHANGED call
    BY DEF TraceInv, LeaveBetween, vars
<1>2. OnlyOf(q) /\ at'[q] = "sent" /\ fate'[q] = "left"
    BY <1>1 DEF LeaveBetween, Comes, Moves, OnlyOf, TraceTypeOK, Outcomes
<1>3. TraceOk(q)'
    BY <1>2 DEF TraceOk, Truthful
<1> QED
    BY <1>1, <1>2, <1>3, OwnStep

LEMMA FinishKeeps ==
    ASSUME TraceInv, NEW q \in Gated, Finish(q) PROVE TraceInv'
<1>1. TraceTypeOK /\ TraceOk(q) /\ at[q] = "sent" /\ UNCHANGED call
    BY DEF TraceInv, Finish, vars
<1>2. PICK aborted \in {FALSE} \cup {fate[q] = "left"} :
        root' = [root EXCEPT ![q] = IF aborted THEN "CLIENT_DISCONNECT"
                                    ELSE IF hardFail[q] THEN "LLM" ELSE "ok"]
    BY DEF Finish
<1>3. /\ OnlyOf(q) /\ at'[q] = "none"
      /\ root'[q] = IF aborted THEN "CLIENT_DISCONNECT" ELSE IF hardFail[q] THEN "LLM" ELSE "ok"
    BY <1>1, <1>2 DEF Finish, Moves, OnlyOf, TraceTypeOK
<1>4. ASSUME fate[q] # "left"
      PROVE  root'[q] = "ok" <=> fate[q] \in {"answered", "unusable", "broken", "shed"}
    <2>1. ~aborted
        BY <1>4
    <2>2. hardFail[q] <=> fate[q] = "failed"
        BY <1>1, <1>4 DEF TraceOk, Truthful
    <2>3. fate[q] \in Outcomes
        BY <1>1 DEF TraceOk, TraceTypeOK
    <2> QED
        BY <1>3, <1>4, <2>1, <2>2, <2>3 DEF Outcomes
<1>5. ASSUME fate[q] # "left", root'[q] = "ok" PROVE ~hardFail[q]
    BY <1>3, <1>5
<1>6. UNCHANGED <<entries, sent, fate>>
    BY DEF Finish
<1>7. Ended(q)'
    BY <1>1, <1>4, <1>5, <1>6 DEF Ended, TraceOk, Truthful
<1>8. TraceOk(q)'
    BY <1>3, <1>7 DEF TraceOk
<1> QED
    BY <1>1, <1>3, <1>8, OwnStep

LEMMA WithoutCallKeeps ==
    ASSUME TypeOK, TraceInv, NEW q \in Gated, WithoutCall(q) PROVE TraceInv'
<1> USE CallersAssumption
<1>1. q \in Callers /\ at[q] = "first" /\ call[q].pc = "admitted" /\ TraceTypeOK /\ TraceOk(q)
    BY DEF WithoutCall, TraceInv
<1>2. OnlyCalls(q)
    BY <1>1, CallsOne DEF WithoutCall, Abandon
<1>3. PICK to \in {"answered", "broken"} : Comes(q, to)
    BY DEF WithoutCall
<1>4. OnlyOf(q) /\ at'[q] = "sent" /\ fate'[q] = to
    BY <1>1, <1>3 DEF WithoutCall, Comes, Moves, OnlyOf, TraceTypeOK, Outcomes
<1>5. sent[q] = 0 /\ entries[q] = << >> /\ hardFail[q] = FALSE
    BY <1>1 DEF TraceOk, Unmarked, Reached
<1>6. TraceOk(q)'
    BY <1>4, <1>5, EmptySeq DEF WithoutCall, TraceOk, Truthful
<1>7. \A p \in Gated \ {q} : at[p] = "later" => Later[p] # q
    BY LaterAssumption
<1> QED
    BY <1>1, <1>2, <1>4, <1>6, <1>7, OtherTraces DEF OnlyCalls, OnlyOf
-----------------------------------------------------------------------------
(* One lemma per step of a caller                                           *)

(* A caller that works for no request, or goes on for the one it works for. *)
LEMMA UntracedStep ==
    ASSUME TraceInv, NEW c \in Callers, OnlyCalls(c), Untraced(c) PROVE TraceInv'
BY WhoseNone, UntracedKeeps DEF Untraced, OnlyCalls

LEMMA GoesOnKeeps ==
    ASSUME TraceInv, NEW c \in Callers, OnlyCalls(c), UNCHANGED traceVars,
           call[c].pc \in {"flight", "stream", "backoff"},
           call'[c].pc \in {"flight", "stream", "backoff"}
    PROVE  TraceInv'
<1> USE CallersAssumption, LaterAssumption
<1>1. \A d \in Callers : Reached(d)' = Reached(d) /\ (call'[d].pc # "idle" <=> call[d].pc # "idle")
    BY DEF Reached, OnlyCalls
<1>2. UNCHANGED <<route, at, hardFail, root, entries, sent, fate>>
    BY DEF traceVars
<1>3. ASSUME NEW p \in Gated PROVE TraceOk(p)'
    <2>1. TraceOk(p) /\ p \in Callers /\ Later[p] \in Callers
        BY DEF TraceInv
    <2> QED
        BY <1>1, <1>2, <2>1 DEF TraceOk, Ended, Unmarked, Truthful
<1>4. TraceTypeOK' /\ OneEach'
    BY <1>2 DEF TraceInv, TraceTypeOK, OneEach
<1> QED
    BY <1>3, <1>4 DEF TraceInv

LEMMA ElsewhereKeeps ==
    ASSUME TypeOK, TraceInv, NEW c \in Callers, Elsewhere(c) PROVE TraceInv'
<1>1. OnlyCalls(c)
    BY CallsOne DEF Elsewhere, AskDirectly
<1>2. \A p \in Gated : (at[p] = "first" => p # c) /\ (at[p] = "later" => Later[p] # c)
    BY DEF Elsewhere, AskDirectly
<1> QED
    BY <1>1, <1>2, UntracedKeeps DEF Elsewhere, OnlyCalls

(* What the trace holds when the caller of q makes a step.                  *)
LEMMA WhoseTrace ==
    ASSUME TraceInv, NEW c \in Callers, NEW q \in Whose(c)
    PROVE  /\ fate[q] = "open" /\ hardFail[q] = FALSE
           /\ entries[q] \in Seq({"ok", "error"}) /\ Len(entries[q]) \in Nat
           /\ \A i \in 1..Len(entries[q]) : entries[q][i] = "ok"
           /\ sent[q] = Len(entries[q]) + Reached(c)
           /\ at[q] = "first" => entries[q] = << >>
<1>1. q \in Gated /\ TraceOk(q) /\ TraceTypeOK
    BY WhoseOther DEF TraceInv
<1>2. CASE at[q] = "first" /\ c = q
    BY <1>1, <1>2, EmptySeq DEF TraceOk, Unmarked, TraceTypeOK
<1>3. CASE at[q] = "later" /\ c = Later[q]
    <2>1. Len(<<"ok">>) = 1 /\ <<"ok">>[1] = "ok"
        OBVIOUS
    <2>2. entries[q] = <<"ok">> /\ sent[q] = 1 + Reached(c) /\ Unmarked(q)
        BY <1>1, <1>3 DEF TraceOk
    <2>3. Reached(c) \in Nat
        BY DEF Reached
    <2>4. entries[q] \in Seq({"ok", "error"})
        BY <1>1 DEF TraceTypeOK
    <2>5. \A i \in 1..1 : <<"ok">>[i] = "ok"
        BY <2>1
    <2> QED
        BY <1>3, <2>1, <2>2, <2>3, <2>4, <2>5 DEF Unmarked
<1> QED
    BY <1>2, <1>3, WhoseOther

(* The step of a caller that ends its request's wait.                       *)
LEMMA CallerStep ==
    ASSUME TraceInv, NEW c \in Callers, NEW q \in Whose(c), OnlyCalls(c), OnlyOf(q), TraceOk(q)',
           at'[q] = "later" => at[q] = "later"
    PROVE  TraceInv'
<1>1. q \in Gated /\ \A p \in Gated \ {q} :
            (at[p] = "first" => p # c) /\ (at[p] = "later" => Later[p] # c)
    BY WhoseOther
<1>2. at'[q] = "later" => \A p \in Gated \ {q} : ~(at[p] = "later" /\ Later[p] = Later[q])
    BY <1>1 DEF TraceInv, OneEach
<1> QED
    BY <1>1, <1>2, OtherTraces DEF OnlyCalls, OnlyOf

LEMMA AcquireKeeps ==
    ASSUME TypeOK, TraceInv, NEW c \in Callers, ObservedAcquire(c) PROVE TraceInv'
<1>1. Acquire(c) /\ call[c].pc = "admitted"
    BY DEF ObservedAcquire, Acquire
<1>2. OnlyCalls(c) /\ call'[c].pc = IF state = "OPEN" /\ left > 0 THEN "idle" ELSE "flight"
    BY <1>1, CallsOne DEF Acquire
<1>3. CASE Untraced(c)
    BY <1>2, <1>3, UntracedStep
<1>4. ASSUME NEW q \in Whose(c), state = "OPEN", left > 0,
             IF MarkedRefusal(q) THEN Marks(q) ELSE UNCHANGED hardFail,
             Comes(q, IF at[q] = "first" THEN "failed" ELSE "shed"),
             UNCHANGED <<route, root, entries, sent>>
      PROVE  TraceInv'
    <2>1. q \in Gated /\ TraceTypeOK /\ (at[q] = "first" \/ at[q] = "later")
        BY <1>4, WhoseOther DEF TraceInv
    <2> DEFINE to == IF at[q] = "first" THEN "failed" ELSE "shed"
    <2>2. /\ at' = [at EXCEPT ![q] = "sent"] /\ fate' = [fate EXCEPT ![q] = to]
          /\ to \in {"failed", "shed"} /\ (to = "failed" <=> at[q] = "first")
        BY <1>4 DEF Comes, Moves
    <2>3. /\ hardFail' \in [Gated -> BOOLEAN] /\ (hardFail'[q] <=> at[q] = "first")
          /\ \A p \in Gated \ {q} : hardFail'[p] = hardFail[p]
        <3>1. hardFail[q] = FALSE
            BY <1>4, WhoseTrace
        <3> QED
            BY <1>4, <2>1, <3>1 DEF MarkedRefusal, Marks, TraceTypeOK
    <2> HIDE DEF to
    <2>4. OnlyOf(q) /\ at'[q] = "sent" /\ fate'[q] = to
        BY <1>4, <2>1, <2>2, <2>3 DEF OnlyOf, TraceTypeOK, Outcomes
    <2>5. sent[q] = Len(entries[q])
        <3>1. sent[q] = Len(entries[q]) + Reached(c) /\ Len(entries[q]) \in Nat
            BY <1>4, WhoseTrace
        <3>2. Reached(c) = 0
            BY <1>1 DEF Reached
        <3> QED
            BY <3>1, <3>2
    <2>6. \A i \in 1..Len(entries[q]) : entries[q][i] = "ok"
        BY <1>4, WhoseTrace
    <2>7. TraceOk(q)'
        BY <1>4, <2>2, <2>3, <2>4, <2>5, <2>6 DEF TraceOk, Truthful
    <2> QED
        BY <1>2, <1>4, <2>4, <2>7, CallerStep
<1>5. ASSUME NEW q \in Whose(c), ~(state = "OPEN" /\ left > 0),
             sent' = [sent EXCEPT ![q] = @ + 1],
             UNCHANGED <<route, at, hardFail, root, entries, fate>>
      PROVE  TraceInv'
    <2>1. q \in Gated /\ TraceTypeOK /\ TraceOk(q)
        BY <1>5, WhoseOther DEF TraceInv
    <2>2. OnlyOf(q) /\ sent'[q] = sent[q] + 1 /\ at'[q] = at[q]
        BY <1>5, <2>1 DEF OnlyOf, TraceTypeOK
    <2>3. Reached(c) = 0 /\ Reached(c)' = 1 /\ call'[c].pc # "idle"
        BY <1>1, <1>2, <1>5 DEF Reached
    <2>4. (at[q] = "first" /\ c = q) \/ (at[q] = "later" /\ c = Later[q])
        BY <1>5, WhoseOther
    <2>5. TraceOk(q)'
        BY <1>5, <2>1, <2>2, <2>3, <2>4 DEF TraceOk, Unmarked
    <2> QED
        BY <1>2, <1>5, <2>2, <2>5, CallerStep
<1> QED
    BY <1>3, <1>4, <1>5 DEF ObservedAcquire

LEMMA SucceedKeeps ==
    ASSUME TypeOK, TraceInv, NEW c \in Callers, ObservedSucceed(c) PROVE TraceInv'
<1>1. OnlyCalls(c) /\ Reached(c) = 1
    BY CallsOne DEF ObservedSucceed, Succeed, Reached
<1>2. CASE Untraced(c)
    BY <1>1, <1>2, UntracedStep
<1>3. ASSUME NEW q \in Whose(c), Records(q, "ok"),
             \/ Answered(q)
             \/ Comes(q, "unusable") /\ UNCHANGED sent
             \/ at[q] = "first" /\ Moves(q, "tool") /\ UNCHANGED <<sent, fate>>,
             UNCHANGED <<route, hardFail, root>>
      PROVE  TraceInv'
    <2> DEFINE s == entries[q]
               t == Append(s, "ok")
    <2>1. /\ q \in Gated /\ TraceTypeOK /\ fate[q] = "open" /\ hardFail[q] = FALSE
          /\ s \in Seq({"ok", "error"}) /\ sent[q] = Len(s) + 1
          /\ \A i \in 1..Len(s) : s[i] = "ok"
          /\ at[q] = "first" => s = << >>
        <3>1. q \in Gated /\ TraceTypeOK
            BY <1>3, WhoseOther DEF TraceInv
        <3>2. /\ fate[q] = "open" /\ hardFail[q] = FALSE
              /\ s \in Seq({"ok", "error"}) /\ sent[q] = Len(s) + Reached(c)
              /\ \A i \in 1..Len(s) : s[i] = "ok"
              /\ at[q] = "first" => s = << >>
            BY <1>3, WhoseTrace
        <3> QED
            BY <1>1, <3>1, <3>2
    <2>2. /\ t \in Seq({"ok", "error"}) /\ t # << >> /\ Len(t) = sent[q]
          /\ \A i \in 1..Len(t) : t[i] = "ok"
        <3>1. /\ t \in Seq({"ok", "error"}) /\ t # << >> /\ Len(t) = Len(s) + 1 /\ Len(s) \in Nat
              /\ \A i \in 1..Len(s) : t[i] = s[i]
              /\ t[Len(s) + 1] = "ok"
            BY <2>1, Recorded
        <3> HIDE DEF t
        <3>2. ASSUME NEW i \in 1..Len(t) PROVE t[i] = "ok"
            <4>1. i \in 1..Len(s) \/ i = Len(s) + 1
                BY <3>1
            <4> QED
                BY <2>1, <3>1, <4>1
        <3> QED
            BY <2>1, <3>1, <3>2
    <2>3. at[q] = "first" => t = <<"ok">> /\ Len(t) = 1
        <3>1. << >> \in Seq({"ok", "error"}) /\ Append(<< >>, "ok") = <<"ok">> /\ Len(<<"ok">>) = 1
            OBVIOUS
        <3> QED
            BY <2>1, <3>1
    <2>4. entries' = [entries EXCEPT ![q] = t]
        BY <1>3 DEF Records
    <2> HIDE DEF t
    <2>5. /\ entries' \in [Gated -> Seq({"ok", "error"})] /\ entries'[q] = t
          /\ \A p \in Gated \ {q} : entries'[p] = entries[p]
        BY <2>1, <2>2, <2>4 DEF TraceTypeOK
    <2>6. hardFail'[q] = FALSE
        BY <1>3, <2>1
    <2>7. CASE Answered(q)
        <3>1. OnlyOf(q)
            BY <1>3, <2>1, <2>5, <2>7, AnsweredStep DEF OnlyOf, TraceTypeOK
        <3>2. /\ fate'[q] = "answered"
              /\ \/ at'[q] = "sent" /\ sent'[q] = sent[q]
                 \/ at'[q] = "summary" /\ sent'[q] = sent[q] + 1
            BY <2>1, <2>7, AnsweredStep
        <3>3. TraceOk(q)'
            BY <2>2, <2>5, <2>6, <3>2 DEF TraceOk, Truthful
        <3> QED
            BY <1>1, <1>3, <3>1, <3>2, <3>3, CallerStep
    <2>8. CASE Comes(q, "unusable") /\ UNCHANGED sent
        <3>1. OnlyOf(q) /\ at'[q] = "sent" /\ fate'[q] = "unusable" /\ sent'[q] = sent[q]
            BY <1>3, <2>1, <2>5, <2>8 DEF Comes, Moves, OnlyOf, TraceTypeOK, Outcomes
        <3>2. TraceOk(q)'
            BY <2>2, <2>5, <2>6, <3>1 DEF TraceOk, Truthful
        <3> QED
            BY <1>1, <1>3, <3>1, <3>2, CallerStep
    <2>9. CASE at[q] = "first" /\ Moves(q, "tool") /\ UNCHANGED <<sent, fate>>
        <3>1. OnlyOf(q) /\ at'[q] = "tool"
            BY <1>3, <2>1, <2>5, <2>9 DEF Moves, OnlyOf, TraceTypeOK
        <3>2. TraceOk(q)'
            BY <2>1, <2>2, <2>3, <2>5, <2>6, <2>9, <3>1 DEF TraceOk, Unmarked
        <3> QED
            BY <1>1, <1>3, <3>1, <3>2, CallerStep
    <2> QED
        BY <1>3, <2>7, <2>8, <2>9
<1> QED
    BY <1>2, <1>3 DEF ObservedSucceed

LEMMA FailsKeeps ==
    ASSUME TypeOK, TraceInv, NEW c \in Callers, NEW e \in Errors, ObservedFails(c, e)
    PROVE  TraceInv'
<1>1. Fails(c, e) /\ Retry(c, e) /\ call[c].pc \in {"flight", "stream"}
    BY DEF ObservedFails, Fails
<1>2. OnlyCalls(c) /\ Reached(c) = 1
    BY <1>1, CallsOne DEF Reached
<1>3. CASE Untraced(c)
    BY <1>2, <1>3, UntracedStep
<1>4. CASE call[c].attempts < RetrySchedule(e) /\ UNCHANGED traceVars
    <2>1. call'[c].pc = "backoff"
        <3>1. call \in [Callers -> CallType] /\ RetrySchedule(e) \in Nat /\ call[c].attempts \in Nat
            BY SettingsAssumption DEF RetrySchedule, TypeOK, CallType
        <3>2. ~(call[c].attempts >= RetrySchedule(e))
            BY <1>4, <3>1
        <3> QED
            BY <1>1, <3>1, <3>2 DEF Retry
    <2> QED
        BY <1>1, <1>2, <1>4, <2>1, GoesOnKeeps
<1>5. ASSUME NEW q \in Whose(c), Records(q, "error"), Marks(q), Comes(q, "failed"),
             UNCHANGED <<route, root, sent>>
      PROVE  TraceInv'
    <2> DEFINE s == entries[q]
               t == Append(s, "error")
    <2>1. /\ q \in Gated /\ TraceTypeOK /\ s \in Seq({"ok", "error"}) /\ sent[q] = Len(s) + 1
        <3>1. q \in Gated /\ TraceTypeOK
            BY <1>5, WhoseOther DEF TraceInv
        <3>2. s \in Seq({"ok", "error"}) /\ sent[q] = Len(s) + Reached(c)
            BY <1>5, WhoseTrace
        <3> QED
            BY <1>2, <3>1, <3>2
    <2>2. t \in Seq({"ok", "error"}) /\ Len(t) = sent[q]
        BY <2>1, Recorded
    <2>3. entries' = [entries EXCEPT ![q] = t]
        BY <1>5 DEF Records
    <2> HIDE DEF t
    <2>4. OnlyOf(q)
        BY <1>5, <2>1, <2>2, <2>3 DEF Comes, Moves, Marks, OnlyOf, TraceTypeOK, Outcomes
    <2>5. /\ entries'[q] = t /\ at'[q] = "sent" /\ fate'[q] = "failed" /\ hardFail'[q] = TRUE
          /\ sent'[q] = sent[q]
        BY <1>5, <2>1, <2>3 DEF Comes, Moves, Marks, TraceTypeOK
    <2>6. TraceOk(q)'
        BY <2>2, <2>5 DEF TraceOk, Truthful
    <2> QED
        BY <1>2, <1>5, <2>4, <2>5, <2>6, CallerStep
<1>6. RetrySchedule(e) \in Nat /\ call[c].attempts \in Nat
    BY SettingsAssumption DEF RetrySchedule, TypeOK, CallType
<1> QED
    BY <1>3, <1>4, <1>5, <1>6 DEF ObservedFails

LEMMA AbandonKeeps ==
    ASSUME TypeOK, TraceInv, NEW c \in Callers, ObservedAbandon(c) PROVE TraceInv'
<1>1. OnlyCalls(c)
    BY CallsOne DEF ObservedAbandon, Abandon
<1>2. CASE Untraced(c)
    BY <1>1, <1>2, UntracedStep
<1>3. ASSUME NEW q \in Whose(c),
             (\E x \in {"ok", "error"} : Records(q, x)) \/ UNCHANGED entries,
             Comes(q, "left"), UNCHANGED <<route, hardFail, root, sent>>
      PROVE  TraceInv'
    <2>1. q \in Gated /\ TraceTypeOK
        BY <1>3, WhoseOther DEF TraceInv
    <2>2. /\ entries' \in [Gated -> Seq({"ok", "error"})]
          /\ \A p \in Gated \ {q} : entries'[p] = entries[p]
        <3>1. CASE UNCHANGED entries
            BY <2>1, <3>1 DEF TraceTypeOK
        <3>2. ASSUME NEW x \in {"ok", "error"}, Records(q, x)
              PROVE  /\ entries' \in [Gated -> Seq({"ok", "error"})]
                     /\ \A p \in Gated \ {q} : entries'[p] = entries[p]
            <4> DEFINE t == Append(entries[q], x)
            <4>1. t \in Seq({"ok", "error"})
                BY <2>1, Recorded DEF TraceTypeOK
            <4>2. entries' = [entries EXCEPT ![q] = t]
                BY <3>2 DEF Records
            <4> HIDE DEF t
            <4> QED
                BY <2>1, <4>1, <4>2 DEF TraceTypeOK
        <3> QED
            BY <1>3, <3>1, <3>2
    <2>3. OnlyOf(q) /\ at'[q] = "sent" /\ fate'[q] = "left"
        BY <1>3, <2>1, <2>2 DEF Comes, Moves, OnlyOf, TraceTypeOK, Outcomes
    <2>4. TraceOk(q)'
        BY <2>3 DEF TraceOk, Truthful
    <2> QED
        BY <1>1, <1>3, <2>3, <2>4, CallerStep
<1> QED
    BY <1>2, <1>3 DEF ObservedAbandon

LEMMA NobodyCalls ==
    ASSUME TraceInv, UNCHANGED <<call, traceVars>> PROVE TraceInv'
<1>1. UNCHANGED <<route, at, hardFail, root, entries, sent, fate>>
    BY DEF traceVars
<1>2. \A p : TraceOk(p) => TraceOk(p)'
    BY <1>1 DEF TraceOk, Ended, Unmarked, Truthful, Reached
<1> QED
    BY <1>1, <1>2 DEF TraceInv, TraceTypeOK, OneEach

-----------------------------------------------------------------------------
LEMMA TraceStep ==
    ASSUME TypeOK, TraceInv, [ObservedNext]_obsVars PROVE TraceInv'
<1>1. CASE (Tick \/ AiStatus \/ Provider) /\ UNCHANGED traceVars
    BY <1>1, NobodyCalls DEF Tick, AiStatus, Provider
<1>2. ASSUME NEW q \in Gated, Arrive(q) \/ WithoutCall(q) \/ LeaveBetween(q) \/ Works(q)
      PROVE  TraceInv'
    BY <1>2, ArriveKeeps, WithoutCallKeeps, LeaveBetweenKeeps, AskAgainKeeps, FixedTextKeeps,
       SummarizeKeeps, FinishKeeps DEF Works
<1>3. ASSUME NEW c \in Callers, ObservedGoesOn(c) PROVE TraceInv'
    <2>1. OnlyCalls(c) /\ call[c].pc \in {"flight", "backoff"} /\ call'[c].pc \in {"flight", "stream"}
        BY <1>3, CallsOne DEF ObservedGoesOn, FirstChunk, Resend
    <2> QED
        BY <1>3, <2>1, GoesOnKeeps DEF ObservedGoesOn
<1>4. ASSUME NEW c \in Callers, Elsewhere(c) \/ ObservedServe(c) \/ ObservedAbandon(c)
      PROVE  TraceInv'
    BY <1>3, <1>4, ElsewhereKeeps, AcquireKeeps, SucceedKeeps, FailsKeeps, AbandonKeeps
       DEF ObservedServe
<1>5. CASE UNCHANGED obsVars
    BY <1>5, NobodyCalls DEF obsVars, vars
<1> QED
    BY <1>1, <1>2, <1>4, <1>5 DEF ObservedNext

THEOREM TraceInvHolds == ObservedSpec => []TraceInv
<1>1. ObservedInit => TraceInv
    BY TraceInit
<1>2. TypeOK /\ TraceInv /\ [ObservedNext]_obsVars => TraceInv'
    BY TraceStep
<1> QED
    BY <1>1, <1>2, ObservedIsClient, TypeCorrect, PTL DEF ObservedSpec

(* However calls of several requests, their retries, refusals, tools and    *)
(* summaries interleave, what the platform is told of a request is true.    *)
THEOREM TraceIsHonestHolds == ObservedSpec => []TraceIsHonest
<1>1. TraceInv => TraceIsHonest
    <2> SUFFICES ASSUME TraceInv, NEW q \in Gated,
                        at[q] = "none", root[q] # "none", fate[q] # "left"
                 PROVE  /\ root[q] = "ok" <=> fate[q] \in {"answered", "unusable", "broken", "shed"}
                        /\ root[q] = "ok" => \A i \in DOMAIN entries[q] :
                               entries[q][i] = "ok"
                               \/ (fate[q] = "answered" /\ i > 1 /\ i = Len(entries[q]))
                        /\ Len(entries[q]) = sent[q]
        BY DEF TraceIsHonest
    <2>1. Ended(q) /\ DOMAIN entries[q] = 1..Len(entries[q])
        BY LenProperties DEF TraceInv, TraceOk, TraceTypeOK
    <2> QED
        BY <2>1 DEF Ended
<1> QED
    BY <1>1, TraceInvHolds, PTL

-----------------------------------------------------------------------------
(* The stream of a score *)

USE StreamAssumption

-----------------------------------------------------------------------------
(* The inductive invariant *)

CacheType ==
    /\ redis \in BOOLEAN /\ dirty \in BOOLEAN
    /\ now \in [Kinds -> 0..MaxChanges] /\ changing \subseteq Kinds
    /\ runs \in 0..MaxRuns
    /\ conn \in [Clients -> Connection]
    /\ basis \in [Runs -> [Kinds -> 0..MaxChanges]]
    /\ overlap \subseteq Runs

(* Every run belongs to one stream, and was started.                        *)
RunsApart ==
    /\ \A c \in Clients : conn[c] # Off => conn[c].run <= runs
    /\ \A c, d \in Clients :
            conn[c] # Off /\ conn[d] # Off /\ conn[c].run = conn[d].run => c = d

(* A score is cached once its run is over.                                  *)
Working(c) == conn[c].at \in {"lookup", "retrieve", "ask", "live", "save"}

CachedAreOver ==
    /\ \A n \in Runs : scores = Body(n) => n <= runs
    /\ \A c \in Clients : Working(c) => scores # Body(conn[c].run)

(* A run that is to be saved has used what is in force, or was under way    *)
(* when the scores were flushed.                                            *)
Settled == changing = {} /\ ~dirty

ToBeSaved(c) ==
    \/ conn[c].at = "save"
    \/ conn[c].at = "live" /\ conn[c].next >= 3 /\ conn[c].kept

TextFresh(c) ==
    conn[c].at = "ask" =>
        conn[c].run \in overlap \/ basis[conn[c].run]["text"] = now["text"]

RunFresh(c) ==
    ToBeSaved(c) => conn[c].run \in overlap \/ basis[conn[c].run] = now

ScoreFresh == \A n \in Runs : scores = Body(n) => n \in overlap \/ basis[n] = now

Fresh ==
    Settled => ScoreFresh /\ \A c \in Clients : TextFresh(c) /\ RunFresh(c)

CacheInv == CacheType /\ CacheIsOneRun /\ RunsApart /\ CachedAreOver /\ Fresh

-----------------------------------------------------------------------------
(* The frames of a run tell which run it was.                               *)
LEMMA BodyTells ==
    ASSUME NEW m, NEW n, Body(m) = Body(n)
    PROVE  m = n
<1>1. 1 \in 1..(LastFrame - 1)
  OBVIOUS
<1>2. Body(m)[1].run = m /\ Body(n)[1].run = n
  BY <1>1 DEF Body, Frame
<1> QED
  BY <1>2

LEMMA BodyIsNotEmpty ==
    ASSUME NEW n
    PROVE  Body(n) # << >>
<1>1. DOMAIN Body(n) = 1..(LastFrame - 1)
  BY DEF Body
<1>2. 1 \in 1..(LastFrame - 1)
  OBVIOUS
<1>3. 1 \notin DOMAIN << >>
  OBVIOUS
<1> QED
  BY <1>1, <1>2, <1>3

(* What a run used is known by its text and its settings.                   *)
LEMMA SameBasis ==
    ASSUME NEW a \in [Kinds -> 0..MaxChanges], NEW b \in [Kinds -> 0..MaxChanges],
           a["text"] = b["text"], a["settings"] = b["settings"]
    PROVE  a = b
BY DEF Kinds

-----------------------------------------------------------------------------
THEOREM CacheInit == StreamInit => CacheInv
<1> SUFFICES ASSUME StreamInit PROVE CacheInv
  OBVIOUS
<1>1. \A n \in Runs : scores # Body(n)
  BY BodyIsNotEmpty DEF StreamInit
<1>2. CacheType
  <2>1. now \in [Kinds -> 0..MaxChanges]
    BY DEF StreamInit
  <2>2. basis \in [Runs -> [Kinds -> 0..MaxChanges]]
    BY <2>1 DEF StreamInit
  <2>3. conn \in [Clients -> Connection]
    BY DEF StreamInit, Connection
  <2>4. runs \in 0..MaxRuns /\ changing \subseteq Kinds /\ overlap \subseteq Runs
    BY DEF StreamInit
  <2>5. redis \in BOOLEAN /\ dirty \in BOOLEAN
    BY DEF StreamInit
  <2> QED
    BY <2>1, <2>2, <2>3, <2>4, <2>5 DEF CacheType
<1>3. \A c \in Clients : conn[c] = Off
  BY DEF StreamInit
<1>4. CacheIsOneRun /\ RunsApart
  BY <1>3 DEF StreamInit, CacheIsOneRun, RunsApart
<1>5. CachedAreOver
  BY <1>1, <1>3 DEF CachedAreOver, Working, Off
<1>6. Fresh
  BY <1>1, <1>3 DEF Fresh, ScoreFresh, TextFresh, RunFresh, ToBeSaved, Off
<1> QED
  BY <1>2, <1>4, <1>5, <1>6 DEF CacheInv

-----------------------------------------------------------------------------
(* Steps that touch no run: what a client receives, Redis, the frames sent. *)
LEMMA StreamsElsewhere ==
    ASSUME CacheInv, redis' \in BOOLEAN,
           UNCHANGED <<now, changing, scores, conn, runs, basis, overlap, dirty>>
    PROVE  CacheInv'
<1>1. CacheType'
  BY DEF CacheInv, CacheType
<1>2. CacheIsOneRun' /\ RunsApart' /\ CachedAreOver'
  BY DEF CacheInv, CacheIsOneRun, RunsApart, CachedAreOver, Working
<1>3. Fresh'
  BY DEF CacheInv, Fresh, Settled, ScoreFresh, TextFresh, RunFresh, ToBeSaved
<1> QED
  BY <1>1, <1>2, <1>3 DEF CacheInv

(* A stream ends, with what it had computed or without.                     *)
LEMMA EndKeeps ==
    ASSUME CacheInv, NEW c \in Clients, To(c, Off),
           UNCHANGED <<redis, now, changing, scores, runs, basis, overlap, dirty>>
    PROVE  CacheInv'
<1>1. \A d \in Clients : conn'[d] = IF d = c THEN Off ELSE conn[d]
  BY DEF CacheInv, CacheType, To
<1>2. CacheType'
  BY DEF CacheInv, CacheType, To, Connection
<1>3. CacheIsOneRun' /\ RunsApart' /\ CachedAreOver'
  BY <1>1 DEF CacheInv, CacheIsOneRun, RunsApart, CachedAreOver, Working, Off
<1>4. Fresh'
  BY <1>1 DEF CacheInv, Fresh, Settled, ScoreFresh, TextFresh, RunFresh, ToBeSaved, Off
<1> QED
  BY <1>2, <1>3, <1>4 DEF CacheInv

(* A stream goes on with its run, which may read the text or the settings.  *)
LEMMA GoingOnKeeps ==
    ASSUME CacheInv, NEW c \in Clients, NEW going \in Connection \ {Off},
           conn[c] # Off, going.run = conn[c].run, To(c, going),
           going.at \in {"lookup", "retrieve", "ask", "live", "save"} => Working(c),
           UNCHANGED <<redis, now, changing, scores, runs, overlap, dirty>>,
           basis' \in [Runs -> [Kinds -> 0..MaxChanges]],
           Working(c) \/ basis' = basis,
           \A n \in Runs : n # conn[c].run => basis'[n] = basis[n],
           Settled => (TextFresh(c) /\ RunFresh(c))'
    PROVE  CacheInv'
<1>1. \A d \in Clients : conn'[d] = IF d = c THEN going ELSE conn[d]
  BY DEF CacheInv, CacheType, To
<1>2. CacheType'
  BY DEF CacheInv, CacheType, To
<1>3. CacheIsOneRun' /\ RunsApart'
  BY <1>1 DEF CacheInv, CacheIsOneRun, RunsApart
<1>4. CachedAreOver'
  BY <1>1 DEF CacheInv, CachedAreOver, Working
<1>5. \A n \in Runs : scores = Body(n) => basis'[n] = basis[n]
  BY DEF CacheInv, CachedAreOver
<1>6. ASSUME Settled PROVE ScoreFresh'
  BY <1>5, <1>6 DEF CacheInv, Fresh, ScoreFresh
<1>7. ASSUME NEW d \in Clients, d # c, conn[d] # Off
      PROVE  conn[d].run # conn[c].run /\ conn[d].run \in Runs
  BY <1>7 DEF CacheInv, RunsApart, CacheType, Connection
<1>8. ASSUME Settled, NEW d \in Clients PROVE (TextFresh(d) /\ RunFresh(d))'
  <2>1. CASE d = c
    BY <1>8, <2>1
  <2>2. CASE d # c /\ conn[d] = Off
    BY <1>1, <2>2 DEF TextFresh, RunFresh, ToBeSaved, Off
  <2>3. CASE d # c /\ conn[d] # Off
    BY <1>1, <1>7, <1>8, <2>3 DEF CacheInv, Fresh, TextFresh, RunFresh, ToBeSaved
  <2> QED
    BY <2>1, <2>2, <2>3
<1>9. Fresh'
  <2> SUFFICES ASSUME Settled' PROVE (ScoreFresh /\ \A d \in Clients : TextFresh(d) /\ RunFresh(d))'
    BY DEF Fresh
  <2>1. Settled
    BY DEF Settled
  <2> QED
    BY <1>6, <1>8, <2>1
<1> QED
  BY <1>2, <1>3, <1>4, <1>9 DEF CacheInv

LEMMA BodyType ==
    ASSUME NEW n \in Runs PROVE Body(n) \in Seq(Frames)
<1>1. \A i \in 1..(LastFrame - 1) : Frame(i + 1, n) \in Frames
  BY DEF Frame, Frames
<1>2. LastFrame - 1 \in Nat
  OBVIOUS
<1> QED
  BY <1>1, <1>2 DEF Body

(* The parts of a stream's state that the steps below look at.              *)
LEMMA RunOf ==
    ASSUME CacheType, NEW c \in Clients, conn[c] # Off
    PROVE  conn[c].run \in Runs
BY DEF CacheType, Connection

LEMMA LiveType ==
    ASSUME CacheType, NEW c \in Clients, conn[c].at = "live"
    PROVE  /\ conn[c] \in [at: {"live"}, run: Runs, next: 2..LastFrame, kept: BOOLEAN]
           /\ conn[c] # Off
<1>1. conn[c] # Off
  BY DEF Off
<1>2. conn[c] \in Connection
  BY DEF CacheType
<1>3. conn[c] \notin [at: {"lookup", "retrieve", "ask", "save"}, run: Runs]
  OBVIOUS
<1>4. conn[c] \notin [at: {"replay"}, run: Runs, queue: Seq(Frames)]
  OBVIOUS
<1> QED
  BY <1>1, <1>2, <1>3, <1>4 DEF Connection

LEMMA ReplayType ==
    ASSUME CacheType, NEW c \in Clients, conn[c].at = "replay"
    PROVE  /\ conn[c] \in [at: {"replay"}, run: Runs, queue: Seq(Frames)]
           /\ conn[c] # Off
<1>1. conn[c] # Off
  BY DEF Off
<1>2. conn[c] \in Connection
  BY DEF CacheType
<1>3. conn[c] \notin [at: {"lookup", "retrieve", "ask", "save"}, run: Runs]
  OBVIOUS
<1>4. conn[c] \notin [at: {"live"}, run: Runs, next: 2..LastFrame, kept: BOOLEAN]
  OBVIOUS
<1> QED
  BY <1>1, <1>2, <1>3, <1>4 DEF Connection

-----------------------------------------------------------------------------
(* One lemma per step that does more                                        *)

LEMMA StartKeeps ==
    ASSUME CacheInv, NEW c \in Clients, Start(c) PROVE CacheInv'
<1> DEFINE going == [at |-> "lookup", run |-> runs + 1]
<1>0. CacheType /\ RunsApart /\ CachedAreOver /\ Fresh
  BY DEF CacheInv
<1>1. runs + 1 \in Runs /\ runs \in Nat
  BY <1>0 DEF CacheType, Start, Runs
<1>2. \A d \in Clients : conn'[d] = IF d = c THEN going ELSE conn[d]
  BY <1>0 DEF CacheType, Start, To
<1>3. going # Off /\ going.run = runs + 1 /\ going.at = "lookup"
  BY DEF Off
<1>4. going \in Connection
  BY <1>1 DEF Connection
<1>5. CacheType'
  BY <1>0, <1>1, <1>2, <1>4 DEF CacheType, Start, To, Runs
<1>6. CacheIsOneRun'
  BY DEF CacheInv, CacheIsOneRun, Start
<1>7. RunsApart'
  <2>1. ASSUME NEW d \in Clients, conn'[d] # Off PROVE conn'[d].run <= runs'
    BY <1>0, <1>1, <1>2, <1>3, <2>1, RunOf DEF RunsApart, Start, Runs
  <2>2. ASSUME NEW d \in Clients, d # c, conn'[d] # Off PROVE conn'[d].run # runs + 1
    BY <1>0, <1>1, <1>2, <2>2, RunOf DEF RunsApart, Runs
  <2> QED
    BY <1>0, <1>2, <1>3, <2>1, <2>2 DEF RunsApart
<1>8. CachedAreOver'
  <2>1. scores' = scores /\ runs' = runs + 1
    BY DEF Start
  <2>2. scores # Body(runs + 1)
    BY <1>0, <1>1 DEF CachedAreOver
  <2> QED
    BY <1>0, <1>1, <1>2, <1>3, <2>1, <2>2 DEF CachedAreOver, Working, Runs
<1>9. Fresh'
  <2>1. UNCHANGED <<now, changing, scores, basis, overlap, dirty>>
    BY DEF Start
  <2> QED
    BY <1>0, <1>2, <1>3, <2>1 DEF Fresh, Settled, ScoreFresh, TextFresh, RunFresh, ToBeSaved
<1> QED
  BY <1>5, <1>6, <1>7, <1>8, <1>9 DEF CacheInv

LEMMA LookupKeeps ==
    ASSUME CacheInv, NEW c \in Clients, Lookup(c) PROVE CacheInv'
<1> DEFINE n == conn[c].run
           going == IF Cached THEN [at |-> "replay", run |-> n, queue |-> scores]
                    ELSE [at |-> "live", run |-> n, next |-> 2, kept |-> TRUE]
<1>0. CacheType /\ CacheIsOneRun
  BY DEF CacheInv
<1>1. conn[c] # Off /\ Working(c)
  BY DEF Lookup, Off, Working
<1>2. n \in Runs
  BY <1>0, <1>1, RunOf
<1>3. scores \in Seq(Frames)
  <2>1. CASE scores = << >>
    BY <2>1, EmptySeq
  <2>2. CASE \E m \in Runs : scores = Body(m)
    BY <2>2, BodyType
  <2> QED
    BY <1>0, <2>1, <2>2 DEF CacheIsOneRun
<1>4. going \in Connection \ {Off} /\ going.run = n
  BY <1>2, <1>3 DEF Connection, Off
<1>5. To(c, going)
  BY DEF Lookup
<1>6. (TextFresh(c) /\ RunFresh(c))'
  <2>1. conn'[c] = going
    BY <1>0, <1>5 DEF To, CacheType
  <2>2. going.at \in {"replay", "live"} /\ (going.at = "live" => going.next = 2)
    OBVIOUS
  <2> QED
    BY <2>1, <2>2 DEF TextFresh, RunFresh, ToBeSaved
<1>7. UNCHANGED <<redis, now, changing, scores, runs, basis, overlap, dirty>>
  BY DEF Lookup
<1>8. basis' \in [Runs -> [Kinds -> 0..MaxChanges]]
  BY <1>0, <1>7 DEF CacheType
<1> HIDE DEF going
<1> QED
  BY <1>1, <1>4, <1>5, <1>6, <1>7, <1>8, GoingOnKeeps

LEMMA ReplayKeeps ==
    ASSUME CacheInv, NEW c \in Clients, Replay(c) PROVE CacheInv'
<1> DEFINE q == conn[c].queue
           going == [conn[c] EXCEPT !.queue = Tail(q)]
<1>0. CacheType
  BY DEF CacheInv
<1>1. conn[c] \in [at: {"replay"}, run: Runs, queue: Seq(Frames)] /\ conn[c] # Off
  BY <1>0, ReplayType DEF Replay
<1>2. UNCHANGED <<redis, now, changing, scores, runs, basis, overlap, dirty>>
  BY DEF Replay, Emit
<1>3. CASE q = << >>
  BY <1>2, <1>3, EndKeeps DEF Replay
<1>4. CASE q # << >>
  <2>1. To(c, going)
    BY <1>4 DEF Replay
  <2>2. Tail(q) \in Seq(Frames)
    BY <1>1, <1>4, HeadTailProperties
  <2>3. going \in [at: {"replay"}, run: Runs, queue: Seq(Frames)]
    BY <1>1, <2>2
  <2>4. going \in Connection \ {Off} /\ going.run = conn[c].run /\ going.at = "replay"
    BY <1>1, <2>3 DEF Connection, Off
  <2>5. conn'[c] = going
    BY <1>0, <2>1 DEF To, CacheType
  <2>6. (TextFresh(c) /\ RunFresh(c))'
    BY <2>4, <2>5 DEF TextFresh, RunFresh, ToBeSaved
  <2>7. basis' \in [Runs -> [Kinds -> 0..MaxChanges]]
    BY <1>0, <1>2 DEF CacheType
  <2> HIDE DEF going, q
  <2> QED
    BY <1>1, <1>2, <2>1, <2>4, <2>6, <2>7, GoingOnKeeps
<1> QED
  BY <1>3, <1>4

LEMMA LiveKeeps ==
    ASSUME CacheInv, NEW c \in Clients, Live(c) PROVE CacheInv'
<1> DEFINE q == conn[c]
           going == AfterFrame(q)
<1>0. CacheType /\ Fresh
  BY DEF CacheInv
<1>1. /\ q \in [at: {"live"}, run: Runs, next: 2..LastFrame, kept: BOOLEAN]
      /\ q # Off
  BY <1>0, LiveType DEF Live
<1>2. UNCHANGED <<redis, now, changing, scores, runs, basis, overlap, dirty>>
  BY DEF Live, Emit
<1>3. To(c, going)
  BY DEF Live
<1>4. conn'[c] = going
  BY <1>0, <1>3 DEF To, CacheType
<1>5. basis' \in [Runs -> [Kinds -> 0..MaxChanges]] /\ Working(c)
  BY <1>0, <1>1, <1>2 DEF CacheType, Working
<1>6. CASE q.next = 2
  <2>1. going = [at |-> "retrieve", run |-> q.run]
    BY <1>6 DEF AfterFrame
  <2>2. going \in Connection \ {Off} /\ going.run = q.run
    BY <1>1, <2>1 DEF Connection, Off
  <2>3. (TextFresh(c) /\ RunFresh(c))'
    BY <1>4, <2>1 DEF TextFresh, RunFresh, ToBeSaved
  <2> HIDE DEF going
  <2> QED
    BY <1>1, <1>2, <1>3, <1>5, <2>2, <2>3, GoingOnKeeps
<1>7. CASE q.next # 2 /\ q.next = LastFrame /\ q.kept
  <2>1. going = [at |-> "save", run |-> q.run]
    BY <1>7 DEF AfterFrame
  <2>2. going \in Connection \ {Off} /\ going.run = q.run
    BY <1>1, <2>1 DEF Connection, Off
  <2>3. Settled => (TextFresh(c) /\ RunFresh(c))'
    BY <1>0, <1>1, <1>2, <1>4, <1>7, <2>1 DEF Fresh, TextFresh, RunFresh, ToBeSaved
  <2> HIDE DEF going
  <2> QED
    BY <1>1, <1>2, <1>3, <1>5, <2>2, <2>3, GoingOnKeeps
<1>8. CASE q.next # 2 /\ q.next = LastFrame /\ ~q.kept
  <2>1. going = Off
    BY <1>8 DEF AfterFrame
  <2> QED
    BY <1>2, <1>3, <2>1, EndKeeps
<1>9. CASE q.next # 2 /\ q.next # LastFrame
  <2>1. going = [q EXCEPT !.next = @ + 1]
    BY <1>9 DEF AfterFrame
  <2>2. going \in [at: {"live"}, run: Runs, next: 2..LastFrame, kept: BOOLEAN]
    BY <1>1, <1>9, <2>1
  <2>3. /\ going \in Connection \ {Off} /\ going.run = q.run
        /\ going.at = "live" /\ going.kept = q.kept
    BY <1>1, <2>1, <2>2 DEF Connection, Off
  <2>4. Settled => (TextFresh(c) /\ RunFresh(c))'
    BY <1>0, <1>1, <1>2, <1>4, <1>9, <2>3 DEF Fresh, TextFresh, RunFresh, ToBeSaved
  <2> HIDE DEF going
  <2> QED
    BY <1>1, <1>2, <1>3, <1>5, <2>3, <2>4, GoingOnKeeps
<1> QED
  BY <1>6, <1>7, <1>8, <1>9

LEMMA RetrieveKeeps ==
    ASSUME CacheInv, NEW c \in Clients, Retrieve(c) PROVE CacheInv'
<1> DEFINE n == conn[c].run
<1>0. CacheType
  BY DEF CacheInv
<1>1. conn[c] # Off /\ Working(c) /\ n \in Runs
  BY <1>0, RunOf DEF Retrieve, Off, Working
<1>2. UNCHANGED <<redis, now, changing, scores, runs, overlap, dirty>>
  BY DEF Retrieve
<1>3. /\ basis' \in [Runs -> [Kinds -> 0..MaxChanges]]
      /\ basis'[n]["text"] = now["text"]
      /\ \A k \in Runs : k # n => basis'[k] = basis[k]
  BY <1>0, <1>1 DEF CacheType, Retrieve, Kinds
<1>4. ASSUME NEW going \in Connection \ {Off}, To(c, going), going.run = n,
             going.at \in {"ask", "live"}, going.at = "live" => going.kept = FALSE
      PROVE  CacheInv'
  <2>1. conn'[c] = going
    BY <1>0, <1>4 DEF To, CacheType
  <2>2. (TextFresh(c) /\ RunFresh(c))'
    BY <1>2, <1>3, <1>4, <2>1 DEF TextFresh, RunFresh, ToBeSaved
  <2> QED
    BY <1>1, <1>2, <1>3, <1>4, <2>2, GoingOnKeeps
<1>5. CASE To(c, [at |-> "ask", run |-> n])
  <2> DEFINE going == [at |-> "ask", run |-> n]
  <2>1. going \in Connection \ {Off}
    BY <1>1 DEF Connection, Off
  <2>2. going.run = n /\ going.at = "ask" /\ To(c, going)
    BY <1>5
  <2> HIDE DEF going
  <2> QED
    BY <1>4, <2>1, <2>2
<1>6. CASE To(c, [at |-> "live", run |-> n, next |-> 3, kept |-> FALSE])
  <2> DEFINE going == [at |-> "live", run |-> n, next |-> 3, kept |-> FALSE]
  <2>1. going \in Connection \ {Off}
    BY <1>1 DEF Connection, Off
  <2> QED
    BY <1>4, <1>6, <2>1
<1> QED
  BY <1>5, <1>6 DEF Retrieve

LEMMA AskLLMKeeps ==
    ASSUME CacheInv, NEW c \in Clients, AskLLM(c) PROVE CacheInv'
<1> DEFINE n == conn[c].run
<1>0. CacheType /\ Fresh
  BY DEF CacheInv
<1>1. conn[c] # Off /\ Working(c) /\ n \in Runs /\ conn[c].at = "ask"
  BY <1>0, RunOf DEF AskLLM, Off, Working
<1>2. UNCHANGED <<redis, now, changing, scores, runs, overlap, dirty>>
  BY DEF AskLLM
<1>3. /\ basis' \in [Runs -> [Kinds -> 0..MaxChanges]]
      /\ basis'[n]["settings"] = now["settings"]
      /\ basis'[n]["text"] = basis[n]["text"]
      /\ \A k \in Runs : k # n => basis'[k] = basis[k]
  BY <1>0, <1>1 DEF CacheType, AskLLM, Kinds
<1>4. PICK kept \in BOOLEAN :
            To(c, [at |-> "live", run |-> n, next |-> 3, kept |-> kept])
  BY DEF AskLLM
<1> DEFINE going == [at |-> "live", run |-> n, next |-> 3, kept |-> kept]
<1>5. going \in Connection \ {Off} /\ going.run = n
  BY <1>1 DEF Connection, Off
<1>6. conn'[c] = going
  BY <1>0, <1>4 DEF To, CacheType
<1>7. ASSUME Settled PROVE (TextFresh(c) /\ RunFresh(c))'
  <2>1. n \in overlap \/ basis[n]["text"] = now["text"]
    BY <1>0, <1>1, <1>7 DEF Fresh, TextFresh
  <2>2. n \in overlap \/ basis'[n] = now
    BY <1>0, <1>1, <1>3, <2>1, SameBasis DEF CacheType
  <2>3. conn'[c].run = n /\ conn'[c].at = "live"
    BY <1>6
  <2> QED
    BY <1>2, <2>2, <2>3 DEF TextFresh, RunFresh
<1> HIDE DEF going
<1>8. To(c, going)
  BY <1>4 DEF going
<1> QED
  BY <1>1, <1>2, <1>3, <1>5, <1>7, <1>8, GoingOnKeeps

LEMMA SaveKeeps ==
    ASSUME CacheInv, NEW c \in Clients, Save(c) PROVE CacheInv'
<1> DEFINE n == conn[c].run
<1>0. CacheType /\ CacheIsOneRun /\ RunsApart /\ CachedAreOver /\ Fresh
  BY DEF CacheInv
<1>1. conn[c] # Off /\ n \in Runs /\ conn[c].at = "save"
  BY <1>0, RunOf DEF Save, Off
<1>2. UNCHANGED <<redis, now, changing, runs, basis, overlap, dirty>> /\ To(c, Off)
  BY DEF Save
<1>3. CASE ~redis
  BY <1>2, <1>3, EndKeeps DEF Save
<1>4. CASE redis
  <2>1. scores' = Body(n)
    BY <1>4 DEF Save, Saved
  <2>2. \A m \in Runs : scores' = Body(m) => m = n
    BY <2>1, BodyTells
  <2>3. \A d \in Clients : conn'[d] = IF d = c THEN Off ELSE conn[d]
    BY <1>0, <1>2 DEF CacheType, To
  <2>4. CacheType'
    BY <1>0, <1>2 DEF CacheType, To, Connection
  <2>5. CacheIsOneRun' /\ RunsApart'
    BY <1>0, <1>1, <1>2, <2>1, <2>3 DEF CacheIsOneRun, RunsApart
  <2>6. CachedAreOver'
    <3>1. \A m \in Runs : scores' = Body(m) => m <= runs'
      BY <1>0, <1>1, <1>2, <2>2 DEF RunsApart
    <3>2. ASSUME NEW d \in Clients, Working(d)' PROVE d # c /\ conn[d].run # n
      BY <1>0, <1>1, <2>3, <3>2 DEF Working, RunsApart, Off
    <3>3. \A d \in Clients : d # c => conn'[d].run = conn[d].run
      BY <2>3
    <3> QED
      BY <2>1, <3>1, <3>2, <3>3, BodyTells DEF CachedAreOver
  <2>7. ASSUME Settled PROVE ScoreFresh'
    BY <1>0, <1>1, <1>2, <2>2, <2>7 DEF Fresh, ScoreFresh, RunFresh, ToBeSaved
  <2>8. ASSUME Settled, NEW d \in Clients PROVE TextFresh(d)' /\ RunFresh(d)'
    BY <1>0, <1>2, <2>3, <2>8 DEF Fresh, TextFresh, RunFresh, ToBeSaved, Off
  <2>9. Fresh'
    <3> SUFFICES ASSUME Settled' PROVE (ScoreFresh /\ \A d \in Clients : TextFresh(d) /\ RunFresh(d))'
      BY DEF Fresh
    <3>1. Settled
      BY <1>2 DEF Settled
    <3> QED
      BY <2>7, <2>8, <3>1
  <2> QED
    BY <2>4, <2>5, <2>6, <2>9 DEF CacheInv
<1> QED
  BY <1>0, <1>3, <1>4 DEF CacheType

(* Whatever empties the score cache and leaves the streams alone.           *)
LEMMA EmptiedKeeps ==
    ASSUME CacheType, CacheType', RunsApart, CachedAreOver, scores' = << >>, UNCHANGED <<conn, runs>>
    PROVE  CacheIsOneRun' /\ RunsApart' /\ CachedAreOver' /\ ScoreFresh'
<1>1. \A n : scores' # Body(n)
  BY BodyIsNotEmpty
<1> QED
  BY <1>1 DEF CacheIsOneRun, RunsApart, CachedAreOver, Working, ScoreFresh

LEMMA ExpireKeeps ==
    ASSUME CacheInv, Expire PROVE CacheInv'
<1>0. CacheType /\ RunsApart /\ CachedAreOver /\ Fresh
  BY DEF CacheInv
<1>1. CacheType'
  BY <1>0 DEF CacheType, Expire
<1>2. CacheIsOneRun' /\ RunsApart' /\ CachedAreOver' /\ ScoreFresh'
  BY <1>0, <1>1, EmptiedKeeps DEF Expire
<1>3. Fresh'
  BY <1>0, <1>2 DEF Expire, Fresh, Settled, TextFresh, RunFresh, ToBeSaved
<1> QED
  BY <1>1, <1>2, <1>3 DEF CacheInv

(* A change, until it is flushed, and one that never is.                    *)
LEMMA UnsettledKeeps ==
    ASSUME CacheInv, CacheType', ~Settled', UNCHANGED <<scores, conn, runs>>
    PROVE  CacheInv'
<1>1. CacheIsOneRun' /\ RunsApart' /\ CachedAreOver'
  BY DEF CacheInv, CacheIsOneRun, RunsApart, CachedAreOver, Working
<1> QED
  BY <1>1 DEF CacheInv, Fresh

LEMMA ChangeKeeps ==
    ASSUME CacheInv, NEW k \in Kinds, Change(k) PROVE CacheInv'
<1>0. CacheType
  BY DEF CacheInv
<1>1. now' \in [Kinds -> 0..MaxChanges]
  BY <1>0 DEF CacheType, Change, Kinds
<1>2. CacheType'
  BY <1>0, <1>1 DEF CacheType, Change, history
<1>3. ~Settled'
  BY DEF Settled, Change
<1> QED
  BY <1>2, <1>3, UnsettledKeeps DEF Change

LEMMA FlushKeeps ==
    ASSUME CacheInv, NEW k \in Kinds, Flush(k) PROVE CacheInv'
<1>0. CacheType /\ RunsApart /\ CachedAreOver
  BY DEF CacheInv
<1>1. UnderWay \subseteq Runs
  BY <1>0, RunOf DEF UnderWay, Off
<1>2. CacheType'
  BY <1>0, <1>1 DEF CacheType, Flush
<1>3. CASE ~redis
  BY <1>2, <1>3, UnsettledKeeps DEF Flush, Flushed, Settled
<1>4. CASE redis
  <2>1. CacheIsOneRun' /\ RunsApart' /\ CachedAreOver' /\ ScoreFresh'
    BY <1>0, <1>2, <1>4, EmptiedKeeps DEF Flush, Flushed
  <2>2. \A c \in Clients : conn[c].at \in {"ask", "live", "save"} => conn[c].run \in overlap'
    BY <1>4 DEF Flush, UnderWay
  <2>3. \A c \in Clients : (TextFresh(c) /\ RunFresh(c))'
    BY <2>2 DEF TextFresh, RunFresh, ToBeSaved, Flush
  <2> QED
    BY <1>2, <2>1, <2>3 DEF CacheInv, Fresh
<1> QED
  BY <1>3, <1>4

LEMMA FlushNeverKeeps ==
    ASSUME CacheInv, NEW k \in Kinds, FlushNever(k) PROVE CacheInv'
<1>1. CacheType'
  BY DEF CacheInv, CacheType, FlushNever
<1> QED
  BY <1>1, UnsettledKeeps DEF FlushNever, Settled

-----------------------------------------------------------------------------
THEOREM CacheStep ==
    CacheInv /\ [StreamNext]_streamVars => CacheInv'
<1> SUFFICES ASSUME CacheInv, [StreamNext]_streamVars PROVE CacheInv'
  OBVIOUS
<1>0. redis \in BOOLEAN
  BY DEF CacheInv, CacheType
<1>1. ASSUME NEW c \in Clients, Generator(c) PROVE CacheInv'
  <2>1. CASE Lookup(c)
    BY <2>1, LookupKeeps
  <2>2. CASE Replay(c)
    BY <2>2, ReplayKeeps
  <2>3. CASE Live(c)
    BY <2>3, LiveKeeps
  <2>4. CASE Retrieve(c)
    BY <2>4, RetrieveKeeps
  <2>5. CASE AskLLM(c)
    BY <2>5, AskLLMKeeps
  <2>6. CASE Save(c)
    BY <2>6, SaveKeeps
  <2>7. CASE Break(c)
    BY <2>7, EndKeeps DEF Break
  <2>8. CASE Cancel(c)
    BY <2>8, EndKeeps DEF Cancel
  <2> QED
    BY <1>1, <2>1, <2>2, <2>3, <2>4, <2>5, <2>6, <2>7, <2>8 DEF Generator
<1>2. ASSUME NEW c \in Clients, Client(c) PROVE CacheInv'
  <2>1. CASE Start(c)
    BY <2>1, StartKeeps
  <2>2. CASE \E lost \in 0..MaxLost : Disconnect(c, lost)
    BY <1>0, <2>2, StreamsElsewhere DEF Disconnect
  <2>3. CASE Resume(c)
    BY <1>0, <2>3, StreamsElsewhere DEF Resume
  <2> QED
    BY <1>2, <2>1, <2>2, <2>3 DEF Client
<1>3. CASE RedisTurns
  BY <1>0, <1>3, StreamsElsewhere DEF RedisTurns
<1>4. CASE Expire
  BY <1>4, ExpireKeeps
<1>5. CASE \E v \in Reviews : ExpireSent(v)
  BY <1>0, <1>5, StreamsElsewhere DEF ExpireSent
<1>6. ASSUME NEW k \in Kinds, Change(k) \/ Flush(k) \/ FlushNever(k) PROVE CacheInv'
  BY <1>6, ChangeKeeps, FlushKeeps, FlushNeverKeeps
<1>7. CASE UNCHANGED streamVars
  BY <1>0, <1>7, StreamsElsewhere DEF streamVars, history
<1> QED
  BY <1>1, <1>2, <1>3, <1>4, <1>5, <1>6, <1>7 DEF StreamNext

-----------------------------------------------------------------------------
(* What a client sees: the second inductive invariant                       *)

(* The first k frames of a stream that shows run n.                         *)
FrameOf(i, n) == Frame(i, IF i = 1 THEN NoRun ELSE n)

Reads(s, n, k) ==
    /\ s \in Seq(Frames) /\ Len(s) = k
    /\ \A i \in 1..k : s[i] = FrameOf(i, n)

(* An attempt that was not resumed, which may have ended in an error.       *)
ErrorFrame(k) == [id |-> k, run |-> NoRun, last |-> TRUE]

OneRun(s) ==
    \E n \in Runs \cup {NoRun} : \A i \in 1..Len(s) :
        s[i] = FrameOf(i, n) \/ (i = Len(s) /\ s[i] = ErrorFrame(i))

(* The number of the last frame a stream has emitted.                       *)
Position(q) ==
    CASE q.at = "lookup" -> 1
      [] q.at = "live" -> q.next - 1
      [] q.at \in {"retrieve", "ask"} -> 2
      [] q.at = "save" -> LastFrame
      [] q.at = "replay" -> LastFrame - Len(q.queue)

(* A replay has the rest of one run before it.                              *)
RestOf(q, m) ==
    /\ Len(q) <= LastFrame - 1
    /\ \A i \in 1..Len(q) : q[i] = Frame(LastFrame - Len(q) + i, m)

(* Run m is the one that a stream shows.                                    *)
Shows(q, m) == IF q.at = "replay" THEN RestOf(q.queue, m) ELSE m = q.run

(* A client that listens has read a run up to where the stream is.          *)
Follows(c) ==
    IF conn[c] = Off THEN seen[c] # << >> /\ Last(seen[c]).last
    ELSE \E m \in Runs : Shows(conn[c], m) /\ Reads(seen[c], m, Position(conn[c]))

StreamOk(c) ==
    /\ conn[c] # Off => \E m \in Runs : Shows(conn[c], m)
    /\ c \in linked => Follows(c)
    /\ c \notin resumed => OneRun(seen[c])

StreamType ==
    /\ linked \subseteq Clients /\ linked \cap resumed = {}
    /\ seen \in [Clients -> Seq(Frames)]

StreamInv == StreamType /\ \A c \in Clients : StreamOk(c)

(* What is kept of a review continues without a gap up to where its streams *)
(* are, and so does an attempt that was resumed from it.                    *)
Gapless(s) ==
    \A i \in 1..Len(s) : s[i].id = 1 \/ \E j \in 1..(i - 1) : s[j].id = s[i].id - 1

Backed(c) ==
    ReviewOf[c] \notin gap =>
        /\ conn[c] # Off =>
            \E i \in 1..Len(frames[ReviewOf[c]]) :
                frames[ReviewOf[c]][i].id = Position(conn[c])
        /\ Gapless(seen[c])

GapInv ==
    /\ frames \in [Reviews -> Seq(Frames)]
    /\ \A v \in Reviews \ gap : Gapless(frames[v])
    /\ \A c \in Clients : Backed(c)

-----------------------------------------------------------------------------
(* Facts about frames and attempts                                          *)

LEMMA FrameOfType ==
    ASSUME NEW i \in Nat, NEW n \in Runs \cup {NoRun}
    PROVE  /\ FrameOf(i, n) \in Frames
           /\ FrameOf(i, n).id = i /\ (FrameOf(i, n).last <=> i = LastFrame)
           /\ i > 1 => FrameOf(i, n).run = n
<1> DEFINE r == IF i = 1 THEN NoRun ELSE n
<1>1. FrameOf(i, n) = [id |-> i, run |-> r, last |-> i = LastFrame]
  BY DEF FrameOf, Frame
<1>2. (i = LastFrame) \in BOOLEAN /\ r \in Runs \cup {NoRun}
  OBVIOUS
<1> HIDE DEF r
<1>3. FrameOf(i, n) \in Frames
  BY <1>1, <1>2 DEF Frames
<1>4. FrameOf(i, n).id = i /\ FrameOf(i, n).run = r
  BY <1>1
<1>5. FrameOf(i, n).last = (i = LastFrame)
  BY <1>1
<1>6. FrameOf(i, n).last <=> i = LastFrame
  BY <1>5
<1> QED
  BY <1>3, <1>4, <1>6 DEF r

LEMMA Appended ==
    ASSUME NEW s \in Seq(Frames), NEW f \in Frames
    PROVE  /\ Append(s, f) \in Seq(Frames)
           /\ Len(Append(s, f)) = Len(s) + 1
           /\ \A i \in 1..Len(s) : Append(s, f)[i] = s[i]
           /\ Append(s, f)[Len(s) + 1] = f
           /\ Append(s, f) # << >> /\ Last(Append(s, f)) = f
BY AppendProperties DEF Last

LEMMA ReadsOne ==
    ASSUME NEW m, NEW n, NEW s, Reads(s, m, 1)
    PROVE  Reads(s, n, 1)
BY DEF Reads, FrameOf

LEMMA ReadsNext ==
    ASSUME NEW n \in Runs, NEW k \in Nat, NEW s, Reads(s, n, k)
    PROVE  Reads(Append(s, FrameOf(k + 1, n)), n, k + 1)
<1>1. FrameOf(k + 1, n) \in Frames
  BY FrameOfType
<1> QED
  BY <1>1, Appended DEF Reads

LEMMA ReadsIsOneRun ==
    ASSUME NEW n \in Runs, NEW k \in Nat, NEW s, Reads(s, n, k)
    PROVE  OneRun(s)
BY DEF Reads, OneRun

LEMMA ErrorIsOneRun ==
    ASSUME NEW n \in Runs, NEW k \in Nat, NEW s, Reads(s, n, k)
    PROVE  /\ Append(s, ErrorFrame(k + 1)) \in Seq(Frames)
           /\ OneRun(Append(s, ErrorFrame(k + 1)))
           /\ Append(s, ErrorFrame(k + 1)) # << >>
           /\ Last(Append(s, ErrorFrame(k + 1))).last
<1>1. ErrorFrame(k + 1) \in Frames /\ ErrorFrame(k + 1).last
  BY DEF ErrorFrame, Frames
<1> QED
  BY <1>1, Appended DEF Reads, OneRun

LEMMA ShorterIsOneRun ==
    ASSUME NEW s \in Seq(Frames), OneRun(s), NEW lost \in Nat, lost <= Len(s)
    PROVE  /\ SubSeq(s, 1, Len(s) - lost) \in Seq(Frames)
           /\ OneRun(SubSeq(s, 1, Len(s) - lost))
<1> DEFINE t == SubSeq(s, 1, Len(s) - lost)
<1>1. /\ t \in Seq(Frames) /\ Len(t) = Len(s) - lost
      /\ \A i \in 1..Len(t) : t[i] = s[i]
  <2>1. \A i \in 1..(Len(s) - lost) : s[i] \in Frames
    BY ElementOfSeq, LenProperties
  <2>2. Len(s) - lost \in Nat
    BY LenProperties
  <2> QED
    BY <2>1, <2>2, SubSeqProperties
<1>2. PICK n \in Runs \cup {NoRun} : \A i \in 1..Len(s) :
        s[i] = FrameOf(i, n) \/ (i = Len(s) /\ s[i] = ErrorFrame(i))
  BY DEF OneRun
<1>3. Len(s) \in Nat
  BY LenProperties
<1> HIDE DEF t
<1>4. \A i \in 1..Len(t) : t[i] = FrameOf(i, n) \/ (i = Len(t) /\ t[i] = ErrorFrame(i))
  BY <1>1, <1>2, <1>3
<1> QED
  BY <1>1, <1>4 DEF OneRun, t

(* Replays and live runs, frame by frame.                                   *)
LEMMA PositionType ==
    ASSUME CacheType, NEW c \in Clients, conn[c] # Off, NEW m \in Runs, Shows(conn[c], m)
    PROVE  Position(conn[c]) \in 1..LastFrame
<1>1. CASE conn[c].at = "replay"
  <2>1. conn[c].queue \in Seq(Frames)
    BY <1>1, ReplayType
  <2>2. Len(conn[c].queue) \in Nat /\ Len(conn[c].queue) <= LastFrame - 1
    BY <1>1, <2>1, LenProperties DEF Shows, RestOf
  <2> QED
    BY <1>1, <2>2 DEF Position
<1>2. CASE conn[c].at = "live"
  <2>1. conn[c].next \in 2..LastFrame
    BY <1>2, LiveType
  <2> QED
    BY <1>2, <2>1 DEF Position
<1>3. CASE conn[c].at \in {"lookup", "retrieve", "ask", "save"}
  BY <1>3 DEF Position
<1>4. conn[c].at \in {"lookup", "retrieve", "ask", "save", "live", "replay"}
  BY DEF CacheType, Connection
<1> QED
  BY <1>1, <1>2, <1>3, <1>4

LEMMA BodyIsRest ==
    ASSUME NEW m \in Runs PROVE RestOf(Body(m), m)
<1>1. Len(Body(m)) = LastFrame - 1
  BY DEF Body
<1>2. \A i \in 1..(LastFrame - 1) : Body(m)[i] = Frame(i + 1, m)
  BY DEF Body
<1> QED
  BY <1>1, <1>2 DEF RestOf

LEMMA TailIsRest ==
    ASSUME NEW q \in Seq(Frames), q # << >>, NEW m \in Runs, RestOf(q, m)
    PROVE  /\ Head(q) = FrameOf(LastFrame - Len(q) + 1, m)
           /\ RestOf(Tail(q), m) /\ Len(Tail(q)) = Len(q) - 1
<1>1. /\ Len(q) \in Nat \ {0} /\ Head(q) = q[1]
      /\ Tail(q) \in Seq(Frames) /\ Len(Tail(q)) = Len(q) - 1
      /\ \A i \in 1..Len(Tail(q)) : Tail(q)[i] = q[i + 1]
  BY HeadTailProperties, EmptySeq
<1>2. \A i \in 1..Len(q) : q[i] = Frame(LastFrame - Len(q) + i, m)
  BY DEF RestOf
<1>3. Head(q) = FrameOf(LastFrame - Len(q) + 1, m)
  BY <1>1, <1>2 DEF FrameOf, RestOf
<1>4. ASSUME NEW i \in 1..Len(Tail(q))
      PROVE  Tail(q)[i] = Frame(LastFrame - Len(Tail(q)) + i, m)
  <2>1. i + 1 \in 1..Len(q) /\ LastFrame - Len(q) + (i + 1) = LastFrame - Len(Tail(q)) + i
    BY <1>1
  <2> QED
    BY <1>1, <1>2, <2>1
<1> QED
  BY <1>1, <1>3, <1>4 DEF RestOf

-----------------------------------------------------------------------------
THEOREM StreamBegins == StreamInit => StreamInv
<1> SUFFICES ASSUME StreamInit PROVE StreamInv
  OBVIOUS
<1>1. StreamType
  BY EmptySeq DEF StreamInit, StreamType
<1>2. ASSUME NEW c \in Clients PROVE StreamOk(c)
  <2>1. conn[c] = Off /\ c \notin linked /\ seen[c] = << >>
    BY DEF StreamInit
  <2>2. OneRun(<< >>)
    BY EmptySeq DEF OneRun
  <2> QED
    BY <2>1, <2>2 DEF StreamOk
<1> QED
  BY <1>1, <1>2 DEF StreamInv

(* A step concerns one stream and its client.                               *)
LEMMA OthersFollow ==
    ASSUME StreamInv, NEW c \in Clients, StreamType', StreamOk(c)',
           \A d \in Clients \ {c} :
               /\ conn'[d] = conn[d] /\ seen'[d] = seen[d]
               /\ d \in linked' <=> d \in linked
               /\ d \in resumed' <=> d \in resumed
    PROVE  StreamInv'
<1>1. ASSUME NEW d \in Clients \ {c} PROVE StreamOk(d)'
  BY <1>1 DEF StreamInv, StreamOk, Follows
<1> QED
  BY <1>1 DEF StreamInv

LEMMA NobodyMoves ==
    ASSUME StreamInv, UNCHANGED <<conn, linked, seen, resumed>>
    PROVE  StreamInv'
BY DEF StreamInv, StreamType, StreamOk, Follows

(* The stream of c goes from one state to the next without a frame.         *)
LEMMA SilentFollows ==
    ASSUME CacheInv, StreamInv, NEW c \in Clients, NEW going, To(c, going),
           UNCHANGED <<linked, seen, resumed>>, conn[c] # Off,
           going # Off => \E m \in Runs : Shows(going, m),
           c \in linked =>
               IF going = Off THEN seen[c] # << >> /\ Last(seen[c]).last
               ELSE \A m \in Runs : Shows(conn[c], m) => \E n \in Runs :
                        /\ Shows(going, n) /\ Position(going) = Position(conn[c])
                        /\ n = m \/ Position(going) = 1
    PROVE  StreamInv'
<1>1. \A d \in Clients : conn'[d] = IF d = c THEN going ELSE conn[d]
  BY DEF CacheInv, CacheType, To
<1>2. StreamType'
  BY DEF StreamInv, StreamType
<1>3. ASSUME c \in linked, going # Off PROVE Follows(c)'
  <2>1. PICK m \in Runs : Shows(conn[c], m) /\ Reads(seen[c], m, Position(conn[c]))
    BY <1>3 DEF StreamInv, StreamOk, Follows
  <2>2. PICK n \in Runs : /\ Shows(going, n) /\ Position(going) = Position(conn[c])
                          /\ n = m \/ Position(going) = 1
    BY <1>3, <2>1
  <2>3. Reads(seen[c], n, Position(going))
    BY <2>1, <2>2, ReadsOne
  <2> QED
    BY <1>1, <1>3, <2>2, <2>3 DEF Follows
<1>4. StreamOk(c)'
  BY <1>1, <1>3 DEF StreamInv, StreamOk, Follows
<1> QED
  BY <1>1, <1>2, <1>4, OthersFollow

(* It goes to the next state with its next frame.                           *)
LEMMA EmitFollows ==
    ASSUME CacheInv, StreamInv, NEW c \in Clients, NEW going, NEW f,
           To(c, going), Emit(c, f), conn[c] # Off,
           \A m \in Runs : Shows(conn[c], m) =>
               /\ f = FrameOf(Position(conn[c]) + 1, m)
               /\ going # Off => Shows(going, m) /\ Position(going) = Position(conn[c]) + 1,
           going = Off => f.last
    PROVE  StreamInv'
<1>1. \A d \in Clients : conn'[d] = IF d = c THEN going ELSE conn[d]
  BY DEF CacheInv, CacheType, To
<1>2. PICK n \in Runs : Shows(conn[c], n)
  BY DEF StreamInv, StreamOk
<1>3. CASE c \notin linked
  <2>1. UNCHANGED <<linked, seen, resumed>>
    BY <1>3 DEF Emit
  <2>2. going # Off => Shows(going, n)
    BY <1>2
  <2> QED
    BY <1>2, <1>3, <2>1, <2>2, SilentFollows
<1>4. CASE c \in linked
  <2>1. PICK m \in Runs : Shows(conn[c], m) /\ Reads(seen[c], m, Position(conn[c]))
    BY <1>4 DEF StreamInv, StreamOk, Follows
  <2> DEFINE p == Position(conn[c])
             s == Append(seen[c], f)
  <2>2. p \in 1..LastFrame /\ p \in Nat /\ f = FrameOf(p + 1, m)
    BY <2>1, PositionType DEF CacheInv
  <2>3. f \in Frames /\ Reads(s, m, p + 1)
    BY <2>1, <2>2, FrameOfType, ReadsNext
  <2>4. seen' = [seen EXCEPT ![c] = s]
    BY <1>4 DEF Emit
  <2>5. s \in Seq(Frames) /\ s # << >> /\ Last(s) = f
    BY <2>3, Appended DEF StreamInv, StreamType
  <2>6. seen'[c] = s /\ \A d \in Clients \ {c} : seen'[d] = seen[d]
    BY <2>4 DEF StreamInv, StreamType
  <2>7. UNCHANGED <<linked, resumed>>
    BY DEF Emit
  <2>8. StreamType'
    BY <2>4, <2>5, <2>7 DEF StreamInv, StreamType
  <2>9. OneRun(s)
    BY <2>2, <2>3, ReadsIsOneRun
  <2>10. going # Off => Shows(going, m) /\ Position(going) = p + 1
    BY <2>1
  <2> HIDE DEF p, s
  <2>11. Follows(c)'
    BY <1>1, <2>3, <2>5, <2>6, <2>10 DEF Follows
  <2>12. StreamOk(c)'
    BY <1>1, <2>6, <2>9, <2>10, <2>11 DEF StreamOk
  <2> QED
    BY <1>1, <2>6, <2>7, <2>8, <2>12, OthersFollow
<1> QED
  BY <1>3, <1>4

-----------------------------------------------------------------------------
(* One lemma per step that moves a stream                                   *)

LEMMA StartFollows ==
    ASSUME CacheInv, StreamInv, NEW c \in Clients, Start(c) PROVE StreamInv'
<1> DEFINE going == [at |-> "lookup", run |-> runs + 1]
           s == <<Frame(1, NoRun)>>
<1>1. runs + 1 \in Runs
  BY DEF CacheInv, CacheType, Start, Runs
<1>2. \A d \in Clients : conn'[d] = IF d = c THEN going ELSE conn[d]
  BY DEF CacheInv, CacheType, Start, To
<1>3. /\ going # Off /\ Shows(going, runs + 1) /\ Position(going) = 1
  BY DEF Off, Shows, Position
<1>4. s \in Seq(Frames) /\ Len(s) = 1 /\ s[1] = FrameOf(1, runs + 1)
  BY <1>1, FrameOfType DEF FrameOf
<1>5. Reads(s, runs + 1, 1) /\ OneRun(s)
  <2>1. \A i \in 1..1 : i = 1
    OBVIOUS
  <2> HIDE DEF s
  <2>2. Reads(s, runs + 1, 1)
    BY <1>4, <2>1 DEF Reads
  <2> QED
    BY <1>1, <2>2, ReadsIsOneRun
<1>6. /\ linked' = linked \cup {c} /\ resumed' = resumed \ {c}
      /\ seen' = [seen EXCEPT ![c] = s]
  BY DEF Start
<1>7. seen'[c] = s /\ \A d \in Clients \ {c} : seen'[d] = seen[d]
  BY <1>6 DEF StreamInv, StreamType
<1>8. StreamType'
  BY <1>4, <1>6 DEF StreamInv, StreamType
<1> HIDE DEF going, s
<1>9. StreamOk(c)'
  BY <1>1, <1>2, <1>3, <1>5, <1>7 DEF StreamOk, Follows
<1> QED
  BY <1>2, <1>6, <1>7, <1>8, <1>9, OthersFollow

LEMMA LookupFollows ==
    ASSUME CacheInv, StreamInv, NEW c \in Clients, Lookup(c) PROVE StreamInv'
<1> DEFINE n == conn[c].run
           going == IF Cached THEN [at |-> "replay", run |-> n, queue |-> scores]
                    ELSE [at |-> "live", run |-> n, next |-> 2, kept |-> TRUE]
<1>1. conn[c] # Off /\ n \in Runs /\ Position(conn[c]) = 1
  BY RunOf DEF CacheInv, Lookup, Off, Position
<1>2. \E m \in Runs : Shows(going, m) /\ Position(going) = 1
  <2>1. CASE Cached
    <3>1. PICK m \in Runs : scores = Body(m)
      BY <2>1 DEF CacheInv, CacheIsOneRun, Cached
    <3>2. RestOf(scores, m) /\ Len(scores) = LastFrame - 1
      BY <3>1, BodyIsRest DEF Body
    <3> QED
      BY <2>1, <3>1, <3>2 DEF Shows, Position
  <2>2. CASE ~Cached
    BY <1>1, <2>2 DEF Shows, Position
  <2> QED
    BY <2>1, <2>2
<1>3. going # Off
  BY DEF Off
<1>4. To(c, going) /\ UNCHANGED <<linked, seen, resumed>>
  BY DEF Lookup
<1> HIDE DEF going
<1> QED
  BY <1>1, <1>2, <1>3, <1>4, SilentFollows

LEMMA RetrieveFollows ==
    ASSUME CacheInv, StreamInv, NEW c \in Clients, Retrieve(c) PROVE StreamInv'
<1> DEFINE n == conn[c].run
<1>1. conn[c] # Off /\ conn[c].at = "retrieve" /\ n \in Runs /\ Position(conn[c]) = 2
  BY RunOf DEF CacheInv, Retrieve, Off, Position
<1>2. UNCHANGED <<linked, seen, resumed>>
  BY DEF Retrieve
<1>3. \A m \in Runs : Shows(conn[c], m) => m = n
  BY <1>1 DEF Shows
<1>4. ASSUME NEW going, To(c, going), going # Off, going.run = n,
             going.at = "ask" \/ (going.at = "live" /\ going.next = 3)
      PROVE  StreamInv'
  <2>1. Shows(going, n) /\ Position(going) = 2
    BY <1>4 DEF Shows, Position
  <2> QED
    BY <1>1, <1>2, <1>3, <1>4, <2>1, SilentFollows
<1>5. CASE To(c, [at |-> "ask", run |-> n])
  <2>1. [at |-> "ask", run |-> n] # Off
    BY DEF Off
  <2> QED
    BY <1>4, <1>5, <2>1
<1>6. CASE To(c, [at |-> "live", run |-> n, next |-> 3, kept |-> FALSE])
  <2>1. [at |-> "live", run |-> n, next |-> 3, kept |-> FALSE] # Off
    BY DEF Off
  <2> QED
    BY <1>4, <1>6, <2>1
<1> QED
  BY <1>5, <1>6 DEF Retrieve

LEMMA AskLLMFollows ==
    ASSUME CacheInv, StreamInv, NEW c \in Clients, AskLLM(c) PROVE StreamInv'
<1> DEFINE n == conn[c].run
<1>1. conn[c] # Off /\ conn[c].at = "ask" /\ n \in Runs /\ Position(conn[c]) = 2
  BY RunOf DEF CacheInv, AskLLM, Off, Position
<1>2. UNCHANGED <<linked, seen, resumed>>
  BY DEF AskLLM
<1>3. PICK kept \in BOOLEAN : To(c, [at |-> "live", run |-> n, next |-> 3, kept |-> kept])
  BY DEF AskLLM
<1> DEFINE going == [at |-> "live", run |-> n, next |-> 3, kept |-> kept]
<1>4. going # Off /\ Shows(going, n) /\ Position(going) = 2
  BY DEF Off, Shows, Position
<1>5. \A m \in Runs : Shows(conn[c], m) => m = n
  BY <1>1 DEF Shows
<1> HIDE DEF going
<1>6. To(c, going)
  BY <1>3 DEF going
<1> QED
  BY <1>1, <1>2, <1>4, <1>5, <1>6, SilentFollows

LEMMA SaveFollows ==
    ASSUME CacheInv, StreamInv, NEW c \in Clients, Save(c) PROVE StreamInv'
<1>1. conn[c] # Off /\ Position(conn[c]) = LastFrame
  BY DEF Save, Off, Position
<1>2. To(c, Off) /\ UNCHANGED <<linked, seen, resumed>>
  BY DEF Save
<1>3. ASSUME c \in linked PROVE seen[c] # << >> /\ Last(seen[c]).last
  <2>1. PICK m \in Runs : Reads(seen[c], m, LastFrame)
    BY <1>1, <1>3 DEF StreamInv, StreamOk, Follows
  <2>2. Len(seen[c]) = LastFrame /\ seen[c][LastFrame] = FrameOf(LastFrame, m)
    BY <2>1 DEF Reads
  <2>3. FrameOf(LastFrame, m).last
    BY FrameOfType
  <2>4. LastFrame # 0
    OBVIOUS
  <2> QED
    BY <2>2, <2>3, <2>4, EmptySeq DEF Last
<1> QED
  BY <1>1, <1>2, <1>3, SilentFollows

LEMMA BreakFollows ==
    ASSUME CacheInv, StreamInv, NEW c \in Clients, Break(c) PROVE StreamInv'
<1>1. conn[c] # Off /\ To(c, Off) /\ UNCHANGED <<linked, resumed>>
  BY DEF Break, Off
<1>2. CASE c \notin linked
  BY <1>1, <1>2, SilentFollows DEF Break
<1>3. CASE c \in linked
  <2>1. PICK m \in Runs : Shows(conn[c], m) /\ Reads(seen[c], m, Position(conn[c]))
    BY <1>1, <1>3 DEF StreamInv, StreamOk, Follows
  <2>2. Len(seen[c]) \in Nat /\ Reads(seen[c], m, Len(seen[c]))
    BY <2>1, LenProperties DEF Reads, StreamInv, StreamType
  <2> DEFINE s == Append(seen[c], ErrorFrame(Len(seen[c]) + 1))
  <2>3. s \in Seq(Frames) /\ OneRun(s) /\ s # << >> /\ Last(s).last
    BY <2>2, ErrorIsOneRun
  <2>4. seen' = [seen EXCEPT ![c] = s]
    BY <1>3 DEF Break, ErrorFrame
  <2>5. seen'[c] = s /\ \A d \in Clients \ {c} : seen'[d] = seen[d]
    BY <2>4 DEF StreamInv, StreamType
  <2>6. StreamType'
    BY <1>1, <2>3, <2>4 DEF StreamInv, StreamType
  <2>7. \A d \in Clients : conn'[d] = IF d = c THEN Off ELSE conn[d]
    BY <1>1 DEF CacheInv, CacheType, To
  <2> HIDE DEF s
  <2>8. StreamOk(c)'
    BY <2>3, <2>5, <2>7 DEF StreamOk, Follows
  <2> QED
    BY <1>1, <2>5, <2>6, <2>7, <2>8, OthersFollow
<1> QED
  BY <1>2, <1>3

LEMMA DisconnectFollows ==
    ASSUME CacheInv, StreamInv, NEW c \in Clients, NEW lost \in 0..MaxLost, Disconnect(c, lost)
    PROVE  StreamInv'
<1> DEFINE s == SubSeq(seen[c], 1, Len(seen[c]) - lost)
<1>1. seen[c] \in Seq(Frames) /\ c \in linked /\ c \notin resumed
  BY DEF Disconnect, StreamInv, StreamType
<1>2. s \in Seq(Frames) /\ OneRun(s)
  BY <1>1, ShorterIsOneRun DEF Disconnect, StreamInv, StreamOk
<1>3. seen' = [seen EXCEPT ![c] = s] /\ linked' = linked \ {c} /\ UNCHANGED <<conn, resumed>>
  BY DEF Disconnect
<1>4. seen'[c] = s /\ \A d \in Clients \ {c} : seen'[d] = seen[d]
  BY <1>3 DEF StreamInv, StreamType
<1>5. StreamType'
  BY <1>2, <1>3 DEF StreamInv, StreamType
<1> HIDE DEF s
<1>6. StreamOk(c)'
  BY <1>2, <1>3, <1>4 DEF StreamInv, StreamOk
<1> QED
  BY <1>3, <1>4, <1>5, <1>6, OthersFollow

-----------------------------------------------------------------------------
(* What a resumed stream is sent                                            *)

(* One frame more of what is cached, for a stream resumed after frame k.    *)
Taken(s, k, t, i) == IF s[i].id > k THEN Append(t, s[i]) ELSE t

IsTaking(s, k, f, n) ==
    /\ f \in [0..n -> Seq(Frames)] /\ f[0] = << >>
    /\ \A i \in 1..n : f[i] = Taken(s, k, f[i - 1], i)

LEMMA TakingExists ==
    ASSUME NEW s \in Seq(Frames), NEW k \in Nat
    PROVE  \E f : IsTaking(s, k, f, Len(s))
<1> DEFINE T == {n \in 0..Len(s) : \E f : IsTaking(s, k, f, n)}
<1>0. Len(s) \in Nat
  BY LenProperties
<1>1. 0 \in T
  <2>1. IsTaking(s, k, [i \in 0..0 |-> << >>], 0)
    BY EmptySeq DEF IsTaking
  <2> QED
    BY <1>0, <2>1
<1>2. ASSUME NEW i \in 1..Len(s), i - 1 \in T PROVE i \in T
  <2>1. PICK f : IsTaking(s, k, f, i - 1)
    BY <1>2
  <2> DEFINE g == [j \in 0..i |-> IF j = i THEN Taken(s, k, f[i - 1], i) ELSE f[j]]
  <2>2. f \in [0..(i - 1) -> Seq(Frames)] /\ f[0] = << >>
    BY <2>1 DEF IsTaking
  <2>3. Taken(s, k, f[i - 1], i) \in Seq(Frames)
    BY <1>0, <2>2, ElementOfSeq, AppendProperties DEF Taken
  <2>4. g \in [0..i -> Seq(Frames)] /\ g[0] = << >>
    BY <1>0, <2>2, <2>3
  <2>5. ASSUME NEW j \in 1..i PROVE g[j] = Taken(s, k, g[j - 1], j)
    <3>1. g[j - 1] = f[j - 1]
      BY <1>0
    <3>2. CASE j = i
      BY <3>1, <3>2
    <3>3. CASE j # i
      BY <1>0, <2>1, <3>1, <3>3 DEF IsTaking
    <3> QED
      BY <3>2, <3>3
  <2>6. IsTaking(s, k, g, i)
    BY <2>4, <2>5 DEF IsTaking
  <2> QED
    BY <2>6
<1> HIDE DEF T
<1>3. Len(s) \in T
  BY <1>0, <1>1, <1>2, ReachedAll
<1> QED
  BY <1>3 DEF T

LEMMA AfterIsTaking ==
    ASSUME NEW v, NEW k \in Nat, frames[v] \in Seq(Frames)
    PROVE  \E f : IsTaking(frames[v], k, f, Len(frames[v])) /\ After(v, k) = f[Len(frames[v])]
<1> DEFINE s == frames[v]
           n == Len(s)
           Rule(f) == [i \in 0..n |-> IF i = 0 THEN << >>
                                      ELSE IF s[i].id > k THEN Append(f[i - 1], s[i])
                                      ELSE f[i - 1]]
           upTo == CHOOSE f : f = Rule(f)
<1>0. n \in Nat
  BY LenProperties
<1>1. PICK f : IsTaking(s, k, f, n)
  BY TakingExists
<1>2. f = Rule(f)
  <2>1. f \in [0..n -> Seq(Frames)]
    BY <1>1 DEF IsTaking
  <2>2. ASSUME NEW i \in 0..n PROVE f[i] = Rule(f)[i]
    <3>1. CASE i = 0
      BY <1>0, <1>1, <3>1 DEF IsTaking
    <3>2. CASE i # 0
      BY <1>0, <1>1, <3>2 DEF IsTaking, Taken
    <3> QED
      BY <3>1, <3>2
  <2> QED
    BY <2>1, <2>2
<1>3. upTo = Rule(upTo)
  BY <1>2
<1>4. After(v, k) = upTo[n]
  BY DEF After
<1> HIDE DEF upTo
<1>5. \A i \in 0..n : upTo[i] = IF i = 0 THEN << >> ELSE Taken(s, k, upTo[i - 1], i)
  BY <1>3 DEF Taken
<1>6. DOMAIN upTo = 0..n
  BY <1>3
<1> DEFINE T == {i \in 0..n : upTo[i] = f[i]}
<1>7. 0 \in T
  BY <1>0, <1>1, <1>5 DEF IsTaking
<1>8. ASSUME NEW i \in 1..n, i - 1 \in T PROVE i \in T
  BY <1>0, <1>1, <1>5, <1>8 DEF IsTaking
<1> HIDE DEF T
<1>9. n \in T
  BY <1>0, <1>7, <1>8, ReachedAll
<1> QED
  BY <1>1, <1>4, <1>9 DEF T

(* It is sent the frames after the last it has, none of them left out.      *)
Continues(t, k) ==
    \A i \in 1..Len(t) : t[i].id = k + 1 \/ \E j \in 1..(i - 1) : t[j].id = t[i].id - 1

LEMMA FrameIds ==
    ASSUME NEW s \in Seq(Frames), NEW i \in 1..Len(s)
    PROVE  s[i] \in Frames /\ s[i].id \in Nat
<1>1. s[i] \in Frames
  BY ElementOfSeq
<1> QED
  BY <1>1 DEF Frames

(* Induction along the frames that are looked at, up to number n.           *)
TakenSoFar(s, k, t, n) ==
    /\ t \in Seq(Frames)
    /\ \A i \in 1..Len(t) : t[i].id > k
    /\ \A i \in 1..n : s[i].id > k => \E j \in 1..Len(t) : t[j].id = s[i].id
    /\ Continues(t, k)

LEMMA TakenMore ==
    ASSUME NEW s \in Seq(Frames), Gapless(s), NEW k \in Nat, NEW t,
           NEW n \in 1..Len(s), TakenSoFar(s, k, t, n - 1)
    PROVE  TakenSoFar(s, k, Taken(s, k, t, n), n)
<1>0. /\ t \in Seq(Frames) /\ Len(t) \in Nat /\ Len(s) \in Nat
      /\ \A i \in 1..Len(t) : t[i].id > k
      /\ \A i \in 1..(n - 1) : s[i].id > k => \E j \in 1..Len(t) : t[j].id = s[i].id
      /\ Continues(t, k)
      /\ s[n] \in Frames /\ s[n].id \in Nat
  BY LenProperties, FrameIds DEF TakenSoFar
<1>1. CASE ~ (s[n].id > k)
  <2>1. Taken(s, k, t, n) = t
    BY <1>1 DEF Taken
  <2>2. \A i \in 1..n : i = n \/ i \in 1..(n - 1)
    BY <1>0
  <2> QED
    BY <1>0, <1>1, <2>1, <2>2 DEF TakenSoFar
<1>2. CASE s[n].id > k
  <2> DEFINE u == Append(t, s[n])
  <2>1. /\ u \in Seq(Frames) /\ Len(u) = Len(t) + 1 /\ u[Len(t) + 1] = s[n]
        /\ \A i \in 1..Len(t) : u[i] = t[i]
    BY <1>0, Appended
  <2>2. Taken(s, k, t, n) = u
    BY <1>2 DEF Taken
  <2> HIDE DEF u
  <2>3. ASSUME NEW i \in 1..Len(u) PROVE u[i].id > k
    <3>1. i \in 1..Len(t) \/ i = Len(t) + 1
      BY <1>0, <2>1
    <3> QED
      BY <1>0, <1>2, <2>1, <3>1
  <2>4. ASSUME NEW i \in 1..n, s[i].id > k PROVE \E j \in 1..Len(u) : u[j].id = s[i].id
    <3>1. CASE i = n
      BY <1>0, <2>1, <3>1
    <3>2. CASE i # n
      <4>1. i \in 1..(n - 1)
        BY <1>0, <3>2
      <4>2. PICK j \in 1..Len(t) : t[j].id = s[i].id
        BY <1>0, <2>4, <4>1
      <4> QED
        BY <1>0, <2>1, <4>2
    <3> QED
      BY <3>1, <3>2
  <2>5. s[n].id = k + 1 \/ \E j \in 1..Len(t) : t[j].id = s[n].id - 1
    <3>1. CASE s[n].id = 1
      BY <1>0, <1>2, <3>1
    <3>2. CASE s[n].id # 1
      <4>1. PICK j \in 1..(n - 1) : s[j].id = s[n].id - 1
        BY <3>2 DEF Gapless
      <4>2. CASE s[j].id > k
        BY <1>0, <4>1, <4>2
      <4>3. CASE ~ (s[j].id > k)
        BY <1>0, <1>2, <4>1, <4>3
      <4> QED
        BY <4>2, <4>3
    <3> QED
      BY <3>1, <3>2
  <2>6. Continues(u, k)
    <3> SUFFICES ASSUME NEW i \in 1..Len(u)
                 PROVE  u[i].id = k + 1 \/ \E j \in 1..(i - 1) : u[j].id = u[i].id - 1
      BY DEF Continues
    <3>1. CASE i = Len(t) + 1
      BY <1>0, <2>1, <2>5, <3>1
    <3>2. CASE i # Len(t) + 1
      <4>1. i \in 1..Len(t) /\ \A j \in 1..(i - 1) : j \in 1..Len(t)
        BY <1>0, <2>1, <3>2
      <4>2. t[i].id = k + 1 \/ \E j \in 1..(i - 1) : t[j].id = t[i].id - 1
        BY <1>0, <4>1 DEF Continues
      <4> QED
        BY <2>1, <4>1, <4>2
    <3> QED
      BY <3>1, <3>2
  <2> QED
    BY <2>1, <2>2, <2>3, <2>4, <2>6 DEF TakenSoFar
<1> QED
  BY <1>1, <1>2

LEMMA AfterContinues ==
    ASSUME NEW v, NEW k \in Nat, frames[v] \in Seq(Frames)
    PROVE  /\ After(v, k) \in Seq(Frames)
           /\ Gapless(frames[v]) => Continues(After(v, k), k)
<1> DEFINE s == frames[v]
<1>0. Len(s) \in Nat
  BY LenProperties
<1>1. PICK f : IsTaking(s, k, f, Len(s)) /\ After(v, k) = f[Len(s)]
  BY AfterIsTaking
<1>2. After(v, k) \in Seq(Frames)
  BY <1>0, <1>1 DEF IsTaking
<1>3. ASSUME Gapless(s) PROVE Continues(After(v, k), k)
  <2> DEFINE T == {n \in 0..Len(s) : TakenSoFar(s, k, f[n], n)}
  <2>1. 0 \in T
    <3>1. TakenSoFar(s, k, << >>, 0)
      BY EmptySeq DEF TakenSoFar, Continues
    <3> QED
      BY <1>0, <1>1, <3>1 DEF IsTaking
  <2>2. ASSUME NEW n \in 1..Len(s), n - 1 \in T PROVE n \in T
    <3>1. f[n] = Taken(s, k, f[n - 1], n)
      BY <1>1 DEF IsTaking
    <3>2. TakenSoFar(s, k, f[n - 1], n - 1)
      BY <2>2
    <3> QED
      BY <1>0, <1>3, <3>1, <3>2, TakenMore
  <2> HIDE DEF T
  <2>3. Len(s) \in T
    BY <1>0, <2>1, <2>2, ReachedAll
  <2> QED
    BY <1>1, <2>3 DEF T, TakenSoFar
<1> QED
  BY <1>2, <1>3

(* An attempt that goes on so has no gap.                                   *)
LEMMA ContinuedIsGapless ==
    ASSUME NEW s \in Seq(Frames), s # << >>, Gapless(s), NEW t \in Seq(Frames),
           Continues(t, Last(s).id)
    PROVE  Gapless(s \o t)
<1> DEFINE u == s \o t
<1>1. /\ Len(s) \in Nat \ {0} /\ Len(t) \in Nat /\ Last(s) = s[Len(s)]
      /\ Len(u) = Len(s) + Len(t)
      /\ \A i \in 1..Len(s) : u[i] = s[i]
      /\ \A i \in 1..Len(t) : u[Len(s) + i] = t[i]
  BY LenProperties, EmptySeq, ConcatProperties DEF Last
<1> HIDE DEF u
<1>2. ASSUME NEW i \in 1..Len(u)
      PROVE  u[i].id = 1 \/ \E j \in 1..(i - 1) : u[j].id = u[i].id - 1
  <2>1. CASE i <= Len(s)
    <3>1. i \in 1..Len(s) /\ \A j \in 1..(i - 1) : j \in 1..Len(s)
      BY <1>1, <2>1
    <3> QED
      BY <1>1, <3>1 DEF Gapless
  <2>2. CASE i > Len(s)
    <3> DEFINE k == i - Len(s)
    <3>1. k \in 1..Len(t) /\ i = Len(s) + k /\ u[i] = t[k]
      BY <1>1, <2>2
    <3>2. CASE t[k].id = Last(s).id + 1
      <4>1. s[Len(s)].id \in Nat
        BY <1>1, FrameIds
      <4>2. Len(s) \in 1..(i - 1) /\ u[Len(s)] = s[Len(s)]
        BY <1>1, <2>2
      <4>3. u[Len(s)].id = u[i].id - 1
        BY <1>1, <3>1, <3>2, <4>1, <4>2
      <4> QED
        BY <4>2, <4>3
    <3>3. CASE t[k].id # Last(s).id + 1
      <4>1. PICK j \in 1..(k - 1) : t[j].id = t[k].id - 1
        BY <3>1, <3>3 DEF Continues
      <4>2. j \in 1..Len(t) /\ Len(s) + j \in 1..(i - 1)
        BY <1>1, <3>1, <4>1
      <4> QED
        BY <1>1, <3>1, <4>1, <4>2
    <3> QED
      BY <3>2, <3>3
  <2> QED
    BY <1>1, <2>1, <2>2
<1> QED
  BY <1>2 DEF Gapless, u

LEMMA ResumeFollows ==
    ASSUME StreamInv, GapInv, NEW c \in Clients, Resume(c) PROVE StreamInv'
<1> DEFINE v == ReviewOf[c]
           s == IF redis /\ frames[v] # << >>
                THEN seen[c] \o After(v, Last(seen[c]).id) ELSE << >>
<1>1. seen[c] \in Seq(Frames) /\ frames[v] \in Seq(Frames)
  BY DEF StreamInv, StreamType, GapInv
<1>2. Last(seen[c]).id \in Nat
  BY <1>1, EmptySeq, FrameIds DEF Resume, Last
<1>3. s \in Seq(Frames)
  BY <1>1, <1>2, AfterContinues, ConcatProperties, EmptySeq
<1>4. /\ seen' = [seen EXCEPT ![c] = s] /\ resumed' = resumed \cup {c}
      /\ UNCHANGED <<conn, linked>> /\ c \notin linked
  BY DEF Resume
<1> HIDE DEF s
<1>5. StreamType'
  BY <1>3, <1>4 DEF StreamInv, StreamType
<1>6. StreamOk(c)'
  BY <1>4 DEF StreamInv, StreamOk
<1>7. \A d \in Clients \ {c} : seen'[d] = seen[d]
  BY <1>4 DEF StreamInv, StreamType
<1> QED
  BY <1>4, <1>5, <1>6, <1>7, OthersFollow

-----------------------------------------------------------------------------
(* Gaps                                                                     *)

LEMMA OneRunIsGapless ==
    ASSUME NEW s \in Seq(Frames), OneRun(s) PROVE Gapless(s)
<1>0. Len(s) \in Nat
  BY LenProperties
<1>1. ASSUME NEW i \in 1..Len(s) PROVE s[i].id = i
  <2>1. PICK n \in Runs \cup {NoRun} : s[i] = FrameOf(i, n) \/ s[i] = ErrorFrame(i)
    BY DEF OneRun
  <2>2. i \in Nat /\ ErrorFrame(i).id = i
    BY <1>0 DEF ErrorFrame
  <2> QED
    BY <2>1, <2>2, FrameOfType
<1>2. ASSUME NEW i \in 1..Len(s), i # 1 PROVE i - 1 \in 1..(i - 1) /\ s[i - 1].id = s[i].id - 1
  BY <1>0, <1>1, <1>2
<1> QED
  BY <1>1, <1>2 DEF Gapless

LEMMA GapInit == StreamInit => GapInv
<1> SUFFICES ASSUME StreamInit PROVE GapInv
  OBVIOUS
<1>1. Gapless(<< >>)
  BY EmptySeq DEF Gapless
<1>2. frames \in [Reviews -> Seq(Frames)]
  BY EmptySeq DEF StreamInit
<1> QED
  BY <1>1, <1>2 DEF StreamInit, GapInv, Backed

LEMMA GaplessNext ==
    ASSUME NEW s \in Seq(Frames), Gapless(s), NEW f \in Frames,
           f.id = 1 \/ \E i \in 1..Len(s) : s[i].id = f.id - 1
    PROVE  Gapless(Append(s, f))
<1> DEFINE t == Append(s, f)
<1>1. /\ Len(s) \in Nat /\ Len(t) = Len(s) + 1 /\ t[Len(s) + 1] = f
      /\ \A i \in 1..Len(s) : t[i] = s[i]
  BY Appended, LenProperties
<1> HIDE DEF t
<1>2. ASSUME NEW i \in 1..Len(t)
      PROVE  t[i].id = 1 \/ \E j \in 1..(i - 1) : t[j].id = t[i].id - 1
  <2>1. CASE i = Len(s) + 1
    BY <1>1, <2>1
  <2>2. CASE i # Len(s) + 1
    <3>1. i \in 1..Len(s) /\ \A j \in 1..(i - 1) : j \in 1..Len(s)
      BY <1>1, <2>2
    <3> QED
      BY <1>1, <3>1 DEF Gapless
  <2> QED
    BY <2>1, <2>2
<1> QED
  BY <1>2 DEF Gapless, t

(* A step of one stream or client that adds nothing to what is kept.        *)
LEMMA NothingKept ==
    ASSUME GapInv, StreamInv', NEW c \in Clients, UNCHANGED <<frames, gap>>,
           \A d \in Clients \ {c} : conn'[d] = conn[d] /\ seen'[d] = seen[d],
           \/ conn'[c] = Off
           \/ conn[c] # Off /\ Position(conn'[c]) = Position(conn[c]),
           \/ seen'[c] = seen[c]
           \/ c \notin resumed'
           \/ ReviewOf[c] \notin gap => Gapless(seen'[c])
    PROVE  GapInv'
<1>1. ReviewOf[c] \notin gap => Gapless(seen'[c])
  BY OneRunIsGapless DEF StreamInv, StreamType, StreamOk, GapInv, Backed
<1>2. Backed(c)'
  BY <1>1 DEF GapInv, Backed
<1>3. ASSUME NEW d \in Clients \ {c} PROVE Backed(d)'
  BY DEF GapInv, Backed
<1> QED
  BY <1>2, <1>3 DEF GapInv

(* One that adds its next frame, or cannot.                                 *)
LEMMA FrameKept ==
    ASSUME GapInv, StreamInv', NEW c \in Clients, NEW f \in Frames, Cache(ReviewOf[c], f),
           \A d \in Clients \ {c} : conn'[d] = conn[d] /\ seen'[d] = seen[d],
           f.id = 1 \/ (conn[c] # Off /\ f.id - 1 = Position(conn[c])),
           conn'[c] = Off \/ Position(conn'[c]) = f.id,
           seen'[c] = seen[c] \/ c \notin resumed'
    PROVE  GapInv'
<1> DEFINE v == ReviewOf[c]
           s == Append(frames[v], f)
<1>0. v \in Reviews /\ frames[v] \in Seq(Frames) /\ gap \subseteq gap'
  BY DEF GapInv, Cache
<1>1. v \notin gap => Gapless(seen'[c])
  BY OneRunIsGapless DEF StreamInv, StreamType, StreamOk, GapInv, Backed
<1>2. CASE ~redis
  <2>1. frames' = frames /\ gap' = gap \cup {v}
    BY <1>2 DEF Cache
  <2>2. ASSUME NEW d \in Clients PROVE Backed(d)'
    BY <2>1 DEF GapInv, Backed
  <2> QED
    BY <1>0, <2>1, <2>2 DEF GapInv
<1>3. CASE redis
  <2>1. frames' = [frames EXCEPT ![v] = s] /\ gap' = gap
    BY <1>3 DEF Cache
  <2>2. /\ s \in Seq(Frames) /\ Len(s) = Len(frames[v]) + 1 /\ Len(frames[v]) \in Nat
        /\ s[Len(frames[v]) + 1] = f
        /\ \A i \in 1..Len(frames[v]) : s[i] = frames[v][i]
    BY <1>0, Appended, LenProperties
  <2>3. v \notin gap => Gapless(s)
    BY <1>0, GaplessNext DEF GapInv, Backed
  <2>4. frames' \in [Reviews -> Seq(Frames)]
    BY <1>0, <2>1, <2>2 DEF GapInv
  <2> HIDE DEF s
  <2>5. frames'[v] = s /\ \A w \in Reviews \ {v} : frames'[w] = frames[w]
    BY <1>0, <2>1 DEF GapInv
  <2>6. \A w \in Reviews \ gap' : Gapless(frames'[w])
    BY <2>1, <2>3, <2>5 DEF GapInv
  <2>7. ASSUME NEW d \in Clients \ {c} PROVE Backed(d)'
    <3>1. CASE ReviewOf[d] = v
      <4>1. v \notin gap /\ conn[d] # Off => \E i \in 1..Len(frames[v]) : frames[v][i].id = Position(conn[d])
        BY <3>1 DEF GapInv, Backed
      <4>2. v \notin gap /\ conn[d] # Off => \E i \in 1..Len(s) : s[i].id = Position(conn[d])
        BY <2>2, <4>1
      <4> QED
        BY <2>1, <2>5, <3>1, <4>2 DEF GapInv, Backed
    <3>2. CASE ReviewOf[d] # v
      BY <2>1, <2>5, <3>2 DEF GapInv, Backed
    <3> QED
      BY <3>1, <3>2
  <2>8. Backed(c)'
    BY <1>1, <2>1, <2>2, <2>5 DEF Backed
  <2> QED
    BY <2>4, <2>6, <2>7, <2>8 DEF GapInv
<1> QED
  BY <1>2, <1>3

LEMMA EmitKeeps ==
    ASSUME CacheInv, StreamInv, GapInv, NEW c \in Clients, NEW going, NEW f,
           To(c, going), Emit(c, f), conn[c] # Off,
           \A m \in Runs : Shows(conn[c], m) =>
               /\ f = FrameOf(Position(conn[c]) + 1, m)
               /\ going # Off => Shows(going, m) /\ Position(going) = Position(conn[c]) + 1,
           going = Off => f.last
    PROVE  StreamInv' /\ GapInv'
<1>1. StreamInv'
  BY EmitFollows
<1>2. PICK m \in Runs : Shows(conn[c], m)
  BY DEF StreamInv, StreamOk
<1>3. Position(conn[c]) \in Nat
  BY <1>2, PositionType DEF CacheInv
<1>4. f \in Frames /\ f.id = Position(conn[c]) + 1
  BY <1>2, <1>3, FrameOfType
<1>5. going = Off \/ Position(going) = f.id
  BY <1>2, <1>4
<1>6. \A d \in Clients : conn'[d] = IF d = c THEN going ELSE conn[d]
  BY DEF CacheInv, CacheType, To
<1>7. /\ Cache(ReviewOf[c], f)
      /\ \A d \in Clients \ {c} : seen'[d] = seen[d]
      /\ seen'[c] = seen[c] \/ c \in linked
      /\ resumed' = resumed
  BY DEF Emit, StreamInv, StreamType
<1>8. c \in linked => c \notin resumed'
  BY <1>7 DEF StreamInv, StreamType
<1>9. f.id - 1 = Position(conn[c])
  BY <1>3, <1>4
<1>10. GapInv'
  BY <1>1, <1>4, <1>5, <1>6, <1>7, <1>8, <1>9, FrameKept
<1> QED
  BY <1>1, <1>10

LEMMA ReplayFollows ==
    ASSUME CacheInv, StreamInv, GapInv, NEW c \in Clients, Replay(c)
    PROVE  StreamInv' /\ GapInv'
<1> DEFINE q == conn[c].queue
<1>1. conn[c] \in [at: {"replay"}, run: Runs, queue: Seq(Frames)] /\ conn[c] # Off
  BY ReplayType DEF CacheInv, Replay
<1>2. PICK n \in Runs : RestOf(q, n)
  BY <1>1 DEF StreamInv, StreamOk, Shows
<1>3. Position(conn[c]) = LastFrame - Len(q)
  BY <1>1 DEF Position
<1>4. CASE q = << >>
  <2>1. To(c, Off) /\ UNCHANGED <<linked, seen, resumed>>
    BY <1>4 DEF Replay
  <2>2. Position(conn[c]) = LastFrame
    BY <1>3, <1>4, EmptySeq
  <2>3. ASSUME c \in linked PROVE seen[c] # << >> /\ Last(seen[c]).last
    <3>1. PICK m \in Runs : Reads(seen[c], m, LastFrame)
      BY <1>1, <2>2, <2>3 DEF StreamInv, StreamOk, Follows
    <3>2. Len(seen[c]) = LastFrame /\ seen[c][LastFrame] = FrameOf(LastFrame, m)
      BY <3>1 DEF Reads
    <3> QED
      BY <3>2, FrameOfType, EmptySeq DEF Last
  <2>4. StreamInv'
    BY <1>1, <2>1, <2>3, SilentFollows
  <2>5. \A d \in Clients : conn'[d] = IF d = c THEN Off ELSE conn[d]
    BY <2>1 DEF CacheInv, CacheType, To
  <2>6. UNCHANGED <<frames, gap>>
    BY <1>4 DEF Replay
  <2>7. GapInv'
    BY <2>1, <2>4, <2>5, <2>6, NothingKept
  <2> QED
    BY <2>4, <2>7
<1>5. CASE q # << >>
  <2> DEFINE going == [conn[c] EXCEPT !.queue = Tail(q)]
             f == Head(q)
  <2>1. To(c, going) /\ Emit(c, f)
    BY <1>5 DEF Replay
  <2>2. ASSUME NEW m \in Runs, Shows(conn[c], m)
        PROVE  /\ f = FrameOf(Position(conn[c]) + 1, m)
               /\ Shows(going, m) /\ Position(going) = Position(conn[c]) + 1
    <3>1. RestOf(q, m)
      BY <1>1, <2>2 DEF Shows
    <3>2. /\ f = FrameOf(LastFrame - Len(q) + 1, m)
          /\ RestOf(Tail(q), m) /\ Len(Tail(q)) = Len(q) - 1
      BY <1>1, <1>5, <3>1, TailIsRest
    <3>3. going.at = "replay" /\ going.queue = Tail(q)
      BY <1>1
    <3>4. Len(q) \in Nat
      BY <1>1, LenProperties
    <3>5. Shows(going, m) /\ Position(going) = LastFrame - Len(Tail(q))
      BY <3>2, <3>3 DEF Shows, Position
    <3>6. LastFrame - (Len(q) - 1) = LastFrame - Len(q) + 1
      BY <3>4
    <3>7. Position(going) = Position(conn[c]) + 1
      BY <1>3, <3>2, <3>5, <3>6
    <3> HIDE DEF going, q
    <3> QED
      BY <1>3, <3>2, <3>5, <3>7
  <2>3. going # Off
    BY <1>1 DEF Off
  <2> HIDE DEF going, f
  <2> QED
    BY <1>1, <2>1, <2>2, <2>3, EmitKeeps
<1> QED
  BY <1>4, <1>5

LEMMA LiveFollows ==
    ASSUME CacheInv, StreamInv, GapInv, NEW c \in Clients, Live(c)
    PROVE  StreamInv' /\ GapInv'
<1> DEFINE q == conn[c]
           going == AfterFrame(q)
           f == Frame(q.next, q.run)
<1>1. /\ q \in [at: {"live"}, run: Runs, next: 2..LastFrame, kept: BOOLEAN]
      /\ q # Off /\ Position(q) = q.next - 1
  BY LiveType DEF CacheInv, Live, Position
<1>2. To(c, going) /\ Emit(c, f)
  BY DEF Live
<1>3. \A m \in Runs : Shows(q, m) => m = q.run
  BY <1>1 DEF Shows
<1>4. f = FrameOf(Position(q) + 1, q.run)
  BY <1>1 DEF FrameOf
<1>5. going # Off => Shows(going, q.run) /\ Position(going) = Position(q) + 1
  <2>1. CASE q.next = 2
    BY <1>1, <2>1 DEF AfterFrame, Shows, Position
  <2>2. CASE q.next # 2 /\ q.next = LastFrame
    BY <1>1, <2>2 DEF AfterFrame, Shows, Position
  <2>3. CASE q.next # 2 /\ q.next # LastFrame
    <3>1. going = [q EXCEPT !.next = @ + 1]
      BY <2>3 DEF AfterFrame
    <3>2. going.at = "live" /\ going.run = q.run /\ going.next = q.next + 1
      BY <1>1, <3>1
    <3> HIDE DEF going
    <3> QED
      BY <1>1, <3>2 DEF Shows, Position
  <2> QED
    BY <2>1, <2>2, <2>3
<1>6. going = Off => f.last
  <2>1. CASE q.next = LastFrame
    BY <2>1 DEF Frame
  <2>2. CASE q.next # LastFrame /\ q.next = 2
    BY <2>2 DEF AfterFrame, Off
  <2>3. CASE q.next # LastFrame /\ q.next # 2
    <3>1. going = [q EXCEPT !.next = @ + 1]
      BY <2>3 DEF AfterFrame
    <3>2. going.at = "live"
      BY <1>1, <3>1
    <3> QED
      BY <3>2 DEF Off
  <2> QED
    BY <2>1, <2>2, <2>3
<1> HIDE DEF going, f
<1> QED
  BY <1>1, <1>2, <1>3, <1>4, <1>5, <1>6, EmitKeeps

LEMMA StartGaps ==
    ASSUME CacheInv, StreamInv, GapInv, NEW c \in Clients, Start(c), StreamInv' PROVE GapInv'
<1> DEFINE f == Frame(1, NoRun)
           going == [at |-> "lookup", run |-> runs + 1]
<1>1. f \in Frames /\ f.id = 1
  BY DEF Frame, Frames
<1>2. \A d \in Clients : conn'[d] = IF d = c THEN going ELSE conn[d]
  BY DEF CacheInv, CacheType, Start, To
<1>3. Position(going) = 1
  BY DEF Position
<1>4. Cache(ReviewOf[c], f) /\ c \notin resumed'
  BY DEF Start
<1>5. \A d \in Clients \ {c} : seen'[d] = seen[d]
  BY DEF Start, StreamInv, StreamType
<1> HIDE DEF f, going
<1> QED
  BY <1>1, <1>2, <1>3, <1>4, <1>5, FrameKept

(* Lookup, Retrieve and AskLLM go on at the same frame, the others end.     *)
LEMMA SilentGaps ==
    ASSUME CacheInv, GapInv, NEW c \in Clients, StreamInv',
           Lookup(c) \/ Retrieve(c) \/ AskLLM(c) \/ Save(c) \/ Cancel(c)
    PROVE  GapInv'
<1>1. UNCHANGED <<frames, gap, seen>>
  BY DEF Lookup, Retrieve, AskLLM, Save, Cancel
<1>2. PICK going : To(c, going) /\ (going = Off \/ (conn[c] # Off /\ Position(going) = Position(conn[c])))
  <2>1. CASE Lookup(c)
    <3> DEFINE n == conn[c].run
               going == IF Cached THEN [at |-> "replay", run |-> n, queue |-> scores]
                        ELSE [at |-> "live", run |-> n, next |-> 2, kept |-> TRUE]
    <3>1. Position(conn[c]) = 1 /\ conn[c] # Off /\ To(c, going)
      BY <2>1 DEF Lookup, Position, Off
    <3>2. Cached => Len(scores) = LastFrame - 1
      BY DEF CacheInv, CacheIsOneRun, Body, Cached
    <3>3. Position(going) = 1
      BY <3>2 DEF Position
    <3> HIDE DEF going
    <3> QED
      BY <3>1, <3>3
  <2>2. CASE Retrieve(c)
    <3>1. Position(conn[c]) = 2 /\ conn[c] # Off
      BY <2>2 DEF Retrieve, Position, Off
    <3>2. /\ Position([at |-> "ask", run |-> conn[c].run]) = 2
          /\ Position([at |-> "live", run |-> conn[c].run, next |-> 3, kept |-> FALSE]) = 2
      BY DEF Position
    <3> QED
      BY <2>2, <3>1, <3>2 DEF Retrieve
  <2>3. CASE AskLLM(c)
    <3>1. Position(conn[c]) = 2 /\ conn[c] # Off
      BY <2>3 DEF AskLLM, Position, Off
    <3>2. \A kept \in BOOLEAN :
            Position([at |-> "live", run |-> conn[c].run, next |-> 3, kept |-> kept]) = 2
      BY DEF Position
    <3> QED
      BY <2>3, <3>1, <3>2 DEF AskLLM
  <2>4. CASE Save(c) \/ Cancel(c)
    BY <2>4 DEF Save, Cancel
  <2> QED
    BY <2>1, <2>2, <2>3, <2>4
<1>3. \A d \in Clients : conn'[d] = IF d = c THEN going ELSE conn[d]
  BY <1>2 DEF CacheInv, CacheType, To
<1> QED
  BY <1>1, <1>2, <1>3, NothingKept

LEMMA BreakGaps ==
    ASSUME CacheInv, StreamInv, GapInv, NEW c \in Clients, Break(c), StreamInv' PROVE GapInv'
<1>1. \A d \in Clients : conn'[d] = IF d = c THEN Off ELSE conn[d]
  BY DEF CacheInv, CacheType, Break, To
<1>2. UNCHANGED <<frames, gap, resumed>>
  BY DEF Break
<1>3. \A d \in Clients \ {c} : seen'[d] = seen[d]
  BY DEF Break, StreamInv, StreamType
<1>4. seen'[c] = seen[c] \/ c \notin resumed'
  BY <1>2 DEF Break, StreamInv, StreamType
<1> QED
  BY <1>1, <1>2, <1>3, <1>4, NothingKept

LEMMA DisconnectGaps ==
    ASSUME StreamInv, GapInv, NEW c \in Clients, NEW lost \in 0..MaxLost,
           Disconnect(c, lost), StreamInv'
    PROVE  GapInv'
<1>1. UNCHANGED <<conn, frames, gap, resumed>>
  BY DEF Disconnect
<1>2. \A d \in Clients \ {c} : seen'[d] = seen[d]
  BY DEF Disconnect, StreamInv, StreamType
<1>3. c \notin resumed'
  BY <1>1 DEF Disconnect, StreamInv, StreamType
<1> QED
  BY <1>1, <1>2, <1>3, NothingKept

LEMMA ResumeGaps ==
    ASSUME StreamInv, GapInv, NEW c \in Clients, Resume(c), StreamInv' PROVE GapInv'
<1> DEFINE v == ReviewOf[c]
           s == IF redis /\ frames[v] # << >>
                THEN seen[c] \o After(v, Last(seen[c]).id) ELSE << >>
<1>1. seen[c] \in Seq(Frames) /\ frames[v] \in Seq(Frames) /\ seen[c] # << >>
  BY DEF StreamInv, StreamType, GapInv, Resume
<1>2. Last(seen[c]).id \in Nat
  BY <1>1, EmptySeq, FrameIds DEF Last
<1>3. ASSUME v \notin gap PROVE Gapless(s)
  <2>1. Gapless(frames[v]) /\ Gapless(seen[c])
    BY <1>3 DEF GapInv, Backed
  <2>2. Gapless(<< >>)
    BY EmptySeq DEF Gapless
  <2> QED
    BY <1>1, <1>2, <2>1, <2>2, AfterContinues, ContinuedIsGapless
<1>4. seen' = [seen EXCEPT ![c] = s] /\ UNCHANGED <<conn, frames, gap>>
  BY DEF Resume
<1> HIDE DEF s
<1>5. seen'[c] = s /\ \A d \in Clients \ {c} : seen'[d] = seen[d]
  BY <1>4 DEF StreamInv, StreamType
<1> QED
  BY <1>3, <1>4, <1>5, NothingKept

LEMMA ExpireSentGaps ==
    ASSUME GapInv, NEW v \in Reviews, ExpireSent(v) PROVE GapInv'
<1>1. Gapless(<< >>)
  BY EmptySeq DEF Gapless
<1>2. frames' = [frames EXCEPT ![v] = << >>] /\ UNCHANGED <<conn, seen>> /\ gap \subseteq gap'
  BY DEF ExpireSent
<1>3. frames' \in [Reviews -> Seq(Frames)]
  BY <1>2, EmptySeq DEF GapInv
<1>4. \A w \in Reviews : frames'[w] = IF w = v THEN << >> ELSE frames[w]
  BY <1>2 DEF GapInv
<1>5. \A w \in Reviews \ gap' : Gapless(frames'[w])
  BY <1>1, <1>2, <1>4 DEF GapInv
<1>6. ASSUME NEW c \in Clients, ReviewOf[c] = v, v \notin gap' PROVE conn[c] = Off
  BY <1>6 DEF ExpireSent
<1>7. ASSUME NEW c \in Clients PROVE Backed(c)'
  BY <1>2, <1>4, <1>6 DEF GapInv, Backed
<1> QED
  BY <1>3, <1>5, <1>7 DEF GapInv

LEMMA NoFrame ==
    ASSUME GapInv, UNCHANGED <<conn, frames, seen, gap>> PROVE GapInv'
BY DEF GapInv, Backed

-----------------------------------------------------------------------------
ViewInv == CacheInv /\ StreamInv /\ GapInv

THEOREM ViewInit == StreamInit => ViewInv
BY CacheInit, StreamBegins, GapInit DEF ViewInv

THEOREM ViewStep ==
    ViewInv /\ [StreamNext]_streamVars => ViewInv'
<1> SUFFICES ASSUME ViewInv, [StreamNext]_streamVars PROVE ViewInv'
  OBVIOUS
<1>0. CacheInv /\ StreamInv /\ GapInv
  BY DEF ViewInv
<1>1. CacheInv'
  BY <1>0, CacheStep
<1>2. ASSUME NEW c \in Clients, Generator(c) PROVE StreamInv' /\ GapInv'
  <2>1. CASE Lookup(c)
    BY <1>0, <2>1, LookupFollows, SilentGaps
  <2>2. CASE Replay(c)
    BY <1>0, <2>2, ReplayFollows
  <2>3. CASE Live(c)
    BY <1>0, <2>3, LiveFollows
  <2>4. CASE Retrieve(c)
    BY <1>0, <2>4, RetrieveFollows, SilentGaps
  <2>5. CASE AskLLM(c)
    BY <1>0, <2>5, AskLLMFollows, SilentGaps
  <2>6. CASE Save(c)
    BY <1>0, <2>6, SaveFollows, SilentGaps
  <2>7. CASE Break(c)
    BY <1>0, <2>7, BreakFollows, BreakGaps
  <2>8. CASE Cancel(c)
    <3>1. To(c, Off) /\ UNCHANGED <<linked, seen, resumed>> /\ conn[c] # Off /\ c \notin linked
      BY <2>8 DEF Cancel
    <3>2. StreamInv'
      BY <1>0, <3>1, SilentFollows
    <3> QED
      BY <1>0, <2>8, <3>2, SilentGaps
  <2> QED
    BY <1>2, <2>1, <2>2, <2>3, <2>4, <2>5, <2>6, <2>7, <2>8 DEF Generator
<1>3. ASSUME NEW c \in Clients, Client(c) PROVE StreamInv' /\ GapInv'
  <2>1. CASE Start(c)
    BY <1>0, <2>1, StartFollows, StartGaps
  <2>2. CASE \E lost \in 0..MaxLost : Disconnect(c, lost)
    BY <1>0, <2>2, DisconnectFollows, DisconnectGaps
  <2>3. CASE Resume(c)
    BY <1>0, <2>3, ResumeFollows, ResumeGaps
  <2> QED
    BY <1>3, <2>1, <2>2, <2>3 DEF Client
<1>4. ASSUME NEW v \in Reviews, ExpireSent(v) PROVE StreamInv' /\ GapInv'
  BY <1>0, <1>4, NobodyMoves, ExpireSentGaps DEF ExpireSent
<1>5. ASSUME RedisTurns \/ Expire PROVE StreamInv' /\ GapInv'
  BY <1>0, <1>5, NobodyMoves, NoFrame DEF RedisTurns, Expire
<1>6. ASSUME NEW k \in Kinds, Change(k) \/ Flush(k) \/ FlushNever(k) PROVE StreamInv' /\ GapInv'
  BY <1>0, <1>6, NobodyMoves, NoFrame DEF Change, Flush, FlushNever, history
<1>7. ASSUME UNCHANGED streamVars PROVE StreamInv' /\ GapInv'
  BY <1>0, <1>7, NobodyMoves, NoFrame DEF streamVars, history
<1>8. StreamInv' /\ GapInv'
  BY <1>2, <1>3, <1>4, <1>5, <1>6, <1>7 DEF StreamNext
<1> QED
  BY <1>1, <1>8 DEF ViewInv

-----------------------------------------------------------------------------
(* The results                                                              *)

THEOREM CacheInvHolds == StreamSpec => []CacheInv
<1>1. StreamInit => CacheInv
  BY CacheInit
<1>2. CacheInv /\ [StreamNext]_streamVars => CacheInv'
  BY CacheStep
<1> QED
  BY <1>1, <1>2, PTL DEF StreamSpec

(* _save_score_frames replaces the list of the key in one transaction: the  *)
(* score cache never mixes the frames of two runs.                          *)
THEOREM CacheIsOneRunHolds == StreamSpec => []CacheIsOneRun
<1>1. CacheInv => CacheIsOneRun
  BY DEF CacheInv
<1> QED
  BY <1>1, CacheInvHolds, PTL

(* Only a run that was under way at a flush can leave an old score behind   *)
(* it, or a flush that did not happen.                                      *)
THEOREM FreshUnlessOverlapHolds == StreamSpec => []FreshUnlessOverlap
<1>1. CacheInv => FreshUnlessOverlap
  BY DEF CacheInv, Fresh, Settled, ScoreFresh, FreshUnlessOverlap
<1> QED
  BY <1>1, CacheInvHolds, PTL

(* Both about the cache, as the run checks them.                            *)
THEOREM CacheIsRightHolds == StreamSpec => []CacheIsRight
<1>1. CacheIsOneRun /\ FreshUnlessOverlap => CacheIsRight
  BY DEF CacheIsRight
<1> QED
  BY <1>1, CacheIsOneRunHolds, FreshUnlessOverlapHolds, PTL

THEOREM ViewInvHolds == StreamSpec => []ViewInv
<1>1. StreamInit => ViewInv
  BY ViewInit
<1>2. ViewInv /\ [StreamNext]_streamVars => ViewInv'
  BY ViewStep
<1> QED
  BY <1>1, <1>2, PTL DEF StreamSpec

(* Whatever the other experts do, whichever run was cached or is under way, *)
(* an attempt that was not resumed shows one run, from its first frame on.  *)
THEOREM StreamIsOneRunHolds == StreamSpec => []StreamIsOneRun
<1>1. ASSUME StreamInv PROVE StreamIsOneRun
  <2> SUFFICES ASSUME NEW c \in Clients \ resumed
               PROVE  /\ \A i \in 1..Len(seen[c]) :
                          /\ seen[c][i].id = i
                          /\ \A j \in 2..i : seen[c][i].run \in {seen[c][j].run, NoRun}
                      /\ c \in linked /\ conn[c] = Off => seen[c] # << >> /\ Last(seen[c]).last
    BY DEF StreamIsOneRun
  <2>1. OneRun(seen[c]) /\ seen[c] \in Seq(Frames)
    BY <1>1 DEF StreamInv, StreamType, StreamOk
  <2>2. Len(seen[c]) \in Nat
    BY <2>1, LenProperties
  <2>3. PICK n \in Runs \cup {NoRun} : \A i \in 1..Len(seen[c]) :
            seen[c][i] = FrameOf(i, n) \/ (i = Len(seen[c]) /\ seen[c][i] = ErrorFrame(i))
    BY <2>1 DEF OneRun
  <2>4. ASSUME NEW i \in 1..Len(seen[c])
        PROVE  /\ seen[c][i].id = i
               /\ \A j \in 2..i : seen[c][i].run \in {seen[c][j].run, NoRun}
    <3>1. ASSUME NEW k \in 1..Len(seen[c]), seen[c][k] = FrameOf(k, n)
          PROVE  seen[c][k].id = k /\ (k > 1 => seen[c][k].run = n)
      BY <2>2, <3>1, FrameOfType
    <3>2. CASE seen[c][i] = FrameOf(i, n)
      <4>1. ASSUME NEW j \in 2..i PROVE seen[c][i].run \in {seen[c][j].run, NoRun}
        <5>1. CASE j = i
          BY <5>1
        <5>2. CASE j # i
          <6>1. j \in 1..Len(seen[c]) /\ j # Len(seen[c]) /\ j > 1 /\ i > 1
            BY <2>2, <5>2
          <6>2. seen[c][j].run = n /\ seen[c][i].run = n
            BY <2>3, <3>1, <3>2, <6>1
          <6> QED
            BY <6>2
        <5> QED
          BY <5>1, <5>2
      <4> QED
        BY <3>1, <3>2, <4>1
    <3>3. CASE seen[c][i] = ErrorFrame(i)
      BY <3>3 DEF ErrorFrame
    <3> QED
      BY <2>3, <3>2, <3>3
  <2>5. c \in linked /\ conn[c] = Off => seen[c] # << >> /\ Last(seen[c]).last
    BY <1>1 DEF StreamInv, StreamOk, Follows
  <2> QED
    BY <2>4, <2>5
<1> QED
  BY <1>1, ViewInvHolds, PTL DEF ViewInv

(* The frames kept per review are enough to resume from, also when several  *)
(* experts' streams and several runs are mixed in them.                     *)
THEOREM GaplessViewHolds == StreamSpec => []GaplessView
<1>1. GapInv => GaplessView
  BY DEF GapInv, Backed, Gapless, GaplessView
<1> QED
  BY <1>1, ViewInvHolds, PTL DEF ViewInv
=============================================================================
