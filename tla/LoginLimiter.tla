---------------------------- MODULE LoginLimiter ----------------------------
(***************************************************************************)
(* The attempts to log in that come from one address: they are counted in  *)
(* Redis, too many within a window start a cooldown, and a success takes   *)
(* the count back.  Where Redis fails, an attempt passes.  Keys live for   *)
(* so many ticks; requests may take any number of ticks.                   *)
(***************************************************************************)
EXTENDS Integers, Functions, FiniteSetsExt

CONSTANTS
    Attempts,       \* requests in flight together
    Limit,          \* login_rate_limit
    WindowTicks,    \* login_rate_window_seconds
    CooldownTicks,  \* login_cooldown_seconds
    MaxFailures     \* bound: times Redis stops answering

ASSUME LimiterAssumption ==
    /\ Limit \in Nat
    /\ WindowTicks \in Nat \ {0} /\ CooldownTicks \in Nat \ {0}
    /\ MaxFailures \in Nat

VARIABLES
    count,          \* auth:ip:{ip}:req; more than Limit is all alike
    windowLeft,     \* how long it lives
    cooldownLeft,   \* how long auth:ip:{ip}:cooldown lives, 0 without it
    step,           \* per attempt: "idle", "record", "cool", "verify", "clear"
    answers,        \* whether Redis does
    failures,       \* how often it stopped
    passed          \* history: attempts that got to the password, by their age in
                    \* ticks, since the count was last taken back or lost

limiterVars == <<count, windowLeft, cooldownLeft, step, answers, failures, passed>>

Ages == 0..WindowTicks - 1
NonePassed == [age \in Ages |-> 0]

LimiterInit ==
    /\ count = 0 /\ windowLeft = 0 /\ cooldownLeft = 0
    /\ step = [a \in Attempts |-> "idle"]
    /\ answers = TRUE /\ failures = 0
    /\ passed = NonePassed

StepsTo(a, s) == step' = [step EXCEPT ![a] = s]

-----------------------------------------------------------------------------
(* Mutant: the cooldown is only looked at after the attempt was counted.   *)
CheckLater(a) ==
    /\ step[a] = "idle"
    /\ StepsTo(a, "record")
    /\ UNCHANGED <<count, windowLeft, cooldownLeft, answers, failures, passed>>

(* _check_login_limited: during a cooldown nothing is counted.             *)
CheckLimit(a) ==
    /\ step[a] = "idle"
    /\ answers => cooldownLeft = 0
    /\ StepsTo(a, "record")
    /\ UNCHANGED <<count, windowLeft, cooldownLeft, answers, failures, passed>>

(* Mutant: the count lives from the first attempt on.                      *)
RenewedOnce == IF count = 0 THEN WindowTicks ELSE windowLeft

(* Every attempt gives the count its whole life again.                     *)
Renewed == WindowTicks

(* _record_login_attempt: the count, ...                                   *)
Record(a) ==
    /\ step[a] = "record"
    /\ IF answers
       THEN /\ count' = Min({count + 1, Limit + 1})
            /\ windowLeft' = Renewed
            /\ StepsTo(a, IF count + 1 > Limit THEN "cool" ELSE "verify")
            /\ passed' = IF count + 1 > Limit THEN passed ELSE [passed EXCEPT ![0] = @ + 1]
       ELSE /\ StepsTo(a, "verify")
            /\ UNCHANGED <<count, windowLeft, passed>>
    /\ UNCHANGED <<cooldownLeft, answers, failures>>

(* ... and the cooldown.  Where Redis fails between the two, the attempt   *)
(* passes, too.                                                            *)
Cool(a) ==
    /\ step[a] = "cool"
    /\ IF answers
       THEN /\ cooldownLeft' = CooldownTicks
            /\ StepsTo(a, "idle")
       ELSE /\ StepsTo(a, "verify")
            /\ UNCHANGED cooldownLeft
    /\ UNCHANGED <<count, windowLeft, answers, failures, passed>>

(* authenticate: whatever is wrong, the answer is the same.                *)
Verify(a) ==
    /\ step[a] = "verify"
    /\ \/ StepsTo(a, "clear")
       \/ StepsTo(a, "idle")
    /\ UNCHANGED <<count, windowLeft, cooldownLeft, answers, failures, passed>>

(* _clear_login_attempts: what others were counted for is gone as well.    *)
ClearAttempts(a) ==
    /\ step[a] = "clear"
    /\ StepsTo(a, "idle")
    /\ IF answers
       THEN /\ count' = 0 /\ windowLeft' = 0
            /\ passed' = NonePassed
       ELSE UNCHANGED <<count, windowLeft, passed>>
    /\ UNCHANGED <<cooldownLeft, answers, failures>>

-----------------------------------------------------------------------------
Less(n) == Max({n - 1, 0})

Tick ==
    /\ windowLeft > 0 \/ cooldownLeft > 0 \/ passed # NonePassed
    /\ windowLeft' = Less(windowLeft)
    /\ count' = IF windowLeft' = 0 THEN 0 ELSE count
    /\ cooldownLeft' = Less(cooldownLeft)
    /\ passed' = [age \in Ages |-> IF age = 0 THEN 0 ELSE passed[age - 1]]
    /\ UNCHANGED <<step, answers, failures>>

CounterStops ==
    /\ answers /\ failures < MaxFailures
    /\ answers' = FALSE
    /\ failures' = failures + 1
    /\ UNCHANGED <<count, windowLeft, cooldownLeft, step, passed>>

(* With its keys or without them.                                          *)
CounterReturns ==
    /\ ~answers
    /\ answers' = TRUE
    /\ \/ UNCHANGED <<count, windowLeft, cooldownLeft, passed>>
       \/ /\ count' = 0 /\ windowLeft' = 0 /\ cooldownLeft' = 0
          /\ passed' = NonePassed
    /\ UNCHANGED <<step, failures>>

LimiterNext ==
    \/ \E a \in Attempts : CheckLimit(a) \/ Record(a) \/ Cool(a) \/ Verify(a) \/ ClearAttempts(a)
    \/ Tick \/ CounterStops \/ CounterReturns

(* Time goes on.                                                           *)
Fairness == WF_limiterVars(Tick)

LimiterSpec == LimiterInit /\ [][LimiterNext]_limiterVars /\ Fairness

-----------------------------------------------------------------------------
(* However attempts overlap, no more than Limit of them get to have their  *)
(* password looked at within a window, unless one of them was right or     *)
(* Redis failed.                                                           *)
FewAttempts == SumFunction(passed) <= Limit

(* A cooldown ends, however many attempts are made during it.              *)
CooldownEnds == cooldownLeft > 0 ~> cooldownLeft = 0
=============================================================================
