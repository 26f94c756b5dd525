----------------------------- MODULE MCRegistry -----------------------------
(* Who is registered and who gets in, for TLC: the experts' accounts       *)
(* (Accounts), the limiter of their logins (LoginLimiter), and the imports *)
(* of companies and of their ties to experts (Conflicts).  The three share *)
(* nothing, so a behaviour is of one of them and leaves the others where   *)
(* they begin.                                                             *)
EXTENDS Conflicts, Accounts, LoginLimiter

CONSTANTS
    q1, q2, q3, p1, p2,
    e1, s1, s2, i1, i2

VARIABLE part       \* which of the three

MCFiles == {<<p1>>, <<p2, p1>>, <<p1, p1>>}
MCListed == Experts \X Suppliers
MCMapped == Experts \X {s1}

MCInit ==
    /\ part \in {"accounts", "limiter", "imports"}
    /\ AccountsInit
    /\ LimiterInit
    /\ ConflictsInit

MCNext ==
    \/ part = "accounts" /\ AccountsNext /\ UNCHANGED <<part, limiterVars, conflictVars>>
    \/ part = "limiter" /\ LimiterNext /\ UNCHANGED <<part, accountVars, conflictVars>>
    \/ part = "imports" /\ ConflictsNext /\ UNCHANGED <<part, accountVars, limiterVars>>

(* Time goes on, and an import goes on until it ends or dies.              *)
MCSpec ==
    /\ MCInit /\ [][MCNext]_<<part, accountVars, limiterVars, conflictVars>>
    /\ WF_<<part, accountVars, limiterVars, conflictVars>>(
           part = "limiter" /\ Tick /\ UNCHANGED <<part, accountVars, conflictVars>>)
    /\ \A i \in Importers : WF_<<part, accountVars, limiterVars, conflictVars>>(
           part = "imports" /\ ImportStep(i) /\ UNCHANGED <<part, accountVars, limiterVars>>)
=============================================================================
