------------------------------ MODULE Accounts ------------------------------
(***************************************************************************)
(* The accounts of the experts: how imports and the administrator make     *)
(* them, the two pages that enable and disable them, and the change of the *)
(* initial password.                                                       *)
(*                                                                         *)
(* A request reads the database once, in the snapshot of its transaction,  *)
(* and commits later.  What it commits are the columns it changed with     *)
(* respect to what it read: a value that was already there is not written, *)
(* whatever stands there meanwhile.                                        *)
(*                                                                         *)
(* Usernames are numbered, as the import numbers them.  An expert and the  *)
(* account an import made for it are one row here.                         *)
(***************************************************************************)
EXTENDS Integers, SequencesExt

CONSTANTS
    Calls,          \* requests in flight together
    Persons,        \* as the id numbers tell them apart
    Nobody,         \* for an account that no import made
    Files,          \* sequences of persons, who may be listed twice
    LastName        \* bound: usernames

ASSUME AccountsAssumption ==
    /\ Files \subseteq Seq(Persons)
    /\ Nobody \notin Persons /\ LastName \in Nat

Names == 1..LastName
NoRow == [free |-> TRUE]

Statuses == {"ACTIVE", "INACTIVE", "BLACKLISTED"}

VARIABLES
    rows,       \* per username: the account, and the expert it was made for,
                \* as in NewAccount below; NoRow where there is none
    call,       \* requests in flight
    slipped,    \* history: accounts left by a request that wrote half of what it meant
    twins       \* history: pairs of accounts that one file made for one person

accountVars == <<rows, call, slipped, twins>>

NoCall == [op |-> "idle"]

Taken == {n \in Names : rows[n] # NoRow}
Known == {rows[n].person : n \in Taken}

AccountsInit ==
    /\ rows = [n \in Names |-> NoRow]
    /\ call = [q \in Calls |-> NoCall]
    /\ slipped = {}
    /\ twins = {}

-----------------------------------------------------------------------------
(* The checks every request begins with: a disabled account is refused at  *)
(* once, one that must change its password only gets to change it.         *)
Enabled(n) == n \in Taken /\ rows[n].is_active
Admitted(n) == Enabled(n) /\ ~rows[n].must_change

Begin(q, r) ==
    /\ call[q] = NoCall
    /\ call' = [call EXCEPT ![q] = r]
    /\ UNCHANGED <<rows, slipped, twins>>

(* History: a change of status that this one overtakes.                    *)
Finish(q, names) ==
    call' = [p \in Calls |->
               IF p = q THEN NoCall
               ELSE IF call[p].op = "status" /\ call[p].name \in names
               THEN [call[p] EXCEPT !.overtaken = TRUE]
               ELSE call[p]]

-----------------------------------------------------------------------------
(* POST /experts/import *)

NewAccount(p, password) ==
    [person |-> p, status |-> "ACTIVE", is_active |-> TRUE,
     password |-> password, must_change |-> TRUE]

(* The rows of the file about a person who is not known: each of them      *)
(* makes an expert, also one of a person whom a row before has listed.     *)
Newcomers(file) == {i \in DOMAIN file : file[i] \notin Known}

Unused == Names \ Taken

Rank(S, x) == Cardinality({y \in S : y <= x})

(* _next_username: the unused numbers in order, for the rows in theirs.    *)
Made(file) ==
    LET rowsOf == Newcomers(file)
    IN  [n \in {k \in Unused : Rank(Unused, k) <= Cardinality(rowsOf)} |->
            file[CHOOSE i \in rowsOf : Rank(rowsOf, i) = Rank(Unused, n)]]

(* Who is known is asked once.  A file with an error imports nothing.      *)
ImportBegin(q, file) ==
    /\ Newcomers(file) # {}
    /\ Cardinality(Newcomers(file)) <= Cardinality(Unused)
    /\ Begin(q, [op |-> "import", made |-> Made(file)])

(* A username that was taken meanwhile fails the whole transaction.        *)
ImportCommit(q) ==
    /\ call[q].op = "import"
    /\ LET made == call[q].made
       IN  IF DOMAIN made \cap Taken # {} THEN UNCHANGED <<rows, twins>>
           ELSE /\ rows' = [n \in Names |-> IF n \in DOMAIN made
                                            THEN NewAccount(made[n], "initial") ELSE rows[n]]
                /\ twins' = twins \cup {x \in (DOMAIN made) \X (DOMAIN made) :
                                            x[1] # x[2] /\ made[x[1]] = made[x[2]]}
    /\ Finish(q, {})
    /\ UNCHANGED slipped

-----------------------------------------------------------------------------
(* POST /users *)

CreateBegin(q, n) ==
    /\ n \notin Taken
    /\ Begin(q, [op |-> "create", name |-> n])

CreateCommit(q) ==
    /\ call[q].op = "create"
    /\ rows' = IF call[q].name \in Taken THEN rows
               ELSE [rows EXCEPT ![call[q].name] = NewAccount(Nobody, "strong")]
    /\ Finish(q, {})
    /\ UNCHANGED <<slipped, twins>>

-----------------------------------------------------------------------------
(* PUT /experts/{id}/status, and DELETE, which sets INACTIVE *)

StatusBegin(q, n, to) ==
    /\ n \in Taken /\ rows[n].person # Nobody
    /\ Begin(q, [op |-> "status", name |-> n, to |-> to, overtaken |-> FALSE,
                 status |-> rows[n].status, is_active |-> rows[n].is_active])

(* Mutant: only a blacklisting disables the account.                       *)
ActiveInUnlessBlacklisted(status) == status # "BLACKLISTED"

ActiveIn(status) == status = "ACTIVE"

StatusCommit(q) ==
    /\ call[q].op = "status"
    /\ LET r == call[q]
           n == r.name
           statusChanges == r.status # r.to
           activeChanges == r.is_active # ActiveIn(r.to)
       IN  /\ rows' = [rows EXCEPT
                 ![n].status = IF statusChanges THEN r.to ELSE @,
                 ![n].is_active = IF activeChanges THEN ActiveIn(r.to) ELSE @]
           /\ slipped' = IF r.overtaken /\ ~(statusChanges /\ activeChanges)
                         THEN slipped \cup {n} ELSE slipped \ {n}
           /\ Finish(q, {n})
    /\ UNCHANGED twins

-----------------------------------------------------------------------------
(* PUT /users/{id}/status: the administrator's own choice, whatever the    *)
(* status of the expert.                                                   *)
UserBegin(q, n, active) ==
    /\ n \in Taken
    /\ Begin(q, [op |-> "user", name |-> n, to |-> active,
                 is_active |-> rows[n].is_active])

UserCommit(q) ==
    /\ call[q].op = "user"
    /\ LET r == call[q] IN
       /\ rows' = IF r.is_active # r.to THEN [rows EXCEPT ![r.name].is_active = r.to] ELSE rows
       /\ slipped' = IF r.is_active # r.to /\ r.to THEN slipped \cup {r.name} ELSE slipped
       /\ Finish(q, {r.name})
    /\ UNCHANGED twins

-----------------------------------------------------------------------------
(* POST /auth/change-password: by who is enabled and knows the password.   *)
(* The new one may be the old one, but must be strong.                     *)

(* Mutant: the strength is not asked for.                                  *)
AnyPassword == {"initial", "strong"}

Strong == {"strong"}

PasswordBegin(q, n, new) ==
    /\ Enabled(n)
    /\ new \in Strong
    /\ Begin(q, [op |-> "password", name |-> n, new |-> new])

PasswordCommit(q) ==
    /\ call[q].op = "password"
    /\ LET r == call[q] IN
       /\ rows' = [rows EXCEPT ![r.name].password = r.new, ![r.name].must_change = FALSE]
       /\ Finish(q, {r.name})
    /\ UNCHANGED <<slipped, twins>>

-----------------------------------------------------------------------------
AccountsNext ==
    \E q \in Calls :
        \/ \E file \in Files : ImportBegin(q, file)
        \/ \E n \in Names : CreateBegin(q, n)
        \/ \E n \in Names, to \in Statuses : StatusBegin(q, n, to)
        \/ \E n \in Names, active \in BOOLEAN : UserBegin(q, n, active)
        \/ \E n \in Names, new \in AnyPassword : PasswordBegin(q, n, new)
        \/ ImportCommit(q) \/ CreateCommit(q)
        \/ StatusCommit(q) \/ UserCommit(q) \/ PasswordCommit(q)

AccountsSpec == AccountsInit /\ [][AccountsNext]_accountVars

-----------------------------------------------------------------------------
(* Nobody becomes an expert twice but by being listed twice in one file:   *)
(* an import only asks once, before the first row, who is known.  It is    *)
(* enough for overlapping imports, which choose the same usernames, so     *)
(* that of these every one but the first fails; it is not for the rows of  *)
(* one file, which get usernames of their own.                             *)
OnePersonOnce ==
    \A m, n \in Taken :
        rows[m].person = rows[n].person /\ rows[m].person # Nobody /\ m # n =>
            <<m, n>> \in twins

(* An expert who is not ACTIVE is not admitted, unless the administrator   *)
(* has enabled the account on the page of users, or one of two overlapping *)
(* requests found a column as it wanted it and left it to the other.       *)
LockedOut ==
    \A n \in Taken : rows[n].status # "ACTIVE" /\ Admitted(n) => n \in slipped

(* Nobody is admitted with the password every import gives.                *)
InitialPasswordGone ==
    \A n \in Taken : Admitted(n) => rows[n].password # "initial"

(* Who gets in has a password of their own and is let in by someone.       *)
WhoGetsIn == LockedOut /\ InitialPasswordGone

(* A person has one account, unless one file asked for two, and gets in    *)
(* with it when it is meant to.                                            *)
AccountsHold == OnePersonOnce /\ WhoGetsIn
=============================================================================
