------------------------------ MODULE Listings ------------------------------
(***************************************************************************)
(* The lists that are shown page by page, newest first: somebody goes      *)
(* through the pages of one of them while rows come and go.  Every page is *)
(* a query of its own, by OFFSET, in a transaction of its own.             *)
(*                                                                         *)
(* Rows are ordered by a time alone; those of one time come in any order,  *)
(* and in another one in the next query.                                   *)
(***************************************************************************)
EXTENDS Integers, FiniteSets

CONSTANTS
    Rows,
    PageSize,
    LastTime        \* bound: times a row can have

(* Some rows, and pages that have a length.                                *)
ASSUME ListingsAssumption ==
    /\ IsFiniteSet(Rows)
    /\ PageSize \in Nat \ {0}
    /\ LastTime \in Nat

VARIABLES
    list,       \* the list that is read
    time,       \* per row: what the list is ordered by, 0 when it is not in it
    page,       \* the page read last, 0 before the first, Done after the last
    seen,       \* rows the reader has been shown
    steady,     \* history: rows in the list ever since the reader began,
    slid,       \* those of them that were behind a row that left, and
    tied        \* those that stood beside another of their time in a query

listVars == <<list, time, page, seen, steady, slid, tied>>

Done == -1
Present == {r \in Rows : time[r] > 0}
Latest == CHOOSE t \in 0..LastTime :
    (\A r \in Rows : time[r] <= t) /\ (t = 0 \/ \E r \in Rows : time[r] = t)

-----------------------------------------------------------------------------
(* The lists: whether rows leave, and whether they come in anywhere but at *)
(* the top.                                                                *)

(* Of created_at, without a filter that a row could fail later. *)
Projects == [leave |-> FALSE, appear |-> FALSE]
Suppliers == [leave |-> FALSE, appear |-> FALSE]
Experts == [leave |-> FALSE, appear |-> FALSE]
Users == [leave |-> FALSE, appear |-> FALSE]
OwnBids == [leave |-> FALSE, appear |-> FALSE]

(* Those of one status leave with it, and come with it, long since created. *)
LotsByStatus == [leave |-> TRUE, appear |-> TRUE]
LotMarket == [leave |-> TRUE, appear |-> TRUE]

(* They wake up or are read, and then are not listed. *)
PendingConflicts == [leave |-> TRUE, appear |-> FALSE]
UnreadNotices == [leave |-> TRUE, appear |-> FALSE]

(* Of updated_at: a review is new in it when it is submitted or restored,  *)
(* and leaves it when it is suspended.                                     *)
MyReviews == [leave |-> TRUE, appear |-> FALSE]

Lists == {Projects, Suppliers, Experts, Users, OwnBids,
          LotsByStatus, LotMarket, PendingConflicts, UnreadNotices, MyReviews}

-----------------------------------------------------------------------------
ListInit ==
    /\ list \in Lists
    /\ time = [r \in Rows |-> 0]
    /\ page = 0
    /\ seen = {} /\ steady = {} /\ slid = {} /\ tied = {}

(* An import gives all its rows one time, and clocks tick in seconds.      *)
Enter(r) ==
    /\ r \notin Present
    /\ \E t \in {Latest, Latest + 1} : t \in 1..LastTime /\ time' = [time EXCEPT ![r] = t]
    /\ UNCHANGED <<list, page, seen, steady, slid, tied>>

Appear(r) ==
    /\ list.appear
    /\ r \notin Present
    /\ \E t \in 1..LastTime : t <= Latest /\ time' = [time EXCEPT ![r] = t]
    /\ UNCHANGED <<list, page, seen, steady, slid, tied>>

Leave(r) ==
    /\ list.leave
    /\ r \in Present
    /\ time' = [time EXCEPT ![r] = 0]
    /\ steady' = steady \ {r}
    /\ slid' = {s \in steady' : s \in slid \/ time[s] <= time[r]}
    /\ tied' = tied \ {r}
    /\ UNCHANGED <<list, page, seen>>

-----------------------------------------------------------------------------
(* Mutant: pages counted from 0, as most offsets are. *)
OffsetFromZero(n) == n * PageSize

Offset(n) == (n - 1) * PageSize

(* The places in the order that rows of time t share. *)
Newer(t) == Cardinality({r \in Present : time[r] > t})
Places(t) == (Newer(t) + 1)..Newer(t - 1)

(* What the query of page n can return. *)
Window(n) == (Offset(n) + 1)..(Offset(n) + PageSize)
Pages(n) ==
    {rows \in SUBSET Present :
        \A t \in 1..LastTime :
            Cardinality({r \in rows : time[r] = t}) = Cardinality(Places(t) \cap Window(n))}

Beside(r) == \E s \in Present \ {r} : time[s] = time[r]

(* The total comes with the page, from the same snapshot, and says whether *)
(* there is another one.                                                   *)
Turn ==
    /\ page # Done
    /\ LET n == page + 1
       IN  /\ \E rows \in Pages(n) : seen' = seen \cup rows
           /\ page' = IF n * PageSize < Cardinality(Present) THEN n ELSE Done
    /\ steady' = IF page = 0 THEN Present ELSE steady
    /\ tied' = tied \cup {r \in steady' : Beside(r)}
    /\ UNCHANGED <<list, time, slid>>

Leaf == page = Done /\ page' = 0 /\ seen' = {} /\ steady' = {} /\ slid' = {} /\ tied' = {}
        /\ UNCHANGED <<list, time>>

ListNext ==
    \/ \E r \in Rows : Enter(r) \/ Appear(r) \/ Leave(r)
    \/ Turn \/ Leaf

ListSpec == ListInit /\ [][ListNext]_listVars

-----------------------------------------------------------------------------
(* Whoever goes through all the pages is shown every row that was in the   *)
(* list all the time, however many come in: unless a row ahead of it left  *)
(* meanwhile, or another one has the same time.                            *)
PagesMissNothing == page = Done => steady \ (slid \cup tied) \subseteq seen
=============================================================================
