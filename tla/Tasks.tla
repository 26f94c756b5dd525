-------------------------------- MODULE Tasks --------------------------------
(***************************************************************************)
(* The way of an expert to a review: the list of tasks shows a cell for    *)
(* every sealed bid and every dimension the expert is assigned, with the   *)
(* review that was begun in it; the workbench opened from a cell goes on   *)
(* with that review or creates one; and the lot is only evaluated when no  *)
(* review of it is unfinished.  Meanwhile the matching rewrites who is     *)
(* assigned what.                                                          *)
(*                                                                         *)
(* One lot.  What requests in flight do to one review is ReviewFlow's, the *)
(* choice of the matching is Declarations' and LotSetup's: here it may be  *)
(* any.                                                                    *)
(***************************************************************************)
EXTENDS Integers

CONSTANTS
    Experts,
    Bids,
    Dimensions,
    Reviews,    \* review ids that may be created
    Tabs,       \* workbenches open at once
    None        \* no review

VARIABLES
    lot,        \* lot.status
    bid,        \* bid_document.status
    dims,       \* dimension_ids of the expert's assignment, None without one
    review,     \* rows of expert_review
    tab,        \* workbenches, with what the list said when they were opened
    taken,      \* history: pairs <<expert, dimension>> the matching took away
    doubled     \* history: cells in which a workbench that could not know of a
                \* review has created another

vars == <<lot, bid, dims, review, tab, taken, doubled>>

Closed == [open |-> FALSE]

Rows == [expert : Experts, bid : Bids, dimension : Dimensions, status : {"DRAFT", "CONFIRMED"}]

(* That there is no review, or no assignment, can be told. *)
TasksAssumption ==
    None \notin Reviews /\ None \notin Rows /\ \A ds \in SUBSET Dimensions : ds # None

Init ==
    /\ lot = "UNDER_REVIEW"
    /\ bid = [b \in Bids |-> "FROZEN"]
    /\ dims = [e \in Experts |-> None]
    /\ review = [v \in Reviews |-> None]
    /\ tab = [t \in Tabs |-> Closed]
    /\ taken = {} /\ doubled = {}

-----------------------------------------------------------------------------
HasAssignment(e) == dims[e] # None
Exists(v) == review[v] # None
Locked(v) == review[v].status = "CONFIRMED"

(* What a lot waits for. *)
Unfinished == {v \in Reviews : Exists(v) /\ bid[review[v].bid] = "FROZEN" /\ ~Locked(v)}

-----------------------------------------------------------------------------
(* The matching *)

Takes(e, ds) == IF HasAssignment(e) THEN {<<e, d>> : d \in dims[e] \ ds} ELSE {}

TakenBy(chosen, to) == UNION {Takes(e, to[e]) : e \in chosen}
StillTaken(chosen, to) == {p \in taken : p[1] \in chosen => p[2] \notin to[p[1]]}

(* For those that are chosen; assignments of others stay as they are.      *)
Match(chosen, to) ==
    /\ dims' = [e \in Experts |-> IF e \in chosen THEN to[e] ELSE dims[e]]
    /\ taken' = TakenBy(chosen, to) \cup StillTaken(chosen, to)
    /\ UNCHANGED <<lot, bid, review, tab, doubled>>

(* _supplement: for an expert who declares a conflict, and keeps the row.  *)
Supplement(e, f) ==
    /\ HasAssignment(e) /\ ~HasAssignment(f)
    /\ dims' = [dims EXCEPT ![f] = dims[e]]
    /\ UNCHANGED <<lot, bid, review, tab, taken, doubled>>

-----------------------------------------------------------------------------
(* The list of tasks *)

CellsOf(e) ==
    IF HasAssignment(e) THEN {b \in Bids : bid[b] = "FROZEN"} \X dims[e] ELSE {}

In(e, c) == {v \in Reviews : Exists(v) /\ <<review[v].expert, review[v].bid, review[v].dimension>> = <<e, c[1], c[2]>>}

(* Mutant: the query for the reviews asks for those to be continued.       *)
ShownDrafts(e, c) ==
    LET found == {v \in In(e, c) : ~Locked(v)} IN IF found = {} THEN {None} ELSE found

(* review_map keeps the last of a cell, in the order the rows come in.     *)
Shown(e, c) == IF In(e, c) = {} THEN {None} ELSE In(e, c)

(* A cell that is done leads nowhere.  Until the workbench has created a   *)
(* review this stands for the list that is looked at, too.                 *)
Open(t, e, c) ==
    /\ tab[t] = Closed
    /\ c \in CellsOf(e)
    /\ \E v \in Shown(e, c) :
        /\ v # None => ~Locked(v)
        /\ tab' = [tab EXCEPT ![t] =
               [open |-> TRUE, expert |-> e, cell |-> c, address |-> v, review |-> v, knew |-> In(e, c)]]
    /\ UNCHANGED <<lot, bid, dims, review, taken, doubled>>

Leave(t) ==
    /\ tab[t].open
    /\ tab' = [tab EXCEPT ![t] = Closed]
    /\ UNCHANGED <<lot, bid, dims, review, taken, doubled>>

(* The page loaded again starts from its address, which names the review   *)
(* the list knew of and not one created since.                             *)
Reload(t) ==
    /\ tab[t].open
    /\ tab[t].review # tab[t].address
    /\ tab' = [tab EXCEPT ![t].review = tab[t].address]
    /\ UNCHANGED <<lot, bid, dims, review, taken, doubled>>

-----------------------------------------------------------------------------
(* Reviews *)

(* No dimensions in the assignment are all of them. *)
MayCreate(e, c) ==
    /\ bid[c[1]] = "FROZEN"
    /\ HasAssignment(e) /\ (dims[e] = {} \/ c[2] \in dims[e])

(* History: of a review that came after the list, the list told nothing.   *)
Create(t, v) ==
    /\ tab[t].open /\ tab[t].review = None
    /\ ~Exists(v)
    /\ LET e == tab[t].expert
           c == tab[t].cell
       IN  /\ MayCreate(e, c)
           /\ review' = [review EXCEPT ![v] =
                  [expert |-> e, bid |-> c[1], dimension |-> c[2], status |-> "DRAFT"]]
           /\ doubled' = IF In(e, c) \subseteq tab[t].knew THEN doubled
                         ELSE doubled \cup {<<e, c>>}
    /\ tab' = [tab EXCEPT ![t].review = v]
    /\ UNCHANGED <<lot, bid, dims, taken>>

(* The workbench saves, which a submitted review refuses, and submits.     *)
Submit(t) ==
    /\ tab[t].open /\ tab[t].review # None
    /\ ~Locked(tab[t].review)
    /\ review' = [review EXCEPT ![tab[t].review].status = "CONFIRMED"]
    /\ UNCHANGED <<lot, bid, dims, tab, taken, doubled>>

Disqualify(b) ==
    /\ bid[b] = "FROZEN"
    /\ bid' = [bid EXCEPT ![b] = "DISQUALIFIED"]
    /\ UNCHANGED <<lot, dims, review, tab, taken, doubled>>

Complete ==
    /\ lot = "UNDER_REVIEW"
    /\ Unfinished = {}
    /\ lot' = "EVALUATED"
    /\ UNCHANGED <<bid, dims, review, tab, taken, doubled>>

-----------------------------------------------------------------------------
Next ==
    \/ \E chosen \in SUBSET Experts \ {{}} : \E to \in [chosen -> SUBSET Dimensions] : Match(chosen, to)
    \/ \E e, f \in Experts : Supplement(e, f)
    \/ \E t \in Tabs :
        \/ \E e \in Experts, c \in Bids \X Dimensions : Open(t, e, c)
        \/ \E v \in Reviews : Create(t, v)
        \/ Leave(t) \/ Reload(t) \/ Submit(t)
    \/ \E b \in Bids : Disqualify(b)
    \/ Complete

Spec == Init /\ [][Next]_vars

-----------------------------------------------------------------------------
(* An expert has one review of a bid and a dimension, unless a workbench   *)
(* was opened before the first was there, or loaded again after.           *)
OneReviewPerCell ==
    \A e \in Experts, c \in Bids \X Dimensions :
        \A v, w \in In(e, c) : v = w \/ <<e, c>> \in doubled

(* What a lot waits for is in the list of its expert, whoever is matched   *)
(* and supplemented: unless the matching took the dimension away, or the   *)
(* cell shows another review.                                              *)
WaitedForIsShown ==
    \A v \in Unfinished :
        LET e == review[v].expert
            c == <<review[v].bid, review[v].dimension>>
        IN  \/ <<e, c[2]>> \in taken
            \/ <<e, c>> \in doubled
            \/ c \in CellsOf(e) /\ Shown(e, c) = {v}

TasksAreShown == OneReviewPerCell /\ WaitedForIsShown
=============================================================================
