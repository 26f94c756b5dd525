------------------------------ MODULE Results ------------------------------
(***************************************************************************)
(* What is shown of the reviews: the summary of a lot with its ranking     *)
(* (closeout_service.get_lot_summary), the result a supplier is told       *)
(* (supplier_service.list_my_results), the progress of a lot and the       *)
(* history of an expert (review_service).  Each is read from the rows of   *)
(* the moment; what is shown twice must fit together.                      *)
(*                                                                         *)
(* Scores are whole numbers, averages are in hundredths and halves are     *)
(* rounded up; the code rounds binary fractions.                           *)
(***************************************************************************)
EXTENDS ReviewFlow, FiniteSets, Functions

CONSTANTS
    Dimensions,
    DimensionOf,    \* the dimension an expert is assigned
    MaxScore,       \* per dimension
    Weight,         \* per dimension, in percent
    Whole,          \* a multiple of every maximum, to reckon in whole numbers
    Amount          \* bid_document.bid_amount, 0 for one that was not found in the text

ASSUME DimensionsAssumption ==
    /\ IsFiniteSet(Reviews) /\ IsFiniteSet(Dimensions)
    /\ DimensionOf \in [Experts -> Dimensions]
    /\ MaxScore \in [Dimensions -> Nat \ {0}]
    /\ Weight \in [Dimensions -> 1..100]
    /\ Whole \in Nat \ {0}
    /\ \A d \in Dimensions : Whole % MaxScore[d] = 0
    /\ Amount \in [Bids -> Nat]

-----------------------------------------------------------------------------
(* The summary *)

(* The summary, the progress and the report take the bids that are FROZEN. *)
Sealed(l) == {b \in Bids : BidLot[b] = l /\ bid[b] = "FROZEN"}

Cell(b, d) == {v \in Reviews : Exists(v) /\ review[v].bid = b /\ DimensionOf[review[v].expert] = d}

Counted(b, d) == {v \in Cell(b, d) : Locked(v) /\ review[v].score # NoScore}

Rounded(n, by) == (2 * n + by) \div (2 * by)

(* A dimension that nobody has scored counts nothing. *)
Average(b, d) ==
    LET given == Counted(b, d)
    IN  IF given = {} THEN 0
        ELSE Rounded(100 * SumFunction([v \in given |-> review[v].score]), Cardinality(given))

(* weighted_total, in hundredths of a point of a hundred. *)
Weighted(b, d) == Average(b, d) * (Weight[d] * (Whole \div MaxScore[d]))

Total(b) == Rounded(SumFunction([d \in Dimensions |-> Weighted(b, d)]), Whole)

(* Mutant: the key of the sort without its sign. *)
AheadAscending(b, c) ==
    \/ Total(b) < Total(c)
    \/ Total(b) = Total(c) /\ Amount[b] < Amount[c]

(* The key of the sort: bids alike in both are in the order of the rows. *)
Ahead(b, c) ==
    \/ Total(b) > Total(c)
    \/ Total(b) = Total(c) /\ Amount[b] < Amount[c]

(* The ranks that the sort may give. *)
Ranks(b) ==
    LET rivals == Sealed(BidLot[b]) \ {b}
        first == 1 + Cardinality({c \in rivals : Ahead(c, b)})
    IN  first..(first + Cardinality({c \in rivals : ~Ahead(c, b) /\ ~Ahead(b, c)}))

(* result_status *)
Told(b) ==
    IF bid[b] = "DISQUALIFIED" THEN {"DISQUALIFIED"}
    ELSE IF lot[BidLot[b]] # "EVALUATED" THEN {"UNDER_REVIEW"}
    ELSE {IF n = 1 THEN "WINNER" ELSE "LOSER" : n \in Ranks(b)}

-----------------------------------------------------------------------------
(* Progress and history *)

(* A cell of the matrix is done when one of its reviews is submitted; it   *)
(* shows that one.                                                         *)
Done(b, d) == \E v \in Cell(b, d) : Locked(v)

History(e) == {v \in Reviews : Exists(v) /\ review[v].expert = e /\ Locked(v)}

-----------------------------------------------------------------------------
(* A bid that is cheaper, and in no dimension scored lower by any reviewer *)
(* than its rival is by any, is ranked before it.                          *)
Better(b, c) ==
    /\ Amount[b] # 0 /\ Amount[b] < Amount[c]
    /\ \A d \in Dimensions :
        /\ Counted(c, d) # {} => Counted(b, d) # {}
        /\ \A v \in Counted(b, d), w \in Counted(c, d) : review[v].score >= review[w].score

BetterIsAhead == \A l \in Lots : \A b, c \in Sealed(l) : Better(b, c) => Ahead(b, c)

(* A supplier who is blacklisted is told of no result but the              *)
(* disqualification: no review in flight, no overlapping change of its     *)
(* status and no award brings its bids back.                               *)
BlacklistedIsOut == \A b \in Bids : blacklisted[BidSupplier[b]] => Told(b) = {"DISQUALIFIED"}

Rewritten(v) == review'[v] # review[v]

(* The order of two bids of an evaluated lot stays as it is, as long as    *)
(* both are in it, but for reviews created too late and for a save or a    *)
(* submission that overwrites a review submitted meanwhile.                *)
OrderStays ==
    [][\A l \in Lots : lot[l] = "EVALUATED" =>
        \A b, c \in Sealed(l) \cap Sealed(l)' :
            Ahead(b, c)' # Ahead(b, c) =>
                \E v \in Reviews : Rewritten(v) /\ (v \in late \/ Locked(v))]_vars

(* What is done of a bid stays done, and in the history of its expert,     *)
(* until the bid is disqualified.                                          *)
ProgressStays ==
    [][\A b \in Bids : bid'[b] = "FROZEN" =>
        /\ \A d \in Dimensions : Done(b, d) => Done(b, d)'
        /\ \A e \in Experts : {v \in History(e) : review[v].bid = b} \subseteq History(e)']_vars

(* The views of the reviews keep what they promise.                        *)
ResultsStand == [](BetterIsAhead /\ BlacklistedIsOut) /\ OrderStays /\ ProgressStays
=============================================================================
