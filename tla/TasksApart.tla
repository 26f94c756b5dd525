----------------------------- MODULE TasksApart -----------------------------
(***************************************************************************)
(* Tasks with names of its own, to stand beside ReviewFlow: its reviews    *)
(* are of several dimensions and their bids stay FROZEN.                   *)
(***************************************************************************)
CONSTANTS
    Colleagues,     \* Experts
    Frozen,         \* Bids
    Fields,         \* Dimensions
    Ids,            \* Reviews
    Tabs, None

VARIABLES taskLot, taskBid, dims, cellReview, tab, taken, doubled

taskVars == <<taskLot, taskBid, dims, cellReview, tab, taken, doubled>>

Work == INSTANCE Tasks WITH
    Experts <- Colleagues, Bids <- Frozen, Reviews <- Ids, Dimensions <- Fields,
    lot <- taskLot, bid <- taskBid, review <- cellReview

ASSUME TasksAssumption == Work!TasksAssumption

(* A review that a lot waits for is in its expert's list of tasks, unless  *)
(* a second matching took the dimension away or a workbench that could not *)
(* know of the review has created a second one.                            *)
TasksAreShown == Work!TasksAreShown
=============================================================================
