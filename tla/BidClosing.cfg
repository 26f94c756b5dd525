SPECIFICATION Spec
CONSTANTS
    l1 = l1  s1 = s1  s2 = s2  b1 = b1  b2 = b2
    r1 = r1  r2 = r2  j1 = j1  j2 = j2
    NoLot = NoLot  NoBid = NoBid
    Lots = {l1}
    Suppliers = {s1, s2}
    Bids = {b1, b2}
    BidLot <- MCBidLot
    BidSupplier <- MCBidSupplier
    Requests = {r1, r2}
    Jobs = {j1}
    MinValidBids = 2
    LastStep = 1
    MaxRetries = 1
    MaxTries = 1
    StatusChanges <- NoChange
SYMMETRY Symmetry
CHECK_DEADLOCK FALSE
INVARIANTS FrozenOnlyUnderReview
PROPERTIES DecidedOnce
