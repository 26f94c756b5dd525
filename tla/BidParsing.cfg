SPECIFICATION FairSpec
CONSTANTS
    l1 = l1  s1 = s1  s2 = s2  b1 = b1  b2 = b2
    r1 = r1  r2 = r2  j1 = j1  j2 = j2
    NoLot = NoLot  NoBid = NoBid
    Lots = {l1}
    Suppliers = {s1}
    Bids = {b1}
    BidLot <- MCBidLot
    BidSupplier <- MCOneSupplier
    Requests = {r1}
    Jobs = {j1, j2}
    MinValidBids = 1
    LastStep = 1
    MaxRetries = 0
    MaxTries = 2
    StatusChanges <- AnyChange
INVARIANTS BlacklistHolds
PROPERTIES CheckpointedParseEnds
