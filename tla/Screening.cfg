SPECIFICATION MCSpec
CONSTANTS
    r1 = r1  r2 = r2  l1 = l1  Absent = Absent
    Askers = {r1, r2}
    Tenders = {l1}
    Requests = {r1, r2}
    Lots = {l1}
    Keys <- MCKeys
    Defaults <- MCDefaults
    Allowed <- MCAllowed
    FactSets <- MCFactSets
    Updates <- MCUpdates
    s1 = s1  s2 = s2  b1 = b1  b2 = b2  e1 = e1  e2 = e2
    v1 = v1  v2 = v2  d1 = d1  d2 = d2
    Suppliers = {s1, s2}
    Bids = {b1, b2}
    BidLot <- MCBidLot
    BidSupplier <- MCBidSupplier
    Experts = {e1, e2}
    Assigned <- MCAssigned
    Reviews = {v1, v2}
    Scores = {1}
    Suggestions = {}
    NoScore = NoScore
    MaxRuns = 0
    Dimensions = {d1, d2}
    DimensionOf <- MCDimensionOf
    MaxScore <- MCMaxScore
    Weight <- MCWeight
    Whole = 6
    Amount <- MCAmount
SYMMETRY Symmetry
INVARIANTS CacheFollowsTable HeldWhenDue
PROPERTIES ResultsStand
