SPECIFICATION MCSpec
CONSTANTS
    l1 = l1  s1 = s1  b1 = b1  b2 = b2  e1 = e1  e2 = e2
    v1 = v1  v2 = v2  r1 = r1  r2 = r2  r3 = r3
    Lots = {l1}
    Suppliers = {s1}
    Bids = {b1}
    BidLot <- MCBidLot
    BidSupplier <- MCBidSupplier
    Experts = {e1}
    Assigned <- MCAssigned
    Reviews = {v1}
    Requests = {r1, r2, r3}
    Scores = {1}
    Suggestions = {2}
    NoScore = NoScore
    MaxRuns = 1
    d1 = d1  d2 = d2
    Colleagues = {e1, e2}
    Frozen = {b1}
    Fields = {d1, d2}
    Ids = {v1, v2}
    Tabs = {t1, t2}
    None = None
SYMMETRY Symmetry
INVARIANTS SuspensionIsUndone EvaluatedIsComplete TasksAreShown
PROPERTIES LockedStays
