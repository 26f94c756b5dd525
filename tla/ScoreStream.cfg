SPECIFICATION StreamSpec
CONSTANTS
    c1 = c1  c2 = c2  v1 = v1
    Clients = {c1, c2}
    Flaky = {c1}
    Reviews = {v1}
    ReviewOf <- MCReviewOf
    LastFrame = 3
    MaxLost = 1
    MaxRuns = 2
    MaxChanges = 1
    MaxOutages = 1
INVARIANTS CacheIsRight StreamIsOneRun GaplessView
CHECK_DEADLOCK FALSE
