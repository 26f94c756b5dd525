SPECIFICATION ObservedFairSpec
CONSTANTS
    c1 = c1  c2 = c2
    Callers = {c1, c2}
    Gated = {c1}
    Streaming = {c1, c2}
    Threshold = 3
    OpenFor = 2
    Backoffs = 2
    Later <- MCLater
INVARIANTS TraceIsHonest
PROPERTIES BreakerHolds EveryCallEnds Heals
