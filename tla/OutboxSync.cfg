SPECIFICATION FairSpec
CONSTANTS
    p = p  l = l  s = s  c = c  pl = pl  c1 = c1  c2 = c2
    r1 = r1  w1 = w1  w2 = w2
    NoAggregate = NoAggregate  NoView = NoView
    Aggregates = {s, c}
    Elements = {s, c1, c2}
    Statements <- MCStatements
    Needs <- MCNeeds
    RowNeeds <- MCRowNeeds
    Rebuilt = {s}
    Changing = {s}
    Piecewise = {c}
    Requests = {r1}
    Batches = {w1, w2}
    BatchSize = 2
    MaxEvents = 3
    MaxVersion = 2
INVARIANTS ProcessedIsShown
PROPERTIES KeepsPromise EventsAreDelivered
