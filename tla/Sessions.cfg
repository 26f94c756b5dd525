SPECIFICATION MCSpec
CONSTANTS
    x1 = x1  x2 = x2  x3 = x3  y1 = y1  y2 = y2  z1 = z1  z2 = z2
    Requests = {x1, x2}
    MaxTokens = 4
    MaxOutages = 1
    c1 = c1  c2 = c2  n1 = n1  n2 = n2
    Companies = {c1, c2}
    Names = {n1, n2}
    Lots = {y1, y2}
    Managed = {y1, y2}
    Changes = {z1, z2}
    Rows = {x1, x2, x3, n1}
    PageSize = 2
    LastTime = 4
SYMMETRY Symmetry
INVARIANTS
    ReuseIsStopped
    PortalIsRight
    NobodyPassedOver
    PagesMissNothing
\* No token is left to issue, and every one has expired.
CHECK_DEADLOCK FALSE
