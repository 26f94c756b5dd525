SPECIFICATION MCSpec
CONSTANTS
    q1 = q1  q2 = q2  q3 = q3  p1 = p1  p2 = p2  Nobody = Nobody
    Calls = {q1, q2}
    Persons = {p1, p2}
    Files <- MCFiles
    LastName = 2
    Attempts = {q1, q2, q3}
    Limit = 2
    WindowTicks = 2
    CooldownTicks = 3
    MaxFailures = 1
    e1 = e1  s1 = s1  s2 = s2  i1 = i1  i2 = i2
    Experts = {e1}
    Suppliers = {s1, s2}
    Importers = {i1, i2}
    Listed <- MCListed
    Mapped <- MCMapped
    Registered = {}
INVARIANTS AccountsHold FewAttempts ColdDataKept
PROPERTIES CooldownEnds ColdDataWakes
