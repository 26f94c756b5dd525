SPECIFICATION Spec
CONSTANTS
    e1 = e1  e2 = e2  s1 = s1  l1 = l1  r1 = r1  r2 = r2  i1 = i1
    Experts = {e1, e2}
    Suppliers = {s1}
    Importers = {i1}
    Listed <- MCListed
    Mapped <- MCAllTies
    Registered = {s1}
    Lots = {l1}
    Requests = {r1, r2}
    Colleagues <- MCColleagues
    Suitable <- MCAll
    Local <- MCAll
    ExpertCount = 1
    Bidding = {l1}
    Wavering = {e1}
SYMMETRY Symmetry
PROPERTIES DeclaredKeepsOut
