SPECIFICATION Spec
CONSTANTS
    r1 = r1  r2 = r2  l1 = l1  l2 = l2  e1 = e1  e2 = e2  t1 = t1
    Requests = {r1, r2}
    Lots = {l1, l2}
    Followed = {l1}
    Budget = 3
    Amounts = {2}
    Lists <- MCLists
    Profiles <- MCProfiles
    Experts = {e1, e2}
    Tags = {t1}
    Skill <- MCSkill
    Experience <- MCExperience
    Quality <- MCQuality
    Conflicted = {e1}
SYMMETRY Symmetry
INVARIANTS WithinBudget SetupFits EveryDimensionCovered
\* The budget is spent, on a lot that is not followed.
CHECK_DEADLOCK FALSE
