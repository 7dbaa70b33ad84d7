\* Two requests with one key or two, a party of two, two pages.
SPECIFICATION Spec
CONSTANTS
    Calls = {c1, c2}
    Keys = {k1, k2}
    Pages = {p1, p2}
    MaxParty = 2
    MaxTries = 2
    MaxPasses = 2
    MaxChanges = 2
CONSTRAINT PassesApart
SYMMETRY CallSymmetry
INVARIANTS StateOK KeyCountsOnce
PROPERTIES ResultIsTrue
CHECK_DEADLOCK FALSE
