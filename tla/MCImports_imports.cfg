SPECIFICATION ImportSpec
CONSTANTS
    i1 = i1
    i2 = i2
    p1 = p1
    Imports = {i1, i2}
    Phones = {p1}
    Workers = {w1, w2}
    FileOf <- MCFileOf
    Unreadable = Unreadable
    Blank = Blank
    MaxRevision <- MCMaxRevision
    MaxByHand = 1
    MaxFaults = 1
INVARIANTS ImportsOK ImportsSeeEachOther
PROPERTIES HostSawWhatIsImported
CONSTRAINTS PreparedOneAtATime OneDisturbance
SYMMETRY WorkerSymmetry
CHECK_DEADLOCK FALSE
