\* One key of each page, two replies, two links, a second and a half.
SPECIFICATION Spec
CONSTANTS
    GuestKeys = {g1}
    HostKeys = {h1}
    Replies = {r1, r2}
    Selections = {0, 2}
    InitialLimit = 2
    MaxLimit = 2
    MaxCapabilities = 2
    Deadline = 1
    MaxTime = 2
    MaxChanges = 2
SYMMETRY ReplySymmetry
INVARIANTS StateOK YoungestAnswerStands
PROPERTIES NoAnswerThroughDeadLink
CHECK_DEADLOCK FALSE
