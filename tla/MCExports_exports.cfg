SPECIFICATION ExportSpec
CONSTANTS
    j1 = j1
    j2 = j2
    Jobs = {j1, j2}
    PresetOf <- MCPresetOf
    Guests = {1, 2}
    PageSize = 1
    Workers = {w1, w2}
    Attempts = 2
    None = None
    MaxChanges = 2
    MaxFaults = 1
INVARIANTS ListsEachGuestOnce RequesterHearsTheOutcome ExportsOK
SYMMETRY WorkerSymmetry
CHECK_DEADLOCK FALSE
