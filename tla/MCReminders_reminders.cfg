SPECIFICATION Spec
CONSTANTS
    Workers = {w1, w2}
    Requests = {k1}
    RuleCooldown = 2
    HostCooldown = 1
    MaxReminders = 1
    MaxTries = 1
    MaxTime = 1
    MaxMessages = 3
    MaxChanges = 2
    MaxFaults = 1
SYMMETRY WorkerSymmetry
CONSTRAINT FewDisturbances
INVARIANTS
    StateOK
    RemindersSpaced
PROPERTIES
    OnlyWantedRemindersLeave
CHECK_DEADLOCK FALSE
