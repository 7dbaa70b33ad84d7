SPECIFICATION PrepareSpec
CONSTANTS
    Assets = {a1}
    Invitations = {i1, i2}
    Requests = {r1, r2}
    Nil = Nil
    MaxVersions = 2
    MaxMessages = 2
    MaxChanges = 2
    MaxFaults = 1
INVARIANTS SnapshotImageStays PreparationOK
PROPERTIES LaunchSendsWhatIsCurrent HostSawWhatIsSent
CONSTRAINT FewDisturbances
SYMMETRY Symmetry
CHECK_DEADLOCK FALSE
