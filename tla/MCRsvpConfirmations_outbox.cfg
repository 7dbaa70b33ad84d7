SPECIFICATION FairSpec
CONSTANTS
    MaxAnswers = 2
    MaxAttempts = 2
    MaxFaults = 2
INVARIANTS
    StateOK
    ConfirmedOnce
    OvertakenOnlyIfUncertain
PROPERTIES
    WaitingConfirmationSettles
CHECK_DEADLOCK FALSE
