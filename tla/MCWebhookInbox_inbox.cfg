\* One event, two overlapping executions of its job, three faults.
SPECIFICATION FairSpec
CONSTANTS
    Events = {e1}
    Workers = {w1, w2}
    NoWorker = NoWorker
    MaxAttempts = 2
    MaxFaults = 3
INVARIANTS StateOK
PROPERTIES EventSettles
CHECK_DEADLOCK FALSE
