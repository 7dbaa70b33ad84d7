SPECIFICATION FairSpec
CONSTANTS
    m1 = m1
    m2 = m2
    m3 = m3
    b1 = b1
    b2 = b2
    Messages = {m1}
    Batches = {b1}
    BatchOf <- SingleBatch
    InitialBatches = {b1}
    WebhookEvidence = {"SENT", "DELIVERED", "RESPONDED", "FAILED"}
    MaxAttempts = 2
    DispatchAttempts = 1
    MaxFaults = 2
    MaxRecoveries = 0
INVARIANTS
    NoDuplicateSend
    StatusReflectsEvidence
PROPERTIES
    QueuedMessageGetsJob
    WaitingJobSettles
    ImplementsLogicalSend
CHECK_DEADLOCK FALSE
