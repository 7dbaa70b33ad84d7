SPECIFICATION Spec
CONSTANTS
    m1 = m1
    m2 = m2
    m3 = m3
    b1 = b1
    b2 = b2
    Messages = {m1, m2, m3}
    Batches = {b1, b2}
    BatchOf <- PairBatch
    InitialBatches = {b1}
    WebhookEvidence = {"FAILED"}
    MaxAttempts = 2
    DispatchAttempts = 1
    MaxFaults = 1
    MaxRecoveries = 1
CONSTRAINT ResendRests
SYMMETRY PairSymmetry
INVARIANTS
    BatchAgreesWithMessages
PROPERTIES
    StaleExhaustionFenced
    ResendOnlyOfUnsent
CHECK_DEADLOCK FALSE
