SPECIFICATION Spec
CONSTANTS
    m1 = m1
    m2 = m2
    m3 = m3
    b1 = b1
    b2 = b2
    Messages = {m1, m2, m3}
    Batches = {b1, b2}
    BatchOf <- TwoBatches
    WebhookEvidence = {"SENT", "FAILED"}
    MaxGranted = 3
CONSTRAINT FewAtATime
SYMMETRY PairSymmetry
INVARIANTS
    BalanceCoversReserved
    HoldCoversOwed
    TerminalBatchHoldsNothing
    EntriesFollowFacts
    SentIsChargedWhileHeld
CHECK_DEADLOCK FALSE
