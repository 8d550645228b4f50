SPECIFICATION EvidenceSpec
INVARIANTS
    OutcomeIsEarned
    WalkMissesNothing
    EvidenceIsRetained
    TenantsAreSeparate
    BackendsAgree
CHECK_DEADLOCK FALSE
