CONSTANTS
    Call = {c1, c2}
    FailureThreshold = 1
    ResetTimeout = 1
    Retries = 1
SPECIFICATION FairIntegrationSpec
INVARIANT StatusIsEarned
INVARIANT DisabledIsQuiet
PROPERTY TestingEnds
