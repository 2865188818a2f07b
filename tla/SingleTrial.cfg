CONSTANTS
    Call = {c1, c2}
    FailureThreshold = 1
    ResetTimeout = 1
    Retries = 0
SPECIFICATION Spec
SYMMETRY Symmetry
\* Every caller may hang, and then nothing moves any more.
CHECK_DEADLOCK FALSE
INVARIANT SingleTrial
