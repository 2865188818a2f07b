CONSTANTS
    Login = {l1, l2}
    Secret = {s1, s2}
    MaxStep = 3
    None = None
SPECIFICATION Spec
SYMMETRY Symmetry
INVARIANT CodeWorksOnce
