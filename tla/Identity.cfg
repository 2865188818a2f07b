CONSTANTS
    Person = {p1, p2}
    Role <- Roles
    Request = {r1, r2}
    Login = {l1}
    Token = {t1}
    None = None
SPECIFICATION Spec
SYMMETRY Symmetry
CONSTRAINT Focus
INVARIANT SuperAdminRemains
INVARIANT AccessIsCurrent
