CONSTANTS
    Admin = {a1, a2}
    RoleKey <- TwoRoles
    Password = {p1, p2}
    Token = {t1, t2}
    Request = {r1, r2}
    None = None
SPECIFICATION Spec
SYMMETRY Symmetry
INVARIANT LastSuperAdminSurvives
INVARIANT RevocationIsComplete
PROPERTY LockoutIsPermanent
CHECK_DEADLOCK FALSE
