CONSTANTS
    Admin = {a1, a2}
    RoleKey <- OneRole
    Password = {p1}
    Token = {t1, t2}
    Request = {r1, r2}
    None = None
SPECIFICATION Spec
SYMMETRY Symmetry
INVARIANT LastSuperAdminNeverLost
