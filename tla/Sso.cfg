CONSTANTS
    Admin = {a1, a2}
    Subject = {s1, s2}
    Email = {e1, e2}
    RoleKey = {k1, k2}
    Grant <- Singles
    Visit = {v1}
    Login = {l1, l2}
    Token = {t1, t2}
    None = None
SPECIFICATION Spec
SYMMETRY Symmetry
CONSTRAINT Focus
INVARIANT RolesFollowToken
INVARIANT SessionsAreEnded
PROPERTY LinkIsForLife
