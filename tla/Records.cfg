CONSTANTS
    Worker = {w1, w2, w3}
    Creator = {c1, c2, c3}
    Person = {p1, p2}
    Form = {e1, e2}
    Text = {"a", "b"}
    Seeder = {s1, s2}
    Perm = {m1, m2}
    RoleCount = 2
    Put = {q1, q2}
    Ref = {n1, n2}
SPECIFICATION RecordsSpec
SYMMETRY Symmetry
INVARIANT RecordsTypeOK
INVARIANT TrailIsTrue
INVARIANT SideFollowsRecord
INVARIANT CreatedOnce
INVARIANT RolesAreSeeded
INVARIANT RefsAreAsListed
INVARIANT SignInIsSound
INVARIANT EndingIsTrue
PROPERTY UneditedFieldStays
PROPERTY TablesAgree
CHECK_DEADLOCK FALSE
