CONSTANTS
    Tab = {t1, t2}
    Cookie = {k1, k2}
    NoCookie = NoCookie
    PanelRole = {r1, r2}
    Loading = {p1, p2}
    MaxFetch = 2
    Filter = {f1, f2}
    ListLoad = {l1, l2}
    MaxAct = 2
    MaxItem = 3
    PageSize = 1
SPECIFICATION PortalSpec
SYMMETRY Symmetry
CONSTRAINT PortalBound
INVARIANT PortalTypeOK
INVARIANT StatusIsTrue
INVARIANT SessionIsHeld
INVARIANT PanelIsTrue
INVARIANT ShownIsAsked
INVARIANT PagesAreExact
PROPERTY UntouchedRolesStay
