SPECIFICATION Spec
CONSTANTS
    u1 = u1
    c1 = c1
    offline = offline
    s1 = s1
    k1 = k1
    r1 = r1
    t1 = t1
    none = none
    User = {u1}
    Client = {c1}
    Trusted = {}
    Scope = {offline}
    OfflineAccess = offline
    AllowedScope <- AllScopes
    Session = {s1}
    Code = {k1}
    Response = {r1}
    NoResponse = none
    Thread = {t1}
    MaxLoop = 1
SYMMETRY RowSymmetry
PROPERTIES ReplayRevokesTokens
