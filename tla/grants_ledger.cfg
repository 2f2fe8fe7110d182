SPECIFICATION Spec
CONSTANTS
    u1 = u1
    c1 = c1
    c2 = c2
    offline = offline
    s1 = s1
    k1 = k1
    r1 = r1
    r2 = r2
    t1 = t1
    none = none
    User = {u1}
    Client = {c1, c2}
    Trusted = {c2}
    Scope = {offline}
    OfflineAccess = offline
    AllowedScope <- AllScopes
    Session = {s1}
    Code = {k1}
    Response = {r1, r2}
    NoResponse = none
    Thread = {t1}
    MaxLoop = 1
SYMMETRY RowSymmetry
INVARIANTS TypeOK CodeExchangedOnce TokensMatchCode
PROPERTIES ImplementsLedger
