SPECIFICATION Spec
CONSTANTS
    u1 = u1
    c1 = c1
    offline = offline
    s1 = s1
    s2 = s2
    k1 = k1
    r1 = r1
    t1 = t1
    t2 = t2
    none = none
    User = {u1}
    Client = {c1}
    Trusted = {}
    Scope = {offline}
    OfflineAccess = offline
    AllowedScope <- AllScopes
    Session = {s1, s2}
    Code = {k1}
    Response = {r1}
    NoResponse = none
    Thread = {t1, t2}
    MaxLoop = 1
SYMMETRY RowSymmetry
INVARIANTS WithinApproval
PROPERTIES EndedSessionStaysEnded WithdrawnStaysWithdrawn
