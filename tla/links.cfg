\* Two accounts, two identities, two addresses, two callbacks at once
CONSTANTS
    l1 = l1
    l2 = l2
    s1 = s1
    s2 = s2
    e1 = e1
    e2 = e2
    t1 = t1
    t2 = t2
    b1 = b1
    None = None
    Local = {l1, l2}
    Subject = {s1, s2}
    Email = {e1, e2}
    Registered <- OwnAddress
    Keys = 3
    Thread = {t1, t2}
    Browser = {b1}
    Autolink = TRUE
    Autocreate = TRUE
SPECIFICATION Spec
INVARIANTS
    TypeOK
    NotLockedOut
PROPERTIES
    RevokedStaysRevoked
    NeverRepointed
    LinkedWithProof
    SignsInLinked
SYMMETRY Symmetry
