SPECIFICATION Spec
CONSTANTS
    u1 = u1
    a1 = a1
    a2 = a2
    n1 = n1
    p1 = p1
    l1 = l1
    l2 = l2
    s1 = s1
    t1 = t1
    User = {u1}
    Address = {a1, a2}
    Number = {n1}
    Password = {p1}
    Link = {l1, l2}
    Session = {s1}
    Thread = {t1}
    None = None
    RequireVerification = FALSE
SYMMETRY Symmetry
PROPERTIES CancelledIsCancelled
