SPECIFICATION Spec
CONSTANTS
    u1 = u1
    a1 = a1
    a2 = a2
    a3 = a3
    n1 = n1
    n2 = n2
    p1 = p1
    p2 = p2
    l1 = l1
    l2 = l2
    s1 = s1
    t1 = t1
    t2 = t2
    User = {u1}
    Address = {a1, a2, a3}
    Number = {n1, n2}
    Password = {p1, p2}
    Link = {l1, l2}
    Session = {s1}
    Thread = {t1, t2}
    None = None
    RequireVerification = FALSE
SYMMETRY Symmetry
INVARIANTS TypeOK EmailProved PhoneProved
PROPERTIES ReplacedStaysReplaced SpentDoesNothing
