SPECIFICATION Spec
CONSTANTS
    a = a
    b = b
    s1 = s1
    s2 = s2
    s3 = s3
    t1 = t1
    t2 = t2
    MaxDevice = 1
    MaxStep = 2
    Recovery = {a, b}
    RecoveryCodes = 1
    MaxAttempts = 1
    Session = {s1, s2, s3}
    Thread = {t1, t2}
SYMMETRY RowSymmetry
INVARIANTS AcceptedOnce
