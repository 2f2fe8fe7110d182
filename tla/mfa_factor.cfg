SPECIFICATION Spec
CONSTANTS
    a = a
    b = b
    s1 = s1
    s2 = s2
    t1 = t1
    t2 = t2
    MaxDevice = 2
    MaxStep = 2
    Recovery = {a, b}
    RecoveryCodes = 1
    MaxAttempts = 1
    Session = {s1, s2}
    Thread = {t1, t2}
SYMMETRY RowSymmetry
INVARIANTS TypeOK OneFactor
PROPERTIES FactorStaysOn SpentStaysSpent
