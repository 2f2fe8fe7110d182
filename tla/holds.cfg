SPECIFICATION Spec
CONSTANTS
    m1 = m1
    m2 = m2
    x1 = x1
    h1 = h1
    h2 = h2
    t1 = t1
    t2 = t2
    Method = {m1, m2}
    Token = {x1}
    Hold = {h1, h2}
    MaxAmount = 2
    Thread = {t1, t2}
SYMMETRY WalletSymmetry
INVARIANTS TypeOK RowsTellTruth NeverMoreThanHeld
PROPERTIES SettledOnce RemovedNotCharged
