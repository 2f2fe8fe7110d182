SPECIFICATION Spec
CONSTANTS
    m1 = m1
    x1 = x1
    h1 = h1
    t1 = t1
    t2 = t2
    Method = {m1}
    Token = {x1}
    Hold = {h1}
    MaxAmount = 2
    Thread = {t1, t2}
SYMMETRY WalletSymmetry
INVARIANTS NoHoldOnRemoved
