SPECIFICATION Spec
CONSTANTS
    a = a
    r1 = r1
    r2 = r2
    t1 = t1
    t2 = t2
    App = {a}
    Row = {r1,r2}
    Thread = {t1, t2}
    day = day
    Period = {day}
    FreePeriod = day
    FreeLimit = 1
    MaxLimit = 2
    MaxAmount = 2
    MaxBalance = 2
SYMMETRY Symmetry
INVARIANTS TypeOK UsedWithinLimit PaidInFull
PROPERTIES RevokedStaysRevoked
