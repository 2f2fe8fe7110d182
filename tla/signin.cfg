\* Two requests of one browser, an account with a second factor and one without
CONSTANTS
    r1 = r1
    r2 = r2
    c1 = c1
    c2 = c2
    a = a
    b = b
    None = None
    Keep = Keep
    Request = {r1, r2}
    Call = {c1, c2}
    User = {a, b}
    WithFactor = {a}
    Ask <- OneAsk
    Draws = 20
    MaxDetours = 1
SPECIFICATION SSpec
INVARIANT STypeOK
PROPERTIES
    FreshLogin
    ConsentWasShown
    SignsInLatestOnce
SYMMETRY Symmetry
\* Every request may have ended.
CHECK_DEADLOCK FALSE
