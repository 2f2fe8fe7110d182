\* As signin.cfg, with silent requests, nothing lost and no URL opened twice
CONSTANTS
    r1 = r1
    r2 = r2
    c1 = c1
    c2 = c2
    a = a
    b = b
    None = None
    Keep = Keep
    Request = {r1, r2}
    Call = {c1, c2}
    User = {a, b}
    WithFactor = {a}
    Ask <- ThreeAsks
    Draws = 20
    MaxDetours = 0
SPECIFICATION SSpec
PROPERTIES StartedEnds
\* Every request may have ended.
CHECK_DEADLOCK FALSE
