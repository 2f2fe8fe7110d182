\* Two callbacks of one flow that overlap, with the codes of one URL opened twice
CONSTANTS
    r1 = r1
    r2 = r2
    c1 = c1
    c2 = c2
    a = a
    b = b
    None = None
    Keep = Keep
    Request = {r1}
    Call = {c1, c2}
    User = {a}
    WithFactor = {}
    Ask <- OneAsk
    Draws = 14
    MaxDetours = 1
SPECIFICATION SSpec
INVARIANT FlowUsedOnce
CHECK_DEADLOCK FALSE
