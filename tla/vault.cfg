\* Two providers, two API keys, two requests at once, two versions of encryption keys
CONSTANTS
    openai = openai
    custom_openai = custom_openai
    k1 = k1
    k2 = k2
    x1 = x1
    r1 = r1
    r2 = r2
    t1 = t1
    t2 = t2
    m1 = m1
    m2 = m2
    None = None
    Unknown = Unknown
    Provider = {openai, custom_openai}
    Keyless = {custom_openai}
    Key = {k1, k2}
    Extra = {x1}
    Row = {r1, r2}
    Thread = {t1, t2}
    Importer = {t1}
    Typed <- MCTyped
    Pushes <- MCPushes
    MaxVersion = 2
    Material = {m1, m2}
SPECIFICATION Spec
INVARIANTS
    TypeOK
    StoredIsExported
    NeverBlank
    ColumnsMatch
SYMMETRY Symmetry
