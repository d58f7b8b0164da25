\* Two browsers, two requests at once and five in all, up to two accounts.
SPECIFICATION Spec
CONSTANTS
    Ids = {i1, i2}
    Names = {n1, n2, n3}
    Browsers = {b1, b2}
    Slots = {s1, s2}
    MaxRequests = 5
    None = None
    NoHeader = NoHeader
SYMMETRY Symmetry
INVARIANTS
    CookieCoherent
    CookieTellsTruth
CHECK_DEADLOCK FALSE
