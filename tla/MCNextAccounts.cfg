\* Two browsers, two requests at once and four in all; one account exists.
SPECIFICATION Spec
CONSTANTS
    Ids = {i1, i2, i3}
    Names = {n1, n2}
    Emails = {e1, e2}
    Passwords = {p1}
    Browsers = {b1, b2}
    Slots = {s1, s2}
    MaxRequests = 4
    None = None
SYMMETRY Symmetry
INVARIANTS
    NamesAreUnique
    VerifiedByMail
PROPERTIES
    DeletedStaysDeleted
CHECK_DEADLOCK FALSE
