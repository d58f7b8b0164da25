\* Two requests at once, four in all: enough for two readers and two writers of
\* one post, and for two uploads of one avatar beside a deletion.
SPECIFICATION Spec
CONSTANTS
    Users = {u1, u2}
    Posts = {b1}
    Names = {n1, n2}
    Places = {l1}
    Slots = {s1, s2}
    MaxRequests = 4
    MaxTime = 1
    None = None
SYMMETRY Symmetry
INVARIANTS
    ContentIsLinked
    ReplacementsSucceed
PROPERTIES
    NoLostUpdate
CHECK_DEADLOCK FALSE
