SPECIFICATION Spec
CONSTANTS
  Ids = {u1, u2}
  Names = {n1, n2}
  Emails = {e1, e2}
  Requests = {r1, r2}
  Original = original
  None = none
SYMMETRY Symmetry
INVARIANTS
  NewEmailIsReconfirmed
