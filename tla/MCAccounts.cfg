SPECIFICATION Spec
CONSTANTS
  Ids = {u1, u2, u3}
  Names = {n1, n2}
  Emails = {e1, e2}
  Requests = {r1, r2}
  Original = original
  None = none
SYMMETRY Symmetry
INVARIANTS
  AccountsAreWhole
  ProfileMissingOnlyOnFailure
  PasswordIsReplaced
  DeletedIsGone
