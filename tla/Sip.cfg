SPECIFICATION Spec

CONSTANTS
  c1 = c1
  c2 = c2
  c3 = c3
  c4 = c4
  b1 = b1
  b2 = b2
  e1 = e1
  e2 = e2
  none = none
  Calls = {c1, c2, c3, c4}
  Employees = {e1, e2}
  Bindings = {b1, b2}
  None = none
  MaxChanges = 1

SYMMETRY SipSymmetry
CHECK_DEADLOCK FALSE
INVARIANTS TypeOK CredentialsMatch RevokedIsRotated
PROPERTY EndedStaysEnded
