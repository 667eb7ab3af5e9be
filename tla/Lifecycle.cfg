SPECIFICATION Spec

CONSTANTS
  c1 = c1
  c2 = c2
  c3 = c3
  c4 = c4
  kc = kc
  sip = sip
  a = a
  b = b
  none = none
  Calls = {c1, c2, c3, c4}
  Systems = {kc, sip}
  Ids = {a, b}
  None = none

SYMMETRY LifecycleSymmetry
INVARIANTS TypeOK OwnIdentity
CHECK_DEADLOCK FALSE
