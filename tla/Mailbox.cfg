SPECIFICATION Spec
CONSTANTS
  p1 = p1
  p2 = p2
  p3 = p3
  p4 = p4
  p5 = p5
  k1 = k1
  k2 = k2
  a1 = a1
  None = None
  Calls = {p1, p2, p3, p4, p5}
  Addresses = {a1}
  Keys = {k1, k2}
  AddressOf <- OneAddress
SYMMETRY Interchangeable
INVARIANTS
  TypeOK
  SavedIsComplete
  ReplaysOwnRecord
  RecordedHappened
  AlignedWhenSerial
CHECK_DEADLOCK FALSE
