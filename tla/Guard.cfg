SPECIFICATION Spec
CONSTANTS
  t1 = t1
  t2 = t2
  t3 = t3
  t4 = t4
  t5 = t5
  anna = anna
  bert = bert
  Tokens = {t1, t2, t3, t4, t5}
  Subjects = {anna, bert}
  SubjectOf <- MCSubjectOf
  ExpOf <- MCExpOf
  None = None
  Leeway = 2
  Limit = 2
  Window = 2
  MaxTime = 7
  MaxCalls = 6
SYMMETRY AlikeTokens
INVARIANTS
  TypeOK
  UsedOnce
  RateBound
  RefusedOnlyAtLimit
CHECK_DEADLOCK FALSE
