SPECIFICATION Spec
CONSTANTS
  create = create
  again = again
  other = other
  verify = verify
  activate = activate
  suspend = suspend
  change = change
  back = back
  end = end
  renew = renew
  e1 = e1
  e2 = e2
  n1 = n1
  n2 = n2
  None = None
  Commands = {create, again, other, verify, activate, suspend, change, back}
  Employees = {e1, e2}
  Names = {n1, n2}
  EmpOf <- TableEmp
  OpOf <- TableOp
  NameOf <- TableName
  LinkOf <- TableLink
  MaxAttempts <- TableMax
  MaxLate = 1
INVARIANTS
  TypeOK
  LifecycleTellsAccess
  OwnUser
  OneUserPerEmployee
  SuspendedIsOut
CHECK_DEADLOCK FALSE
