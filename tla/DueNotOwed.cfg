SPECIFICATION Spec

CONSTANTS
  Table <- PairTable
  Calls = {c1, c2}
  MaxCrashes = 0
  c1 = c1
  c2 = c2
  c3 = c3
  c4 = c4
  c5 = c5
  worker = worker
  none = none
  Worker = worker
  None = none
  Requests <- TableRequests
  Employees <- TableEmployees
  Systems <- TableSystems
  Steps <- TableSteps
  EmpOf <- TableEmpOf
  ReqOf <- TableReqOf
  SysOf <- TableSysOf
  OpOf <- TableOpOf
  SeqOf <- TableSeqOf
  MaxAttempts <- TableMax

INVARIANT DueStillOwed
