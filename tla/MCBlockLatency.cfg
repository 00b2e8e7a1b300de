\* One entry per map, so that both maps fill up; addresses are reused.
CONSTANTS
  Requests = {p1, p2}
  Cgroups = {vm, host}
  VMCgroups = {vm}
  NoCgroup = none
  RequestEntries = 1
  CgroupEntries = 1
  MaxIssues = 3
  MaxParts = 1
SPECIFICATION Spec
SYMMETRY Symmetry
INVARIANTS
  AttributionIsOwn
  StaleEntriesPredateTheWindow
  ProgramRunsBalance
  ReportAccountsForAll
CHECK_DEADLOCK FALSE
