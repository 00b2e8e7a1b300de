\* README.md:306-307 says a completion is correlated with its own request.
CONSTANTS
  Requests = {p1, p2}
  Cgroups = {vm, host}
  VMCgroups = {vm}
  NoCgroup = none
  RequestEntries = 2
  CgroupEntries = 2
  MaxIssues = 3
  MaxParts = 1
SPECIFICATION Spec
SYMMETRY Symmetry
INVARIANTS
  LatencyIsIssueToCompletion
CHECK_DEADLOCK FALSE
