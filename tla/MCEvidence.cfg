\* Three VMs and two disks; one interval with all of them, two with a pair.
CONSTANTS
  Order <- MCOrder
  VM <- MCVM
  Thresholds <- MCThresholds
  Work <- MCWork
  MaxOwners = 1
  Requests <- MCRequests
  DiskMaps <- MCDiskMaps
  Impacts <- MCImpacts
  Kernels <- MCKernels
  Mappings <- MCMappings
  Answers <- MCAnswers
  Stale <- MCStale
SPECIFICATION EvidenceSpec
INVARIANTS
  SummaryIsMeasured
  AlertIsEvidenced
  SelectionAgreesWithVerdict
  ToolsAgree
  SnapshotIsConsistent
