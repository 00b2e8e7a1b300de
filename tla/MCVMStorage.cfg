\* One PID that is reused by QEMU of the same or another machine, or by another
\* process, between any two reads; cgroups that come back under their name.
CONSTANTS
  VMs <- MCVMs
  Pids = {1}
  Scopes = {"m1", "m2"}
  MaxChanges = 2
  Values = {0, 1}
  CgroupRows <- MCCgroupRows
  VirshRows <- MCVirshRows
  ShutOff <- MCShutOff
SPECIFICATION Spec
INVARIANTS
  MappingIsOfOneProcess
  EvidenceIsOfOneSource
