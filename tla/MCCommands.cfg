SPECIFICATION SessionSpec
CONSTANTS
 Inventory <- MCInventory
 OutputRoot = "built-in"
 Files <- MCFiles
 EnvironmentPath = "shared"
 InstalledDefaultPath = ""
 CommandLines <- MCCommandLines
 Interactive = TRUE
 Explored <- MCExplored
 VMNames <- MCVMNames
 Disk <- MCDisk
 maxMonitorEvents = 4
 maxSamples = 2
 Typed <- MCTyped
 Worlds <- MCWorlds
 Sectors = {s1, s2}
 CPUs = {c1}
 StartEntries = 1
 MaxRequests = 3
INVARIANTS
 ProcessLeavesClean
 ProbesAreAskedFor
 OptionOrderIsImmaterial
 ExpansionKeepsChoices
 EventsEndInTheView
 LatencyIsOwn
 LaunchesAreBounded
