\* README.md:195 says the live collector is paused before a workflow starts.
CONSTANTS
  Collections = {c1, c2}
  NoCollection = none
  Application = TRUE
  Iterations = 0
  IncludeEBPFLatency = TRUE
  UIRefresh = TRUE
SPECIFICATION Safety
SYMMETRY Symmetry
INVARIANTS
  LiveCollectorPaused
