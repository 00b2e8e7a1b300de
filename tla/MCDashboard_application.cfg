\* The application: unbounded monitoring, embedded workflows, UI ticks.
CONSTANTS
  Collections = {c1, c2}
  NoCollection = none
  Application = TRUE
  Iterations = 0
  IncludeEBPFLatency = TRUE
  UIRefresh = TRUE
SPECIFICATION Safety
SYMMETRY Symmetry
INVARIANTS
  OneActivity
  ProbeExclusion
  NothingLeftBehind
  DetailIsCurrent
PROPERTIES
  ProbesChangeHandsDetached
