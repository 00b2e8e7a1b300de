\* The application under the fairness of the scheduler, one Collect identity.
CONSTANTS
  Collections = {c1}
  NoCollection = none
  Application = TRUE
  Iterations = 0
  IncludeEBPFLatency = TRUE
  UIRefresh = TRUE
SPECIFICATION Spec
PROPERTIES
  SignalEndsTheLoop
  JoinsEnd
  CollectionsAreAnswered
