\* Two processes save to one destination.
CONSTANTS
  Savers = {w1, w2}
  Absent = absent
  Old = old
  Other = other
  TornFile = tornFile
SPECIFICATION FileSpec
INVARIANTS
  SavedIsDurable
PROPERTIES
  ImplementsReplacement
