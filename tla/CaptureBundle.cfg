\* Two captures with the same destination, asked for any evidence.
CONSTANTS
  Writers = {c1, c2}
  Nothing = nothing
  Existing = existing
  Torn = torn
SPECIFICATION Spec
INVARIANTS
  BundleAnswersItsMetadata
  SuccessIsTheBundle
PROPERTIES
  ImplementsPublication
