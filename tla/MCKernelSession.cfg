\* Every outcome of every call, cancellation at every step.
SPECIFICATION Spec
INVARIANTS
  NothingLeaksSilently
  AvailableIsComplete
PROPERTIES
  ImplementsWindow
  HooksAreDetached
