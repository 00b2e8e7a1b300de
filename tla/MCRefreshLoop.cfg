\* Cooldowns shorter and longer than a period and a second, a wall clock that is
\* stepped both ways, bounded and unbounded loops.
CONSTANTS
  Every = 2
  Cooldowns = {1, 3}
  Second = 2
  Limits = {0, 2}
  Offsets <- MCOffsets
  MaxTime = 5
  Never = never
SPECIFICATION Spec
INVARIANTS
  NeverAheadOfSchedule
  InterruptedWorkIsDiscarded
  CooldownIsKept
  SuppressionIsExplained
  SummaryIsTrue
