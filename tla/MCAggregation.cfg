SPECIFICATION Spec
CONSTANTS
  DefaultInterval = 300
  MinInterval = 30
  MaxInterval = 86400
  Names = {1, 2}
  WarningName = 1
  Times = {1, 2}
  Now = 3
  Intervals <- MCIntervals
  MaxResults = 3
CHECK_DEADLOCK FALSE
INVARIANTS PhaseFitsSummary WinnersKept ConditionsShowInPhase
INVARIANTS RequeueInBounds WarnedIffChanged
PROPERTY NeverImproves
