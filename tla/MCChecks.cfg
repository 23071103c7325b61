SPECIFICATION Spec
CONSTANTS
  Demands <- MCDemands
  Clusters <- MCClusters
  Registries <- MCRegistries
  Blank = "blank"
  CPUWidth = 1048576
  MemWidth = 1048576
  BigDecimals <- MCBigDecimals
  MaxChanges = 2
INVARIANTS PassedMeansMet NothingPassedOver MoreIsNeverWorse
CHECK_DEADLOCK FALSE
