SPECIFICATION FairSpec
CONSTANTS
  Pods = {p1}
  Nobody = nobody
  Specs = {good}
  InvalidSpecs = {}
  UnselectableSpecs = {}
  BadIntervalSpecs = {}
  HealthyPhases = {"Passed"}
  BrokenPhases = {"Failed"}
  MaxEdits = 1
  MaxFaults = 0
  MaxRv = 30
PROPERTIES VerdictFollowsCluster
