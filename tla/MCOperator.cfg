SPECIFICATION FairSpec
CONSTANTS
  Pods = {p1, p2}
  Nobody = nobody
  Home = "operator"
  Namespaces = {"operator", "default"}
  LeaseIDs = {"k-deskflight-operator"}
  Templates <- MCTemplates
  MayList = {"operator"}
  Specs = {good}
  InvalidSpecs = {}
  UnselectableSpecs = {}
  BadIntervalSpecs = {}
  HealthyPhases = {"Passed"}
  BrokenPhases = {"Failed"}
  Replicas = 1
  Installed <- MCInstalled
  Rollouts <- MCRollouts
  MaxRollouts = 2
  MaxEdits = 1
  MaxFaults = 1
  MaxRv = 12
INVARIANTS OneRunAtATime IInv
PROPERTIES MeetsContract RolloutEnds EventuallyServed
CHECK_DEADLOCK FALSE
