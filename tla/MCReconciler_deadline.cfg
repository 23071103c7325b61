SPECIFICATION Spec
CONSTANTS
  Pods = {p1}
  Nobody = nobody
  Specs = {good}
  InvalidSpecs = {}
  UnselectableSpecs = {}
  BadIntervalSpecs = {}
  HealthyPhases = {"Passed"}
  BrokenPhases = {"Failed"}
  MaxEdits = 1
  MaxFaults = 1
  MaxRv = 30
PROPERTIES DeadlineEndsUnknown
