SPECIFICATION Spec
CONSTANTS
  Pods = {p1, p2}
  Nobody = nobody
  Specs = {good, invalid}
  InvalidSpecs = {invalid}
  UnselectableSpecs = {}
  BadIntervalSpecs = {}
  HealthyPhases = {"Passed"}
  BrokenPhases = {"Failed"}
  MaxEdits = 2
  MaxFaults = 1
  MaxRv = 6
INVARIANTS CopiesInv
PROPERTIES MeetsContract VerdictIsFinal ObservedGenerationGrows
SYMMETRY PodSymmetry
