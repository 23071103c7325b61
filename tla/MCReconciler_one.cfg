SPECIFICATION FairSpec
CONSTANTS
  Pods = {p1}
  Nobody = nobody
  Specs = {good, invalid, unlisted, sloppy}
  InvalidSpecs = {invalid}
  UnselectableSpecs = {unlisted}
  BadIntervalSpecs = {sloppy}
  HealthyPhases = {"Passed"}
  BrokenPhases = {"Failed"}
  MaxEdits = 3
  MaxFaults = 1
  MaxRv = 30
INVARIANTS OutcomeLabelled SettledVerdict NoCutShortStored NoLostWork
PROPERTIES EventuallySettled
