SPECIFICATION FairSpec
CONSTANTS
  c1 = c1
  c2 = c2
  c3 = c3
  bare = bare
  pa = pa
  pb = pb
  Checks <- MCChecks
  Permissions <- MCPermissions
  Active <- MCActive
  Configured <- MCConfigured
  Required <- MCRequired
  TypeOf <- MCTypeOf
INVARIANTS OneResultEach AnsweredOnce NeverUnpermitted FailureComesFirst CauseIsTrue
INVARIANTS PassedMeansChecked EveryCheckShows IInv
PROPERTIES TooLateIsDropped RunEnds NoGoroutineLeak ResultsOnlyGrow CutShortNeverPasses
CHECK_DEADLOCK FALSE
