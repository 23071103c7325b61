SPECIFICATION Spec
CONSTANTS
  c1 = c1
  c2 = c2
  c3 = c3
  bare = bare
  pa = pa
  pb = pb
  Checks <- MCChecks
  Permissions <- MCPermissions
  Active <- MCActive
  Configured <- MCConfigured
  Required <- MCRequired
  TypeOf <- MCTypeOf
INVARIANT CanceledMeansWarning
CHECK_DEADLOCK FALSE
