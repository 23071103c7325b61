SPECIFICATION FairSpec
CONSTANTS
  Pods = {p1, p2, p3}
  Nobody = nobody
  Home = "operator"
  Namespaces = {"operator", "leases", "default"}
  LeaseIDs = {"k-deskflight-operator", "other", ""}
  Templates <- MCTemplates
  MayList = {"operator", "default"}
  MaxChanges = 4
  MaxFaults = 1
INVARIANTS OneReconciler OnlyFitReconcile IInv
PROPERTY OneComesUp
CHECK_DEADLOCK FALSE
