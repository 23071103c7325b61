SPECIFICATION FairSpec
CONSTANTS
  Pods = {p1, p2}
  Nobody = nobody
  Home = "operator"
  Namespaces = {"operator", "leases", "default"}
  LeaseIDs = {"k-deskflight-operator"}
  Templates <- ScopeTemplates
  MayList = {"operator", "default"}
  MaxChanges = 3
  MaxFaults = 1
PROPERTY NamespaceScopeReconciles
CHECK_DEADLOCK FALSE
