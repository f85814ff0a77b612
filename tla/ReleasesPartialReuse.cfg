SPECIFICATION ReleaseSpec
CONSTANTS
  a = a b = b x = x y = y p1 = p1 p2 = p2 k1 = k1 k2 = k2
  snap1 = snap1 snap2 = snap2 tag1 = tag1
  Paths = {p1, p2} Tags = {tag1} Kinds = {k1, k2}
  PartIds = {a, b} Contents = {x, y} Snapshots = {snap1, snap2}
  ComponentTasks = {t1, t2}
  VehicleTasks = {}
  ComponentIds = {1, 2}
  VehicleIds = {}
  ComponentRequests <- TwoPartRequest
  VehicleRequests <- NoRequests
  Faults = FALSE
  None = None
INVARIANT ReusedComplete
