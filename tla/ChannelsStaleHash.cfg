SPECIFICATION Spec
CONSTANTS
  a = a b = b x = x p1 = p1 p2 = p2 k1 = k1 tag1 = tag1
  bleeding = bleeding rig = rig emulated = emulated arm64 = arm64
  Paths = {p1, p2} Tags = {tag1} Kinds = {k1}
  PartIds = {a, b} Contents = {x} Snapshots = {}
  ChannelNames = {bleeding} Architectures = {arm64}
  ComponentIds = {1, 2}
  VehicleTasks = {u1}
  ComponentTasks = {t1}
  ChannelTasks = {c1}
  Devices = {rig}
  VehicleIds = {1}
  ComponentRequests <- MCComponentRequests
  VehicleRequests <- OneVehicleRequest
  Selectors <- NoSelectors
  Faults = FALSE
  None = None
INVARIANT PlanBindsExecute
