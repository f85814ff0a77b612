SPECIFICATION InstanceSpec
CONSTANTS
  a = a b = b x = x p1 = p1 p2 = p2 k1 = k1 tag1 = tag1
  bleeding = bleeding rig = rig emulated = emulated arm64 = arm64
  Paths = {p1, p2} Tags = {tag1} Kinds = {k1}
  PartIds = {a, b} Contents = {x} Snapshots = {}
  ChannelNames = {bleeding} Architectures = {arm64}
  ComponentIds = {1, 2}
  VehicleTasks = {u1}
  ComponentTasks = {t1}
  ChannelTasks = {c1, c2}
  Devices = {rig, emulated}
  VehicleIds = {1, 2}
  ComponentRequests <- MCComponentRequests
  VehicleRequests <- MCVehicleRequests
  Selectors <- MCSelectors
  Faults = TRUE
  None = None
SYMMETRY Symmetry
INVARIANTS
  TypeOK
  ResolvedSound
  ResolvedExact
  TargetsBound
  PinHonoured
PROPERTY ImplementsDesired
