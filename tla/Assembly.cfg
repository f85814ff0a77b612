SPECIFICATION Spec
CONSTANTS
  vm = vm rt = rt kernel = kernel rootfs = rootfs x = x y = y k1 = k1 k2 = k2
  Paths = {vm, rt} PartIds = {kernel, rootfs} Contents = {x, y} Keys = {k1, k2}
  Requests <- MCRequests
  None = None
SYMMETRY Symmetry
INVARIANTS
  TypeOK
  CampaignWhole
  PayloadsServed
  DispatchWithinAssessment
  GatesHideNoWork
  ManifestOnlyReenables
  OneFlashSettles
  BundleDecrypts
