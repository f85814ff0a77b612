SPECIFICATION FairSpec
CONSTANTS
  host = host rt = rt vm = vm v0 = v0 v1 = v1 v2 = v2 o1 = o1 o2 = o2
  Paths = {host, rt, vm} PartIds = {img} Contents = {v0, v1, v2} Img = img
  Targets <- MCTargets Mode <- MCMode InitialRig <- MCRig InitialAdmin <- MCAdmin
  Host = host Tier1 = {host, rt} Full = {v1, v2}
  None = None
  Operators = {o1} Verbs = {"campaign"} Filters <- NoFilter NoCommit = {FALSE}
  ServesState = TRUE MaxFaults = 2 MaxMoves = 2
PROPERTY
  Converges
