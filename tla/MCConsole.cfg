CONSTANTS
  None = None
  Routers <- MCRouters
  Infos <- MCInfos
  Dirs <- MCDirs
  Procs <- MCProcs
  KindsOf <- MCKinds
  Self = "me"
  MaxLaunches = 2
  MaxOps = 1
  MaxKills = 1
SPECIFICATION Spec
INVARIANTS StoresWhole CommandAtomic
CHECK_DEADLOCK FALSE
