\* One hakase program, run again and again, that may call boot() twice.
CONSTANTS
  Procs = {p}
  NumCpus = 4
  Present <- PresentCpus
  ApicZero <- ApicZeroCpus
  NoProc = NoProc
  MaxOpens = 2
SPECIFICATION FairSpec
INVARIANTS
  FriendCoresIsolated
  FriendCoresHeld
  AllCoresBack
PROPERTIES
  DeployOnIdleMemory
  ExitReleasesCores
