\* Two hakase programs at the same time: one opens a device while the other
\* one's file for it is being released.
CONSTANTS
  Procs = {p, q}
  NumCpus = 2
  Present <- PresentCpus
  ApicZero = {}
  NoProc = NoProc
  MaxOpens = 1
SPECIFICATION Spec
INVARIANT FriendCoresIsolated
