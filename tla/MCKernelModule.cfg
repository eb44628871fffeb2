\* Two CPU devices, two files open at most; any kernel call may fail.  Memory
\* devices of an address space of 16 pages of 4 bytes, of which a process has 8;
\* all areas.
SPECIFICATION KernelSpec
CONSTANTS
  NumPossibleCpus = 3
  MaxOpens = 2
  PageSize = 4
  LimitPages = 16
  UserPages = 8
  StartPage = 6
  MemPages = 5
  BootPage = 3
  BootPages = 2
INVARIANTS
  ModulePinned
  VersionMeansReady
  CleanUnload
  ReservedPagesOnly
PROPERTIES
  UnwindComplete
  OpensCompleteDevice
