\* Programs one after the other, without limit, two cores, nine friend binaries.
SPECIFICATION FairSpec
CONSTANTS
  c1 = c1
  c2 = c2
  Cores = {c1, c2}
  Images <- SomeImages
  Entries = 3
  HugePage = 4
  TrampolineAddr = 1
  Pml4t = 2
  DeployStart = 12
  DeployEnd = 24
  Pdpt = 17
  Pd1 = 18
  Pd2 = 19
  ClearSize = 4
  ExportCell = 16
  Margin = 2
  AddressSpace = 128
INVARIANTS
  IdentityMap
  NothingElseMapped
  DeployedImage
  CoresStartInImage
  OwnMemoryUntouched
PROPERTIES
  StartedCoreArrives
