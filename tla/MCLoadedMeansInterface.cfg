\* A module that was loaded although its memory devices do not exist.
SPECIFICATION Spec
CONSTANTS
  NumPossibleCpus = 3
  MaxOpens = 1
INVARIANTS
  LoadedMeansInterface
