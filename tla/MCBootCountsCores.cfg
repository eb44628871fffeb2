\* What boot() returns, and the cores that have really been started.
CONSTANTS
  NumDevices = 3
  MaxArgs <- BootArguments
  StackSize = 4
  FirstOffset = 2
SPECIFICATION Spec
INVARIANT BootCountsCores
CHECK_DEADLOCK FALSE
