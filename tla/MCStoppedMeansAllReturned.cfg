\* The flag that hakase waits for, and a core that has not entered friend_main.
CONSTANTS
  NumDevices = 3
  MaxArgs <- BootArguments
  StackSize = 4
  FirstOffset = 2
SPECIFICATION Spec
INVARIANT StoppedMeansAllReturned
CHECK_DEADLOCK FALSE
