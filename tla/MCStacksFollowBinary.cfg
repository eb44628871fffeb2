\* Where the stacks are, in units of 4 KiB from friend_binary_end.
CONSTANTS
  NumDevices = 3
  MaxArgs <- BootArguments
  StackSize = 4
  FirstOffset = 2
SPECIFICATION Spec
INVARIANT StacksFollowBinary
CHECK_DEADLOCK FALSE
