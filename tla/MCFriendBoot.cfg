\* Three devices, every kind of limit; any subset of the cores may fail to
\* start.  Stack sizes are in units of 4 KiB.  The array of the test has one
\* entry more than there are devices (16 in the code).
CONSTANTS
  NumDevices = 3
  MaxArgs <- BootArguments
  StackSize = 4
  FirstOffset = 2
  kCoreCountMax = 4
SPECIFICATION BootSpec
INVARIANTS
  BootLimit
  StacksApart
  SignalCoversCounted
  StackTestPasses
  CountVerdict
PROPERTY HakaseReleased
CHECK_DEADLOCK FALSE
