SPECIFICATION FairSpec
CONSTANTS
  Mounts = {"m1", "m2"}
  Points = {"m1", "m2"}
  Setups <- MCSetups
PROPERTIES
  UnmountedOnlyWhenInterrupted
  InterruptEndsProcess
  ClosedGuiLeavesNoMount
  ButtonComesBack
CHECK_DEADLOCK FALSE
