SPECIFICATION LaunchSpec
CONSTANTS
  N = 2
  MaxExternal = 1
PROPERTY
  StoppedLaunchReturns
CHECK_DEADLOCK FALSE
