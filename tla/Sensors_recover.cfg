\* One sensor, three commands, a read command and a fault; handles to spare.
CONSTANTS
  N = 1
  Lax = {}
  MaxDev = 6
  MaxCmds = 3
  MaxReads = 1
  MaxFaults = 1
SPECIFICATION SensorsFairSpec
PROPERTIES Recovers
CHECK_DEADLOCK FALSE
