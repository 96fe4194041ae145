\* One sensor that never fails and is never unplugged; two commands, one read.
CONSTANTS
  N = 1
  Lax = {}
  MaxDev = 4
  MaxCmds = 2
  MaxReads = 1
  MaxFaults = 0
SPECIFICATION SensorsSpec
INVARIANTS InitFlagTruthful
CHECK_DEADLOCK FALSE
