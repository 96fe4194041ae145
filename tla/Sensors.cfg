\* Two sensors, one whose driver ignores failures; two commands, a read, a fault.
CONSTANTS
  N = 2
  Lax = {2}
  MaxDev = 2
  MaxCmds = 2
  MaxReads = 1
  MaxFaults = 1
SPECIFICATION SensorsSpec
INVARIANTS SoundUntilTasksMeet FlagTruthfulApart
CHECK_DEADLOCK FALSE
