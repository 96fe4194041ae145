\* One outage, one CONNECT command, two writes; every call may fail.
CONSTANTS
  BaseDelay = 1000
  MaxDelay = 1000
  Faults = {"connect", "create", "start", "disconnect",
            "mem", "wifi", "register", "sta", "config", "erase", "save", "adv"}
  MaxOutages = 1
  MaxUser = 1
  Ssids = {"home", "far"}
  Passwords = {"secret"}
  Long = {"far"}
  MaxWrites = 2
SPECIFICATION StationFairSpec
CHECK_DEADLOCK FALSE
INVARIANTS WifiTypeOK ScheduledIsReal BitFollowsLink ConfigIsSent
PROPERTIES OnlyErrorsEndRetries ComesOnline Reachable
