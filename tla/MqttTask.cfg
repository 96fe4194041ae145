\* Three messages, one of them echoed, through a two-slot queue; two connections
\* lost, one Wi-Fi outage, one packet of the broker's own.
CONSTANTS
  Msg = {1, 2, 3}
  OnCmd = {2}
  Url = {url}
  NoUrl = NoUrl
  Faults = {"tcp", "send", "slow", "late", "partial", "discard"}
  BaseDelay = 5000
  MaxDelay = 12000
  QueueLen = 2
  SubLen = 1
  CtlLen = 1
  MaxTls = 4
  MaxFaults = 2
  MaxFlaps = 1
  MaxIn = 1
SPECIFICATION MqttFairSpec
INVARIANTS TlsOwned PublishedInOrder FramingKept
PROPERTIES DeadSessionNoticed Reconnects
