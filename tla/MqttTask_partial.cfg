\* The network of MqttTask.cfg; a packet may arrive in part.
CONSTANTS
  Msg = {1, 2, 3}
  OnCmd = {2}
  Url = {url}
  NoUrl = NoUrl
  Faults = {"tcp", "send", "slow", "late", "partial", "discard"}
  BaseDelay = 5000
  MaxDelay = 12000
  QueueLen = 2
  SubLen = 1
  CtlLen = 1
  MaxTls = 4
  MaxFaults = 2
  MaxFlaps = 1
  MaxIn = 1
SPECIFICATION MqttSpec
PROPERTIES PartialIsNoError
