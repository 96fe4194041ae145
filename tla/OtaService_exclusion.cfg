\* Is a second update refused while one runs?
CONSTANTS
  Passive = passive
  Http = {http1}
  Ctx = {passive, http1}
  BleImage = fwB
  HttpImage = {fwA}
  BeginSizes = {0}
  HttpSizes = {0, 2}
  Image = {fw0, fwA, fwB}
  Factory = fw0
  ImageLen = 2
  NumPart = 2
  Cap = 2
  MaxHandle = 2
  MaxFw = 2
  NoPart = NoPart
  Blank = Blank
  Garbage = Garbage
  Faults = {"malloc", "begin", "write", "setboot", "read", "task"}
SPECIFICATION OtaSpec
INVARIANTS OneUpdateAtATime
