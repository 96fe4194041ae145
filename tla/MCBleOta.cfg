\* Two clients, two uploads, a two-slot queue, start commands the device may misread.
CONSTANTS
  alice = alice
  bob = bob
  fwA = fwA
  fwB = fwB
  Client = {alice, bob}
  NoClient = NoClient
  ImageOf <- MCImageOf
  QueueLen = 2
  StartBytes = {"START", "FINISH", "other"}
  MaxUploads = 2
  Passive = passive
  Http = {}
  Ctx = {passive}
  BleImage = fwA
  HttpImage = {}
  BeginSizes = {0}
  HttpSizes = {}
  Image = {fw0, fwA, fwB}
  Factory = fw0
  ImageLen = 2
  NumPart = 2
  Cap = 3
  MaxHandle = 1
  MaxFw = 0
  NoPart = NoPart
  Blank = Blank
  Garbage = Garbage
  Faults = {"begin", "write", "end", "setboot"}
SPECIFICATION BleFairSpec
INVARIANTS FlashMirrorsSession
PROPERTIES InstallsWhatOpened QueueDrains
