\* Three messages out (one QoS 1) over two or three slots and three
\* identifiers, two in over one slot; two connections lost, one session
\* forgotten.
CONSTANTS
  Out = {1, 2, 3}
  In = {11, 12}
  Qos1 = {2, 12}
  Slots <- MCSlots
  InCount = 1
  MaxId = 3
  InIds = {1, 2}
  MaxDrops = 2
  MaxExpiry = 1
SPECIFICATION QosFairSpec
INVARIANTS ExactlyOnce AckedMeansDelivered RecordsCoverSession FirstInOrder
PROPERTIES SessionCompletes
CHECK_DEADLOCK FALSE
