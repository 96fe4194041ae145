\* A buffer of eight bytes.
CONSTANTS
  Sends <- MCSends
  Receives <- MCReceives
  Answers <- MCAnswers
  Lengths <- MCLengths
  Topics <- MCTopics
  BufferSize = 8
SPECIFICATION StreamSpec
INVARIANTS WholePacket FramesInOrder OnlyWellFormed LengthExact TopicMatches
PROPERTIES AllRead
CHECK_DEADLOCK FALSE
