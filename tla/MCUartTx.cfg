SPECIFICATION Spec
CONSTANTS
  BufferSize = 2
  FifoSize = 2
  Lengths <- MCLengths
  MaxSends = 3
INVARIANTS
  TypeOK
  QueueInOrder
  NothingLostNorTwice
  FlagFollowsTransmitter
PROPERTIES
  FifoFollowsTransmission
CHECK_DEADLOCK FALSE
