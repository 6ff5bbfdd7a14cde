SPECIFICATION Spec
CONSTANTS
  RingSize = 7
  ReadMax = 8
  DmaSize = 8
  Magic = 7
  Comma = 5
  Digit0 = 0
  MaxFaults = 1
  Sessions <- MCSessions
  UsrPrefix <- MCUsrPrefix
  NoByte <- MCNoByte
INVARIANTS
  TypeOK
  ExecutedOnceInOrder
  CleanLineExecutesAll
  DamageIsBounded
PROPERTIES
  RingIsQueue
CHECK_DEADLOCK FALSE
