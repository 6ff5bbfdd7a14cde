SPECIFICATION Spec
CONSTANTS
  MaxAttempts = 2
  Erased = Erased
  Garbage = Garbage
  NoRecord = NoRecord
INVARIANTS
  TypeOK
  AcknowledgedRequestStays
  ActiveIsRunning
  OkMeansStored
PROPERTIES
  CellSpec
