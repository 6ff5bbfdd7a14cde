SPECIFICATION FairSpec
CONSTANTS
  RegSize = 256
  MaxBuffer = 7
  MinFrame = 3
  OwnId = 1
  MaxWrites = 2
  MaxUpsets = 2
  Scripts <- MCScripts
INVARIANTS
  TypeOK
  BankBound
  TimesStayPaired
  UpsetsSpoilFew
PROPERTIES
  RequestsAnswered
CHECK_DEADLOCK FALSE
