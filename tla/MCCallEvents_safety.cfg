CONSTANTS
  Calls = {c1}
  Asking = {}
  Consumer = consumer
  Handlers = {h1}
  NoEvent = NoEvent
  RecentLimit = 1
  MaxCloses = 1
  MaxDetours = 2
  MaxFaults = 1
SPECIFICATION Spec
CHECK_DEADLOCK FALSE
INVARIANTS
  TypeOK
  AnalysedOnce
  NoZombie
  RecordIsFold
  BoardMatchesRecord
  TextsBounded
PROPERTIES
  LedgerImplemented
