CONSTANTS
  Calls = {c1}
  Asking = {}
  Consumer = consumer
  Handlers = {h1}
  NoEvent = NoEvent
  RecentLimit = 1
  MaxCloses = 1
  MaxDetours = 1
  MaxFaults = 0
SPECIFICATION Spec
CHECK_DEADLOCK FALSE
INVARIANT TextNeverRepeated
