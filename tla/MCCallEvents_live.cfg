CONSTANTS
  Calls = {c1}
  Asking = {}
  Consumer = consumer
  Handlers = {h1}
  NoEvent = NoEvent
  RecentLimit = 1
  MaxCloses = 1
  MaxDetours = 2
  MaxFaults = 0
SPECIFICATION LiveSpec
CHECK_DEADLOCK FALSE
PROPERTIES
  EndSettles
