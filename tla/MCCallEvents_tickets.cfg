CONSTANTS
  Calls = {c1}
  Asking = {c1}
  Consumer = consumer
  Handlers = {h1}
  NoEvent = NoEvent
  RecentLimit = 1
  MaxCloses = 0
  MaxDetours = 1
  MaxFaults = 0
SPECIFICATION Spec
CHECK_DEADLOCK FALSE
INVARIANTS
  TicketOnce
