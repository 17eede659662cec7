SPECIFICATION Spec
CONSTANTS
  j1 = j1
  j2 = j2
  ph1 = ph1
  r1 = r1
  h1 = h1
  h2 = h2
  Jobs = {j1}
  Phones = {ph1}
  PhoneOf <- OneNumber
  LeadJobs = {}
  Deadlined = {}
  MaxAttempts = 2
  DailyCap = 2
  Loop = Loop
  Requests = {}
  Handlers = {h1}
  NoJob = NoJob
  Spoken = {}
  MaxDials = 2
  MaxWorkers = 2
  Fallible = {}
  MaxFaults = 0
PROPERTIES
  ExpiresOnlySilentDials
CHECK_DEADLOCK FALSE
