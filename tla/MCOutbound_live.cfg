SPECIFICATION FairSpec
CONSTANTS
  j1 = j1
  j2 = j2
  ph1 = ph1
  r1 = r1
  h1 = h1
  h2 = h2
  Jobs = {j1}
  Phones = {ph1}
  PhoneOf <- OneNumber
  LeadJobs = {j1}
  Deadlined = {}
  MaxAttempts = 2
  DailyCap = 2
  Loop = Loop
  Requests = {}
  Handlers = {h1}
  NoJob = NoJob
  Spoken = {"opt_out", "wrong_number"}
  MaxDials = 2
  MaxWorkers = 1
  Fallible = {Loop, h1}
  MaxFaults = 1
PROPERTIES
  EveryCallSettles
  OutcomeActedOn
CHECK_DEADLOCK FALSE
