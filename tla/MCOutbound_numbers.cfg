SPECIFICATION Spec
CONSTANTS
  j1 = j1
  j2 = j2
  ph1 = ph1
  r1 = r1
  h1 = h1
  h2 = h2
  Jobs = {j1, j2}
  Phones = {ph1}
  PhoneOf <- OneNumber
  LeadJobs = {}
  Deadlined = {}
  MaxAttempts = 1
  DailyCap = 1
  Loop = Loop
  Requests = {r1}
  Handlers = {}
  NoJob = NoJob
  Spoken = {}
  MaxDials = 2
  MaxWorkers = 0
  Fallible = {}
  MaxFaults = 1
INVARIANTS
  DialsBounded
SYMMETRY JobSymmetry
