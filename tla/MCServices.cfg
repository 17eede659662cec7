SPECIFICATION ServicesSpec
CONSTANTS
  a1 = a1
  a2 = a2
  b1 = b1
  b2 = b2
  c1 = c1
  c2 = c2
  k1 = k1
  k2 = k2
  k3 = k3
  p1 = p1
  p2 = p2
  u1 = u1
  u2 = u2
  PayIds = {a1, a2}
  PayProcs = {p1, p2}
  PayNoId = PayNoId
  PayAmount = 2
  PayMoves = 2
  VerCalls = {k1, k2, k3}
  VerMax = 2
  VerBound = 5
  InProcs = {p1, p2}
  InMoves = 3
  SbLoop = SbLoop
  SbReqs = {p1}
  SbTrial = 1
  SbClock = 4
  SbMoves = 2
  IvProcs = {1, 2}
  IvClock = 4
  IvCredits = {1, 2}
  IvPence = 1
  IvCalls = 1
  IvMoves = 1
  StReqs = {p1, p2}
  StTtl = 1
  StClock = 2
  StMoves = 3
  BkBookings = {b1, b2}
  BkCalendars = {c1, c2}
  BkSlots = {1, 2}
  BkReqs = {p1, p2}
  BkNone = BkNone
  BkMoves = 3
  RmOffsets = 2
  RmReqs = {p1, p2}
  RmMoves = 3
  TrMax = 3
  AdCalls = {k1, k2}
  AdLimit = 1
  AdRestarts = 1
  SuUsers = {u1, u2}
  SuReqs = {p1, p2}
  SuNobody = SuNobody
  SuMoves = 2
  SuRestarts = 1
  ApOwners = {p1, p2}
  ApMoves = 3
  SlDay = 6
  SlOpen = 1
  SlClose = 5
  SlLimit = 3
  SlClock = 1
INVARIANTS
  ServicesTypeOK
  PaymentAgrees
  RefundsAgree
  OneOpenLink
  AnswersBounded
  HumanKeepsThread
  TicketsAgree
  TrialEndsInOrder
  DecisionsStand
  CallsGetRecentConfig
  CallsBilledOnce
  BookingsAgree
  RemindersHeed
  CallerNotStranded
  TrunkWithinLimit
  SupervisorAgrees
  ApprovalStands
  SlotsAgree
VIEW ServicesView
CHECK_DEADLOCK FALSE
