SPECIFICATION Spec
CONSTANTS
  o1 = o1
  r1 = r1
  r2 = r2
  r3 = r3
  q1 = q1
  q2 = q2
  Orders = {o1}
  Riders = {r1, r2}
  NoRider = NoRider
  Requests = {q1, q2}
  Tier <- MCPrivateAndPlatform
  Access = {r1}
  PrivateOnly = {}
  MaxRound = 1
  MaxCredits = 1
  ExpiryTaskRuns = FALSE
  MayAbort = TRUE
  Handlers = {"to_preparing", "cancel_order", "claim", "accept_offer", "release", "delivered"}
SYMMETRY SlotSymmetry
VIEW View
INVARIANTS
  AssignmentStamped
  StatusStamped
  AuditTruthful
  SettledAfterDelivery
PROPERTIES
  IsABoard
CHECK_DEADLOCK FALSE
