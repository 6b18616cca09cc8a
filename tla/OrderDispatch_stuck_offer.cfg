SPECIFICATION FairSpec
CONSTANTS
  o1 = o1
  r1 = r1
  r2 = r2
  r3 = r3
  q1 = q1
  q2 = q2
  Orders = {o1}
  Riders = {r1, r2}
  NoRider = NoRider
  Requests = {q1, q2}
  Tier <- MCPrivateAndPlatform
  Access = {r1}
  PrivateOnly = {}
  MaxRound = 1
  MaxCredits = 1
  ExpiryTaskRuns = FALSE
  MayAbort = FALSE
  Handlers = {"to_preparing", "accept_offer"}
PROPERTIES
  LapsedResolved
CHECK_DEADLOCK FALSE
