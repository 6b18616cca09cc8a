SPECIFICATION ProgressSpec
CONSTANTS
  o1 = o1
  r1 = r1
  r2 = r2
  r3 = r3
  q1 = q1
  q2 = q2
  Orders = {o1}
  Riders = {r1, r2}
  NoRider = NoRider
  Requests = {q1, q2}
  Tier <- MCPrivateAndPlatform
  Access = {r1}
  PrivateOnly = {}
  MaxRound = 2
  MaxCredits = 1
  ExpiryTaskRuns = TRUE
  MayAbort = FALSE
  Handlers = {"to_preparing", "accept_offer", "release"}
  Pushes = {e1, e2}
  Web = {w1}
  Fcm = {f1}
  MaxRetries = 1
  Publishers = {b1, b2}
  Sockets = {s1}
  MaxLinks = 3
PROPERTIES
  
  BusComesBack
  OfferLifecycle
  
  NeverForgotten
CHECK_DEADLOCK FALSE
