SPECIFICATION Spec
CONSTANTS
  o1 = o1
  r1 = r1
  r2 = r2
  r3 = r3
  q1 = q1
  q2 = q2
  Orders = {o1}
  Riders = {r1, r2, r3}
  NoRider = NoRider
  Requests = {q1, q2}
  Tier <- MCPrivateTeam
  Access = {r1, r2}
  PrivateOnly = {o1}
  MaxRound = 1
  MaxCredits = 1
  ExpiryTaskRuns = TRUE
  MayAbort = FALSE
  Handlers = {"to_preparing", "to_cancelled", "to_delivered", "cancel_order", "assign_rider", "accept_offer", "reject_offer", "picked_up", "release", "delivered"}
SYMMETRY SlotSymmetry
INVARIANTS
  WholeInv
  
  ViewsAgree
PROPERTIES
  ShownForward
  RefusalsKept
CHECK_DEADLOCK FALSE
