SPECIFICATION Spec
CONSTANTS
  b1 = b1
  b2 = b2
  b3 = b3
  t1 = t1
  q1 = q1
  q2 = q2
  Bookings = {b1, b2, b3}
  Tables = {t1}
  NoTable = NoTable
  Slots = {"evening"}
  MaxGuests = 2
  Requests = {q1, q2}
  NewStatuses = {"confirmed"}
  Edits = {"status"}
SYMMETRY Interchange
INVARIANTS
  OverbookingInv
  OverbookingBounded
  
  
CHECK_DEADLOCK FALSE
