SPECIFICATION Spec
CONSTANTS
  c1 = c1
  c2 = c2
  c3 = c3
  l1 = l1
  l2 = l2
  o1 = o1
  o2 = o2
  q1 = q1
  q2 = q2
  Customers = {"ana"}
  Carts = {c1, c2, c3}
  NoCart = NoCart
  Lines = {l1}
  NoLine = NoLine
  Orders = {o1, o2}
  NoOrder = NoOrder
  MaxQuantity = 1
  Benefit = "discount"
  UsageLimit = 1
  PerUserLimit = 1
  Requests = {q1, q2}
  Work = {"add", "checkout", "verify", "promotion"}
SYMMETRY Interchange
PROPERTY IsATill
INVARIANTS
  CheckoutInv
  ActiveCartsBounded
  PaymentsBounded
CHECK_DEADLOCK FALSE
