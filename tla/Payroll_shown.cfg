SPECIFICATION PayrollSpec
CONSTANTS
  Staff = {r1, r2}
  MaxSalary = 1
  Clerks = {h1}
INVARIANTS
  ShownIsActionable
CHECK_DEADLOCK FALSE
