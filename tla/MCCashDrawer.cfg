SPECIFICATION Spec
CONSTANTS
  s1 = s1  s2 = s2  r1 = r1  r2 = r2
  Staff = {s1, s2}
  Days = 2
  Amounts <- MCAmounts
  Float = 1
  MaxFlows = 2
  MaxLogs = 4
  Requests = {r1, r2}
SYMMETRY Symmetry
CHECK_DEADLOCK FALSE
INVARIANTS ChainOfCustody AccountsAgree
