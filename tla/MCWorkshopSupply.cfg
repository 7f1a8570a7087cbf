SPECIFICATION SupplySpec
CONSTANTS
  o1 = o1  o2 = o2  q1 = q1  q2 = q2  u1 = u1  u2 = u2
  Std = Std
  Orders = {o1, o2}
  RequestIds = {q1}
  MaxOwn = 1
  OrderQtys = {1}
  RequestQtys = {2}
  ReceiptQtys = {1}
  AtStart = 0
  Users = {u1, u2}
CHECK_DEADLOCK FALSE
SYMMETRY Symmetry
INVARIANTS CoveredPlanShips MadeToMeasureFits OpenedShortageIsTold
