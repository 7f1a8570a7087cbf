SPECIFICATION Spec
CONSTANTS
  l1 = l1
  l2 = l2
  s1 = s1
  s2 = s2
  r1 = r1
  r2 = r2
  Lines = {l1, l2}
  MaxQty = 2
  Stock <- MCStock
  Ships = {s1, s2}
  MaxPays = 3
  Totals = {1, 2, 3}
  Types = {"HOME_DELIVERY"}
  Deposit = 1
  OverPay = 1
  Requests = {r1, r2}
  Ops <- DeliveryOps
CHECK_DEADLOCK FALSE
SYMMETRY Symmetry
INVARIANTS GoodsMatchStatus ShipmentFollowsOrder BooksMatchMoney CustomerPaysOnce
PROPERTIES LifecycleSpec
