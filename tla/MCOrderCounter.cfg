SPECIFICATION FairSpec
CONSTANTS
  l1 = l1  l2 = l2  s1 = s1  s2 = s2  r1 = r1  r2 = r2
  Lines = {l1}
  MaxQty = 1
  Stock <- MCStock
  Ships = {s1, s2}
  MaxPays = 2
  Totals = {3}
  Types = {"HOME_DELIVERY", "STORE_PICKUP"}
  Deposit = 1
  OverPay = 1
  Requests = {r1, r2}
  Ops <- AllOps
CHECK_DEADLOCK FALSE
INVARIANT PickupEndsClean
PROPERTIES TransferIsBooked
