SPECIFICATION SaleSpec
CONSTANTS
  o1 = o1  o2 = o2  t1 = t1  t2 = t2  r1 = r1  r2 = r2  none = none
  Orders = {o1, o2}
  Due = 2
  Tenders = {0, 1, 3}
  OnShelf = 1
  Transfers = {t1}
  Brought = {1, 2, 3}
  For <- MCForOne
  NoTransfer = none
  Calls = {r1, r2}
  MaxAgain = 1
CHECK_DEADLOCK FALSE
INVARIANT SaleAddsUp
PROPERTIES TransferSettlesSale
