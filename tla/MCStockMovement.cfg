SPECIFICATION MovementSpec
CONSTANTS
  wh = wh  br = br  d1 = d1  r1 = r1  r2 = r2
  Locations = {wh, br}
  Opening <- MCOpening
  Docs = {d1}
  Types = {"TRANSFER", "IMPORT", "ADJUST"}
  MaxMoved = 2
  MaxLots = 5
  MaxEdits = 1
  Clerks = {r1, r2}
SYMMETRY Symmetry
CHECK_DEADLOCK FALSE
INVARIANTS StockIsSound DebtFollowsGoods DocumentAccountsForGoods
