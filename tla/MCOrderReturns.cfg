SPECIFICATION Spec
CONSTANTS
  l1 = l1
  l2 = l2
  d1 = d1
  d2 = d2
  d3 = d3
  r1 = r1
  r2 = r2
  Lines = {l1, l2}
  NLots = 2
  MaxQty = 2
  Drawn <- MCDrawn
  Sold <- MCSold
  Returns = {d1, d2, d3}
  Requests = {r1, r2}
CHECK_DEADLOCK FALSE
SYMMETRY Symmetry
INVARIANTS UnitsComeBackOnce ReturnedIsAllBack BillCoversWhatIsKept
