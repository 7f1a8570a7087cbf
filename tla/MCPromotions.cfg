SPECIFICATION Spec
CONSTANTS
  p1 = p1  p2 = p2  a = a  b = b  o1 = o1  o2 = o2  k1 = k1  r1 = r1  r2 = r2
  Promos = {p1, p2}
  Percent = {p1}
  Value <- MCValue
  MaxDiscount <- MCMaxDiscount
  Targets <- MCTargets
  MinOrder <- MCMinOrder
  Stackable = {p1, p2}
  NoLimit = noLimit
  Items = {a, b}
  Prices = {1, 3}
  Qtys = {1}
  MaxLines = 2
  Offs = {0, 1}
  OrderOffs = {0, 2}
  Limits <- MCLimits
  Caps <- MCCaps
  Orders = {o1, o2}
  Customers = {k1}
  WalkIn = walkIn
  Requests = {r1, r2}
CHECK_DEADLOCK FALSE
SYMMETRY Symmetry
INVARIANT SaleHonoursQuote
PROPERTY CustomerWithinCap
