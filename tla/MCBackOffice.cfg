SPECIFICATION MCSpec
CONSTANTS
  an = an  binh = binh  shop = shop  r1 = r1  r2 = r2
  k1 = k1  k2 = k2  night = night
  n1 = n1  n2 = n2  c1 = c1
  i1 = i1  i2 = i2  b1 = b1  b2 = b2
  Employees = {an, binh}
  Places = {shop}
  None = None
  Sessions = {k1, k2}
  clerk = clerk  chief = chief
  Roles = {clerk, chief}
  BaseRights = {"profile:read"}
  TemporaryRights = {"stock_movement:approve"}
  Grants <- MCGrants
  StaffShifts <- MCStaffShifts
  Site = shop
  Moments = {0, 8, 13}
  Requests = {r1, r2}
  Scopes <- MCScopes
  Templates = {night}
  Hours <- MCHours
  DayLength = 4
  Days = {1, 2}
  Types = {"NORMAL", "OVERTIME"}
  Groups <- MCGroups
  Shifts = {k1, k2}
  Shops = {k1, k2}
  Numbers = {n1, n2}
  Codes = {c1}
  Sales = {k1, k2}
  SaleKinds <- MCSaleKinds
  Asked = {None, b1}
  Moves = {"SHIPPING", "COMPLETED"}
  Costs = {None, 1}
  Rows <- MCRows
  Levels <- MCLevels
  MinStock = 1
  Threshold = 2
  AgingDays <- MCAgingDays
  ListLimit = 1
  LowLimit = 1
  Limits = {1, 2}
  Starts <- MCStarts
  Horizon = 3
  p1 = p1
  Customers = {k1, k2}
  Phones = {p1}
  CodeNumbers = {1, 2}
  Categories = {k1, k2, i1}
  Labels = {"NEW", "SALE"}
  MaxDepth = 2
  Variants = {i1, i2, b1}
  Attributes = {1, 2}
  Marks = {1}
  Suppliers = {k1, k2}
  Imports = {i1}
  Sums = {1}
  Orders = {1, 2, 3}
  OrderKinds <- MCOrderKinds
  Edits <- MCEdits
  OnShelf <- MCOnShelf
  Today = 4
  DueSoonDays = 1
  Never = 1000
  Queries <- MCQueries
  MaxCodes = 2
  Dates = {1, 2}
  Holidays = {k1, k2}
  Tickets = {i1}
CHECK_DEADLOCK FALSE
SYMMETRY Symmetry
INVARIANTS OldSessionsEnd ManagerStands NobodyTwiceAtOnce TransfersFindTheShop FiguresAgree RightsComeFromOwner RecordsHold ListsAreRight
PROPERTY HandledByItsPeople
