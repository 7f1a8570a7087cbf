SPECIFICATION PlanSpec
CONSTANTS
  basic = basic  trial = trial  r1 = r1  r2 = r2
  Plans = {basic}
  Trial = trial
  Days <- MCDays
  Quota <- MCQuota
  Grace = 1
  Horizon = 3
  MaxRows = 1
  MaxInvoices = 2
  MaxGrants = 1
  Callers = {r1, r2}
CHECK_DEADLOCK FALSE
INVARIANTS ExpiredMeansOver QuotaOverrunIsBounded
PROPERTIES RenewalNeverShortens OverEnds
