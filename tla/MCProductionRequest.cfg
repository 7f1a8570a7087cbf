SPECIFICATION Spec
CONSTANTS
  l1 = l1
  l2 = l2
  d1 = d1
  d2 = d2
  r1 = r1
  r2 = r2
  Lines = {l1, l2}
  MaxQty = 2
  Notes = {d1, d2}
  CreditLimit = 2
  Requests = {r1, r2}
CHECK_DEADLOCK FALSE
SYMMETRY Symmetry
INVARIANTS NoteCountedOnce StatusShowsReceipts
PROPERTIES AgreementSpec
