SPECIFICATION Spec
CONSTANTS
  p1 = p1
  g1 = g1
  n1 = n1
  x1 = x1
  d1 = d1
  blank = blank
  t1 = t1
  t2 = t2
  u1 = u1
  Record = {p1, g1, n1, x1, d1}
  KindOf <- Kinds
  Text = {blank, t1, t2}
  Blank = blank
  User = {u1}
  None = None
  Start <- Tables
  Asked <- Requests
  Worker = {w1, w2}
  MaxRequests = 3
INVARIANTS TypeOK HistoryDescribesNote ExtractsQuote
PROPERTIES OnlySentOrMissed
SYMMETRY Symmetry
CHECK_DEADLOCK FALSE
