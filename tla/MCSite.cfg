SPECIFICATION Spec
CONSTANTS
  g1 = g1
  d1 = d1
  d2 = d2
  x1 = x1
  n1 = n1
  n2 = n2
  t1 = t1
  t2 = t2
  s1 = s1
  s2 = s2
  h1 = h1
  h2 = h2
  Goal = {g1}
  Decision = {d1, d2}
  Experiment = {x1}
  Note = {n1, n2}
  Title = {t1, t2}
  Slug <- Slugs
  IdHead <- Heads
  Start <- Projects
  MaxChanges = 2
  MaxExports = 2
  Stops = {0, 3, 5}
  None = None
INVARIANTS TypeOK TreeIsClosed ArchivePacks CrossReferencesAgree
PROPERTIES PagesKeepTheirSubject
CHECK_DEADLOCK FALSE
