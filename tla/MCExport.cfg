SPECIFICATION Spec
CONSTANTS
  g1 = g1
  d1 = d1
  d2 = d2
  x1 = x1
  e1 = e1
  Goal = {g1}
  Decision = {d1, d2}
  Experiment = {x1}
  Note = {n1}
  Event = {e1}
  Link = {k1}
  Archive = {a}
  Page = {p}
  Graph = {g}
  Start <- Projects
  MaxWrites = 4
  MaxRequests = 1
  None = None
INVARIANTS DanglingIsNew
PROPERTIES SupersededUntilUnlinked ArchivesAreAtomic
CHECK_DEADLOCK FALSE
