SPECIFICATION FairSpec
CONSTANTS
  Title = {t1}
  Context = {c1}
  OptionId = {o1}
  Rationale = {blank, why}
  Blank = blank
  None = None
  Decision = {d1}
  Worker = {w1, w2}
  MaxRevisions = 3
INVARIANTS HistoryDescribesRow ChosenIsDated
PROPERTIES HistoryIsAtomic RequestsAnswered LockReleased
