SPECIFICATION SchemaSpec
CONSTANTS
  Id = {i1, i2, i3, i4}
  Text = {t1, t2}
  None = None
SYMMETRY Symmetry
INVARIANTS TriggersKeepSync
PROPERTIES UpgradeKeepsContent
