SPECIFICATION Spec
CONSTANTS
  Experiment = {x1}
  Event = {e1}
  Goal = {g1}
  Decision = {d1}
  Worker = {w1, w2}
  MaxTime = 2
  None = None
SYMMETRY Symmetry
INVARIANTS EndsAfterItStarts NothingDangles
PROPERTIES GoneIsGone StartLostToStaleRead
