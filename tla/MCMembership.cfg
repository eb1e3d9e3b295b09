SPECIFICATION Spec
CONSTANTS
  User = {u1, u2}
  Project = {p1, p2}
  Worker = {w1, w2}
  None = None
SYMMETRY Symmetry
INVARIANTS MembersExist OwnerIsCreator
PROPERTY OwnerLostByAdminsOnly
