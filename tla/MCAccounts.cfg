SPECIFICATION Spec
CONSTANTS
  User = {u1, u2}
  Token = {k1, k2}
  Worker = {w1, w2}
  None = None
SYMMETRY Symmetry
INVARIANTS SessionsAreApproved
PROPERTIES SetupCreatesTheAdmin ApprovedGoOnlyByDelete LastAdminLostToStaleRead
