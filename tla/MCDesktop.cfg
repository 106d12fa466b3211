SPECIFICATION MCSpec
CONSTANTS
  Clients = {p, q}
  Values = {v, w}
  Ends = {"stored", "refused", "torn", "dies"}
  MaxSteps = 5
  Rooms = {r1}
  Names = {a, b}
  MaxOps = 4
SYMMETRY Symmetry
INVARIANTS
  ConfAgrees
  MirrorFaithful
  HooksMatchViews
CHECK_DEADLOCK FALSE
