SPECIFICATION Spec
CONSTANTS
  f1 = f1
  f2 = f2
  p1 = p1
  p2 = p2
  n1 = n1
  n2 = n2
  t1 = t1
  t2 = t2
  None = None
  Drifted = Drifted
  Rests = {t1, t2}
  Fixtures = {f1, f2}
  Runtimes = {p1, p2}
  Normals = {n1, n2}
  MaxInstalls = 2
  MaxEdits = 2
  MaxDrifts = 1
SYMMETRY Symmetry
INVARIANT IInv
INVARIANT WriteAhead
INVARIANT OperatorConfigKept
INVARIANT Resumable
PROPERTY ForeignKept
CHECK_DEADLOCK FALSE
