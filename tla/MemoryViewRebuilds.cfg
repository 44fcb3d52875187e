SPECIFICATION Spec
CONSTANTS
  u1 = u1
  u2 = u2
  s1 = s1
  k1 = k1
  Tasks = {u1, u2, s1}
  Cands = {c1, c2}
  Mems = {m1, m2}
  Timed = {m1}
  Lane <- Lanes4
  Offered <- Rebuilds
  MaxEvents = 4
  MaxStops = 0
SYMMETRY Symmetry
INVARIANT DriftIsKnown
