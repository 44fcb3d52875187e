SPECIFICATION Spec
CONSTANTS
  u1 = u1
  u2 = u2
  s1 = s1
  k1 = k1
  Tasks = {u1, s1, k1}
  Cands = {c1}
  Mems = {m1, m2}
  Timed = {m1}
  Lane <- Lanes4
  Offered <- Verifies
  MaxEvents = 4
  MaxStops = 1
INVARIANT DriftIsCaught
INVARIANT NothingGoneInjected
