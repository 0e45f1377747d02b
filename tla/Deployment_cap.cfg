SPECIFICATION Spec
CONSTANTS
  Users = {u1}
  Handlers = {k1, k2}
  Hexes = {h1, h2}
  Agents = {a1, a2}
  Sigs = {s1, s2}
  FakeSigs = {}
  Null = Null
  MAX_AGENTS_PER_USER = 1
  MAX_AGENTS_PER_HEX = 1
  MaxIndex = 3
  MaxRestarts = 0
INVARIANT CapRespected
CHECK_DEADLOCK FALSE
