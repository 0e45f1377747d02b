SPECIFICATION Spec
CONSTANTS
  Users = {u1, u2}
  Handlers = {k1, k2}
  Hexes = {h1, h2}
  Agents = {a1, a2, a3}
  Sigs = {s1, f1, f2}
  FakeSigs = {f1, f2}
  Null = Null
  MAX_AGENTS_PER_USER = 1
  MAX_AGENTS_PER_HEX = 1
  MaxIndex = 3
  MaxRestarts = 1
INVARIANTS TypeOK OverrunBounded AnswerKept NoHalfAgents
PROPERTIES AgentPromiseSpec
SYMMETRY Alike
CHECK_DEADLOCK FALSE
