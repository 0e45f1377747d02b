SPECIFICATION Spec
CONSTANTS
  a1 = a1
  a2 = a2
  o1 = o1
  o2 = o2
  o3 = o3
  r1 = r1
  r2 = r2
  Nil = Nil
  Keep = Keep
  Agents = {a1}
  Hexes = {0, 1}
  DeepHexes = {0}
  Ore = {o1, o2}
  Vein <- Vein2
  Home <- SoloHome
  Uncached = {a1}
  Reqs = {r1}
  OneAtATime = TRUE
  Ops = {"relocate", "rescue", "repair"}
  Faults = {"crash", "redis", "exit"}
  MaxPerHex = 2
  MaxWear = 0
  FlushInterval = 2
  TickCap = 2
  MaxLives = 3
INVARIANT NeverCreditedTwice
INVARIANT QuietExitDurable
