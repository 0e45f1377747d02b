SPECIFICATION ServerSpec
CONSTANTS
  r1 = r1
  r2 = r2
  g1 = g1
  g2 = g2
  p1 = p1
  c1 = c1
  c2 = c2
  MaxDay = 2
  Requests = {r1, r2}
  CONTRACT_BASE_TARGET = 2
  MaxAgents = 1
  MaxAmount = 2
  MaxMined = 3
  MaxFaults = 2
  Players = {p1}
  RUSH_INTERVAL = 4
  RUSH_DURATION = 1
  GOLD_RUSH_BOOST_MS = 2
  RUSH_TARGET_MIN = 2
  RUSH_TARGET_PER_AGENT = 2
  MaxTime = 5
  MaxYield = 1
  MaxMiners = 1
  MaxTroubles = 2
  Trajectories <- Paths
  Plots <- PlotSet
  MAX_FRONTS = 2
  DESPAWN_BOUND_RADIUS = 2
  VEIN_LIFESPAN = 2
  ClockErrors <- BrowserErrors
  MaxMinutes = 3
  MaxMisfortunes = 2
  Readers = {r1, r2}
  MaxEdits = 3
  MaxSlips = 1
  Closers = {c1, c2}
  Gamers = {g1, g2}
  Ordinal <- WalletOrder
  PageUser = g1
  DOUBLE_CLOSE_GUARD = 2
  MaxScore = 1
  MaxDate = 2
  Shares <- EachShare
  HashOrder <- LeafOrder
  Snapshots <- EachSnapshot
INVARIANT ServerTypeOK
INVARIANT ContractBooks
INVARIANT RushIsFair
INVARIANT SkyIsOne
INVARIANT PauseHolds
INVARIANT BoardIsSound
INVARIANT ProofsVerify
PROPERTY ServerCatchesUp
CHECK_DEADLOCK FALSE
