SPECIFICATION ClientSpec
CONSTANTS
  wA = wA
  wB = wB
  a1 = a1
  a2 = a2
  Wallets = {wA, wB}
  AdminWallets = {wA}
  NoWallet = NoWallet
  tA = tA
  TestWallets = {tA}
  Logins = {1, 2}
  MaxSurprises = 3
  MaxVeins = 2
  VeinHex <- SameHex
  MaxFronts = 1
  MaxRushes = 1
  MaxWire = 1
  MaxDrops = 1
  Agents = {a1, a2}
  NoAgent = NoAgent
  RELOCATE_COOLDOWN = 2
  Launch = 4
  ClockErrors <- MoveClocks
  MaxMoves = 2
  MaxFeed = 1
  MaxTurns = 3
  Flows = {1, 2}
  MAX_RETRIES = 2
  ToastIds = {1, 2, 3, 4, 5, 6}
  MaxMishaps = 1
  PHASE_ORDER <- Order
  PHASE_DURATIONS <- Durations
  Skews <- SkewSet
  MaxAge = 1
  MaxSnapAge = 2
  MaxFlaws = 1
  sA = sA
  sB = sB
  h1 = h1
  h2 = h2
  f1 = f1
  f2 = f2
  Surveyors = {sA, sB}
  NoSurveyor = NoSurveyor
  Seeded = {h1}
  Unseeded = {h2}
  Loads = {1}
  MaxGlitches = 1
  Tiles = {h1, h2}
  Beyond = Beyond
  Deep = {h1}
  MaxClicks = 3
  Land <- LandSet
  CHUNK_SIZE = 20
  CameraSpots = {"near", "far"}
  HomeSpot = "near"
  Distance <- ChunkDistance
  Frustum <- Sight
  Radius <- ChunkRadius
  Widths = {600, 768, 900}
  CoreCounts = {4, 8}
  MaxWorks = 3
  Figures = {f1, f2}
  Spots = {"h1", "h2"}
  ChunkAt <- SpotChunk
  Standpoints = {"p1", "p2"}
  FigureDistance <- SpotDistance
  CLUSTER_THRESHOLD = 100
  DEPLOY_TRAUMA = 2
  MaxTrauma = 3
  MaxScenes = 2
  MaxShell = 2
  Cardholders = {wA, wB}
  NoHolder = NoHolder
  Gets = {1, 2}
  TARGET = 2
  MaxCardDays = 2
  MaxRoom = 2
  MaxHitches = 2
  Viewers = {wA, wB}
  NoViewer = NoViewer
  Fetches = {1, 2}
  MaxTurmoil = 4
INVARIANT ClientTypeOK
INVARIANT LoginIsHonest
INVARIANT SocketFollowsSession
INVARIANT RailIsTrue
INVARIANT OneMoveAtATime
INVARIANT PaidFlowIsSafe
INVARIANT SurveysAreKept
INVARIANT WorldIsDrawn
INVARIANT PageWakes
INVARIANT CardIsTrue
PROPERTY PageHoldsStill
PROPERTY PageCatchesUp
ACTION_CONSTRAINT FirstOfAlikes
CHECK_DEADLOCK FALSE
