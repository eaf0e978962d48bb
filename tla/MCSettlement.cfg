SPECIFICATION SettlementSpec
CONSTANTS
  Home = Home
  Remote = Remote
  Dead = Dead
  ea = ea
  eb = eb
  n1 = n1
  n2 = n2
  p1 = p1
  p2 = p2
  a1 = a1
  a2 = a2
  a3 = a3
  b2 = b2
  b3 = b3
  s1 = s1
  s2 = s2
  core = core
  game = game
  grantKey = grantKey
  grant = grant
  child = child
  mine = mine
  blob = blob
  other = other
  NoOne = NoOne
  None = None
  NoHead = NoHead
  Drainer = {p1, p2}
  Row = {1, 2, 3}
  Own = Home
  Batch = {y1, y2}
  DRAIN_BATCH_SIZE = 2
  WitnessedEntry = {ea, eb}
  MaxCrashes = 1
  MirrorEntry = {a1, a2, a3, b2, b3}
  seq <- Labels
  ProjectedShard = {core, game}
  event_id <- OwnIds
  identity <- Identities
  KeyEvent = {grantKey}
  Invalid = {}
  Focused = {"outbox", "witness", "mirror", "projection"}
  Shard = {1, 2}
  Authority <- Authorities
  shard_id_for_event <- TwoRemote
  txOf <- OneTransaction
  target_for_shard <- TwoTargets
  Unparseable = {}
  Down = {}
  OutboxFaults = {"timeout", "unanswered", "update", "disconnect", "crash"}
  Node = {n1}
  WitnessProc = {p1, p2}
  node <- TwoWitnessProcesses
  SignedHead <- EarlyFork
  Colluding = {}
  WitnessFaults = {"storage"}
  Source = {s1, s2}
  MirrorProc = {p1}
  SourceHead <- LateFork
  Fickle = {s1}
  Discards = {TRUE, FALSE}
  MirrorFaults = {"held"}
  MaxResolves = 1
  ProjectedEntry = {grantKey, grant, other, child}
  log <- ThreeLogs
  keys <- RestNeeds
  parent <- GrantNeeds
  Undecodable = {}
  ProjectionFaults = {"transient", "storage", "restart"}
  MAX_DEFERRED_PER_SHARD = 2
INVARIANTS
  TransactionOrder
  OneRootPerSize
  ConflictsAreFound
  NoEntryForgotten
