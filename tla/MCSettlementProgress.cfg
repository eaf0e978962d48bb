SPECIFICATION FairSettlementSpec
CONSTANTS
  Home = Home
  Remote = Remote
  Dead = Dead
  ea = ea
  eb = eb
  n1 = n1
  n2 = n2
  p1 = p1
  p2 = p2
  a1 = a1
  a2 = a2
  a3 = a3
  b2 = b2
  b3 = b3
  s1 = s1
  s2 = s2
  core = core
  game = game
  grantKey = grantKey
  grant = grant
  child = child
  mine = mine
  blob = blob
  other = other
  NoOne = NoOne
  None = None
  NoHead = NoHead
  Drainer = {p1, p2}
  Row = {1, 2, 3}
  Own = Home
  Batch = {y1, y2, y3}
  DRAIN_BATCH_SIZE = 2
  WitnessedEntry = {ea, eb}
  MaxCrashes = 1
  MirrorEntry = {a1, a2, a3, b2, b3}
  seq <- Labels
  ProjectedShard = {core, game}
  event_id <- OwnIds
  identity <- Identities
  KeyEvent = {grantKey}
  Invalid = {}
  Focused = {"outbox", "witness", "mirror"}
  Shard = {1, 2, 3}
  Authority <- AuthoritiesAndDead
  shard_id_for_event <- DeadFirst
  txOf <- OwnTransactions
  target_for_shard <- ThreeTargets
  Unparseable = {2}
  Down = {Dead}
  OutboxFaults = {}
  Node = {n1, n2}
  WitnessProc = {p1}
  node <- OneWitnessProcess
  SignedHead <- SmallFork
  Colluding = {n2}
  WitnessFaults = {"expiry", "conflict"}
  Source = {s1}
  MirrorProc = {p1, p2}
  SourceHead <- AppendsOnly
  Fickle = {}
  Discards = {FALSE}
  MirrorFaults = {"crash", "storage"}
  MaxResolves = 0
  ProjectedEntry = {grantKey, grant, mine, blob}
  log <- BlobLogs
  keys <- OwnNeeds
  parent <- NoNeeds
  Undecodable = {blob}
  ProjectionFaults = {"transient"}
  MAX_DEFERRED_PER_SHARD = 1
INVARIANTS
  TrustedConsistent
PROPERTIES
  OutboxProgresses
