SPECIFICATION LogSpec
CONSTANTS
  Leaf = {"x", "y"}
  MaxLeaves = 7
  A = A
  m1 = m1
  m2 = m2
  m3 = m3
  Author = A
  Mirrors = {m1, m2, m3}
  Archives = {m1, m2}
  MinArchives = 1
  Window = 0
  PageSize = 2
  Scenario <- TwoScenarios
  MaxEntries = 2
  MaxClock = 2
  Heads <- Signed
  Run = {"r1", "r2"}
  New = {"n"}
  PromotePage = 1
  Attempt <- Attempts
  Issuers = {"i", "j"}
  Aim = {"promote", "migrate"}
  g1 = g1
  g2 = g2
  co = co
  og = og
  k1 = k1
  k2 = k2
  q1 = q1
  q2 = q2
  Shard = {g1, g2, co}
  OwnShard = g2
  Core = co
  ownerOf <- Owners
  Owner = {og}
  Key = {k1}
  CoreKey = k2
  shardRank <- ByteOrder
  StaticKeys <- NoStaticKeys
  Configured = {co}
  MAX_FAMILY_MEMBERS = 2
  Request = {q1, q2}
  Scene <- CrossScenes
  MaxSize = 1
  Builds <- OldAndNew
  TagBytes <- Tags
  Drafts <- AllDrafts
  Noise <- NoiseBytes
  Scenes <- TextKinds
  MAX_SAFE_INTEGER = 30
  MAX_SIGNIFICANT_DIGITS = 2
  MAX_DEPTH = 2
  MIN_POINT = 2
  DOUBLE_DIGITS = 3
  RECURSION_LIMIT = 2
  nm = nm
  alt = alt
  pia = pia
  quo = quo
  xan = xan
  yul = yul
  Unchanged = Unchanged
  Stories <- StoriesTold
  nameTag <- Tagged
  MaxRebuilds = 1
  DEFAULT_MIN_COHORT = 2
  ChainNode = {"n1", "n2", "n3"}
  ActingNode = {"n1", "n2"}
  CoreNode = "n1"
  KeyHome = "n2"
  SigningKey = {1, 2}
  ChainEventId = {1, 2, 3}
  Stamp = {1, 2}
  SlowClock = {"n3"}
  ChainMixes <- KindsExplored
  MaxCopies = 1
  History <- KeyHistory
  CoreShard = "core"
  MirrorLocation = {"mirror"}
  Unfaithful = {"odd"}
  Wanted = {"k1", "k3"}
  Forged <- Invented
  MAX_ENTRIES = 2
  MaxFaults = 1
  MaxPrunes = 0
  Stubs = {"s1", "s2"}
  LookupAims = {"keys", "stubs"}
  Focused = {"merkle", "serving", "handover", "cross", "readmodel"}
CHECK_DEADLOCK FALSE
INVARIANTS
  ProofsBindThePast
  PrunedIsArchived
  
  PromotedAsJudged
  RootsTrustLiveKeys

  
