SPECIFICATION NodeSpec
CHECK_DEADLOCK FALSE
CONSTANTS
  c1 = c1
  c2 = c2
  k1 = k1
  k2 = k2
  h1 = h1
  h2 = h2
  o1 = o1
  o2 = o2
  o3 = o3
  Call = {c1, c2}
  StreamRequests <- PeerRequests
  MAX_PARKED_PER_PEER = 1
  COMMAND_CHANNEL_CAPACITY = 2
  connect_timeout = 1
  BACKOFF_BASE = 1
  BACKOFF_MAX = 2
  Guest = {g1, g2}
  Task = {1, 2, 3}
  max_inflight = 3
  max_inflight_per_peer = 2
  MaxRefusals = 1
  Signer = {k1, k2}
  Traffic <- Deliveries
  Requests = {q1, q2, q3}
  MAX_SKEW_SECS = 2
  REPLAY_RETENTION_SECS = 5
  Minute = 2
  MaxClock = 5
  MinuteRate = 1
  FailedRate = 2
  TIMEOUT_FAILURE_UNITS = 2
  MaxReplay = 2
  PerSignerCap = 2
  MAX_BUDGET_KEYS = 1
  MaxInflight = 1
  Stages = 1
  Reserve = 1
  RECENTLY_GOOD_SECS = 3
  Caller = {o1, o2, o3}
  nameOf <- HostOf
  purposeOf <- PurposeOf
  Scenes <- TwoScenes
  Pool <- OneEach
  MAX_ABANDONED_LOOKUPS = 1
  NegativeTtl = 1
  MaxTurns = 1
  allow_private = FALSE
  Node = {"o", "a", "b", "c", "d", "t"}
  Target = "t"
  Origin = "o"
  Neighbors <- Overlay
  Distance <- Metric
  Healths <- TwoPoor
  Failings <- SomeFailing
  TTL = 2
  BUDGET = 8
  PER_HOP_TIMEOUT = 4
  DOWNSTREAM_MARGIN = 1
  MIN_FORWARD_BUDGET = 1
  MAX_CANDIDATES = 3
  Proc = {"p1", "p2", "solo"}
  Degraded = {"solo"}
  Proxies = {"x", "y"}
  Profiles <- Mixes
  RATE = 1
  WINDOW = 2
  MAX_CONCURRENT = 1
  STALE = 2
  WAIT_BUDGET = 1
  REQUEST_TIMEOUT = 1
  PROBES = 1
  MAX_PROBES = 1
  MAX_TRACKED_IPS = 1
  MaxTime = 2
  Conn = {n1, n2}
  Configs <- Startups
  Timeout = 2
  MaxStalls = 1
  Start = {"a", "b", "c"}
  KEYS = {"settlement", "witness"}
  AUTHORING_KEYS = {"settlement"}
  SigningKey = "settlement"
  Setups <- ThreeSetups
  MaxCrashes = 2
INVARIANTS
  WritesExecutedOnce
  HandledOnce
  WaitersAreServed
  CeilingHolds
  WaiterNotForgotten
  StartsShareKeys
PROPERTIES
  PromptAreHeard
SYMMETRY SameRequests
