SPECIFICATION FairNetSpec
CHECK_DEADLOCK FALSE
CONSTANTS
  boot = boot
  web = web
  str1 = str1
  str2 = str2
  i1 = i1
  i2 = i2
  rep1 = rep1
  rep2 = rep2
  rep3 = rep3
  self = self
  x = x
  y = y
  sx = sx
  sy = sy
  ro1 = ro1
  ro2 = ro2
  sa = sa
  sb = sb
  s1 = s1
  uo = uo
  u1 = u1
  u2 = u2
  q1 = q1
  q2 = q2
  a1 = a1
  w1 = w1
  w2 = w2
  w3 = w3
  net1 = net1
  net2 = net2
  r1 = r1
  r2 = r2
  r3 = r3
  NoId = NoId
  FirstId = i1
  Http = {boot, web}
  P2p = {str1, str2}
  PeerIds = {i1, i2}
  Bootstrap = {boot}
  AnnounceCall = {c1, c2}
  Announces <- AnnounceRequests
  Relayed <- OldNews
  max_known_peers = 2
  MAX_P2P_ENTRIES = 1
  max_peers = 2
  MAX_UNVERIFIED_PEERS = 1
  PruneAfter = 1
  MaxFails = 1
  Reporter = {rep1, rep2, rep3}
  OwnReporter = self
  Place = {x, y}
  Shard = {sx, sy}
  Root = {ro1, ro2}
  shardOf <- ShardOfPlace
  Holds <- HoldsOwn
  AuthorSigned <- AuthorsHeads
  DoublyCosigned = {x}
  MAX_CONFIRMATIONS_IN_FLIGHT = 2
  MaxFetchFails = 1
  Peer = {sa}
  OwnShard = own
  OwnUrl = uo
  P2pUrl = {q1, q2}
  DeadUrl = {u1}
  Lists <- MixedList
  RelayedAges = {0, 1}
  ShardPruneAfter = 1
  Grace = 2
  Window = 1
  min_confirmations = 1
  MAX_P2P_SHARD_URLS_TOTAL = 1
  MAX_P2P_SHARD_URLS_PER_EXCHANGE = 1
  max_new_shard_urls_per_exchange = 3
  max_failed_lookups = 1
  CursorBound = 4
  MaxRestarts = 1
  WitnessCandidate = {a1, w1, w2, w3}
  Anchors = {a1}
  Offers <- TickOffers
  prefixOf <- WitnessNetwork
  capacity = 3
  anchor_capacity = 1
  max_per_prefix = 2
  freshness_window = 2
  probation_window = 1
  freshness_floor = 50
  MaxStops = 1
  Id <- PeerIdOrder
  relay_addrs <- NoneConfigured
  ListedRelays <- ListedNetwork
  Latencies <- Measured
  CannotListen = {}
  MAX_CANDIDATES = 3
  max_reservations = 1
  retry_backoff = 1
  retry_backoff_max = 1
  pending_timeout = 1
  reselect_hold = 1
  reselect_interval = 1
  reselect_margin_ms = 30
  private_grace = 2
  has_external_addr = FALSE
  MaxCounted = 1
  FailuresCap = 1
  Watcher = {v1, v2}
  AutoMirror = {v1}
  Listed <- OneListed
  Discovered <- Registry
  best_url <- RegistryUrls
  max_shards = 2
  max_shards_per_source = 1
  max_new_per_tick = 1
  MaxIdle = 1
  KnownWitness = {k1, k2, k3}
  DirectoryWitness = {d1, d2, d3}
  Mute = {k1}
  GatherKind = {"author", "mirror"}
  Stale = 5
  refresh_after = 3
  Reattest = 1
  MAX_ASKED_PER_TICK = 2
  max_per_tick = 1
  ROW_CAP_FACTOR = 2
  FlatWait = 2
  MaxWait = 3
  MaxFaults = 1
  Focused = {"gossip", "shards", "gather"}
  Established = {rep1, rep2}
  Says <- SaysHeld
  MAX_TRACKED_HEAD_SUMMARIES = 4
  Mirrors = {}
  Relay = {r1, r2, r3}
  Addresses <- TwoAddresses
  AnswersAt <- SecondOnly
  SeenAt <- ListedNetwork
  Prompt = {r1, r2, r3}
  MaxSurprises = 2
PROPERTIES
  GossipConfirmsForks
  DirectoryExaminesUrls
  GatherKeepsFresh
