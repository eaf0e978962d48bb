SPECIFICATION PlayersSpec
CONSTANTS
  Focused = {"accounts", "integrators", "data"}
  Call = {c1, c2, c3}
  Guardian = {g1, g2}
  Passkey = {1, 2, 3}
  DeviceKey = {d1, d2}
  FirstKey = {d1}
  ForeignKey = {f1}
  Request = {1, 2}
  Grant = {x1}
  Mixes <- ExploredMixes
  AttemptsPerWindow = 2
  IntCall = {c1, c2, c3}
  IntMixes <- IntegratorsExplored
  Binding = {1, 2}
  Cap = {issue, read}
  IssueCap = issue
  Claim = {d1}
  IdemKey = {1}
  IssuerKey = {1, 2}
  Challenge = {1, 2, 3}
  WriteQuota = 2
  Tier = {"dev", "mainnet"}
  DataCall = {c1, c2, c3}
  DataMixes <- DataExplored
  Subject = {u, v}
  Instance = {1, 2, 3, 4}
  Scope = {"some", "all"}
  GuildCall = {c1, c2, c3}
  founder = founder
  officer = officer
  outsider = outsider
  Player = {founder, officer, outsider}
  Founder = founder
  FirstOfficer <- Officers
  Ticket = {1, 2}
  MaxRoleIndex = 4
  GivenPermissions <- Permissions
  Game = {game1, game2}
  GuildMixes <- GuildsExplored
  FavoriteCap = 1
  Recovering <- Officers
  LogBound = 8
  ChatCall = {c1, c2, c3}
  Person = {manager, member}
  Manager = {manager}
  Poster = {manager}
  ChatMixes <- ChatExplored
  MessageCap = 2
  MaxStamp = 4
  PageSize = 2
  PageReader = {r1}
  ReplicaPeer = {1}
  EntryId = {e1}
  ChatEventId = {v1}
  MaxSignerKey = 1
  SocialCall = {c1, c2, c3}
  Individual = {"a1", "a2", "a3"}
  SocialMixes <- SocialExplored
  RequestId = {1, 2}
  FirstFriends = {"a1", "a2"}
  FirstRequester = "a1"
  GuildMates <- Mates
  DisplayName = {"n1"}
  ProfileEdits <- Edits
  RealtimeNode = {"rn1", "rn2"}
  ChatSocket = {"k1", "k2"}
  NodeOf <- Connections
  ChatMessage = {1}
  RecordTtl = 3
  MaxLate = 2
  MaxTicks = 3
  Publisher = {c1, c2, c3}
  PresenceSocket = {"v1"}
  Capacity = 2
  RealtimeParts = {"interest", "relay", "presence"}
SYMMETRY SameCalls
CHECK_DEADLOCK FALSE
INVARIANTS
  NoSessionOutlivesItsCredential
  EventsMatchTables
  HistoryIsAChain
