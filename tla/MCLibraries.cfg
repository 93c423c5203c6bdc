SPECIFICATION Spec
CONSTANTS
  ag1 = ag1
  d1 = d1
  d2 = d2
  k1 = k1
  k2 = k2
  k3 = k3
  r1 = r1
  r2 = r2
  r3 = r3
  t1 = t1
  t2 = t2
  Senders = {s}
  MessageTypes = {x}
  RateWindow = 2
  FlagAfter = 2
  Cooldown = 2
  FallbackLimit = 2
  Limits = {0, 1, 3}
  LimiterMaxTime = 7
  MaxMessages = 6
  Flaggers = {f1, f2}
  FlagTargets = {t1, t2, t3}
  HideAt = 2
  MaxFlagsPerHour = 1
  FlagWindow = 1
  BlockAt = 2
  FlaggingMaxTime = 4
  KeyholderKeys = {k1, k2, k3}
  Genesis = {k1, k2}
  Threshold = 2
  Decree <- MCDecree
  LocalDecrees = {d1}
  Author = k1
  Subjects = {ag1}
  GovernanceCalls = {1, 2}
  GovernanceMaxTime = 2
  MaxActionLog = 2
  GossipRecords = {r1, r2}
  StampedAt <- MCStampedAt
  Topics = {t}
  RecordHandlers = {h}
  TicksPerSecond = 2
  MaxDrift = 1
  SeenTtl = 2
  MaxSeen = 1
  GossipMaxTime = 6
  MaxArrivals = 2
  PipelineRecords = {r1, r2, r3}
  TypeOfRecord <- MCTypeOfRecord
  StampOfRecord <- MCStampOfRecord
  PublicTypes = {"pub"}
  Wildcard = "*"
  PipelineDrift = 1
  PipelineMaxTime = 2
  MaxRecordsIn = 3
  NoData = {}
  NoRefs = {r3}
  MaxArrays = 2
  MaxHandlers = 2
  KillRecords = {r1, r2}
  KillStamp <- MCKillStamp
  KillValidity = 1
  KillMaxTime = 3
  MaxKillCopies = 3
  AttestedPairs = {a1, a2}
  LatestLimit = 2
  AttestationMaxTime = 3
  MaxAttestations = 2
  MaxCreates = 3
  EmailKeys = {e}
  PublishedKeys = {p}
  ChallengeTtl = 1
  IdentityMaxTime = 4
  MaxChallenges = 2
  MaxCompletions = 3
  BoardTasks = {t1, t2}
  DeadlineOf <- MCDeadlineOf
  Stages = {"assigned", "settled"}
  CacheTtl = 1
  PostedLimit = 2
  QueryLimit = 1
  BoardMaxTime = 3
  MaxBoardRecords = 3
  WorkScan = 1
  ContentInterval = 2
  PublicMode = TRUE
  SpawnPause = 2
  HistoryCap = 2
  AutonomyMaxTime = 3
  MaxActions = 3
  MaxDrafts = 2
  NegotiatedTasks = {t}
  Prices = {0, 3, 4, 5, 6, 7}
  FirstBids = {3, 8, 12}
  MinPrice = 5
  MaxRounds = 3
  Grid = 2
  MaxOffers = 5
  KeyCalls = {c1, c2, c3, c4}
  NoFile = NoFile
  Empty = Empty
  Garbled = Garbled
  ApActors = {x1, x2}
  ApSigners = {x1}
  CheckSignatures = TRUE
  HasTaskHandler = TRUE
  MaxPosts = 3
INVARIANTS
  LibrariesTypeOK
  WindowHoldsLimit
  FlagHasGrounds
  AppliedOnce
  EffectsHaveQuorum
  HeardOnce
  BooksBalance
  
  KillHandlerOnce
  AttestedOnce
  SealedOnce
  KeyStays
  FollowersInOrder
  ListingLagsBriefly
  AgentPaced
  PriceFloor
PROPERTIES
  HidesOnlyBacked
  BlockedByDecreeOnly
CHECK_DEADLOCK FALSE
