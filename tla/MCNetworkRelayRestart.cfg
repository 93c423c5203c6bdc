SPECIFICATION Spec
CONSTANTS
  ag1 = ag1
  ag2 = ag2
  p1 = p1
  p2 = p2
  p3 = p3
  r1 = r1
  r2 = r2
  r3 = r3
  r4 = r4
  r5 = r5
  PeerNodes = {n1, n2}
  MaxDials = 2
  MaxWrites = 1
  KnownIds = {p1, p2, p3}
  BootstrapLists <- MCBootstrapLists
  ExtraPeers = {p3}
  MaxPeers = 2
  PeerTtl = 1
  DiscoveryMaxTime = 4
  MaxBootstraps = 2
  RelayRecords = {r1, r2, r3, r4, r5}
  RelayAgents = {ag1, ag2}
  AuthorOf <- MCAuthorOf
  KindOf <- MCKindOf
  StampOf <- MCStampOf
  Garbled = {r4}
  UsernameOf <- MCUsernameOf
  NoteCap = 2
  MaxReceived = 4
  MaxStarts = 2
  Shims = {s1, s2}
  Daemons = {d1, d2}
  NoDaemon = NoDaemon
  MaxCalls = 3
  TorRuns = {t1, t2}
  NoTor = NoTor
  HostnameTries = 2
  ChildAgents = {c1, c2}
  GraceDays = 1
  MaxNegative = 2
  SweepSlots = {k1}
  MaxTerminateCalls = 1
INVARIANT StoredAgentsMirrored
CHECK_DEADLOCK FALSE
