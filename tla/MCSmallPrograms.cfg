CONSTANTS
  Families = {"v4", "v6"}
  max_ttl = 2
  nprobes = 2
  Dists = {1, 2}
  RcvCap = 2
  MaxStrays = 1
  USec = 2
  MaxClock = 5
  PingCap = 2
  PingStrays = 1
  Base = 4
  QueryLen = 3
  MaxReplies = 2
  HeartArgs <- MCHeartArgs
  Delay = 1
  UdpKinds = {"udpcli01", "dgcliconnect", "dgclitimeo2"}
  UdpLines = 3
  MaxMishaps = 2
  ConnCalls = {"connect_nonb", "connect_timeo", "daytimetcpcli1"}
  Addrs = 2
  Lists <- MCLists
  Devs = {"eth0", "eth1"}
  Initial = 2
  Increment = 2
  MaxChanges = 1
  RlThreads = {t1, t2}
  RlStreams <- MCStreams
  RlBuf = 3
  RlMax = 3
SPECIFICATION SmallSpec
CHECK_DEADLOCK FALSE
INVARIANTS
  ResultIsOurs
  StopsAtDestination
  RttIsExact
  ThreeTimeouts
  Verifies
  SilenceMeasured
  LivePeerKept
  OwnAnswer
  ConnectTells
  DescriptorOrError
  ListIsRight
  LinesIntact
PROPERTIES
  EndsUnlessAlarmLost
