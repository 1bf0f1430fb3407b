SPECIFICATION MCSpec
CONSTANTS
  Requests = {r1, r2}
  Users = {u1, u2}
  Rate = 1
  Burst = 2
  Idle = 2
  PerUser = 1
  MaxActive = 2
  MaxKeys = 2
  MaxTime = 0
  MaxSafe = 9
  ChunkSize = 2
  Configs <- SmallConfigs
  Accounts <- SmallAccounts
  Sizes <- SmallSizes
  Rooms = {4, 13}
  Attempts = 3
  MaxWait = 4
  Window = 6
  Cancelling = 3
  Replaying = 2
  MaxAsked = 5
  home = home  fast = fast  spare = spare  system = system
  Volumes = {home, fast, spare, system}
  System = system
  HddVolume = home
  SsdVolume = fast
  Legacy = {service}
  Ssd = prepared
  Inodes = {1, 2}
  Enrolled = {home, spare}
  Production = TRUE
  Ops = {"probe", "read", "write"}
  None = None
  MaxChanges = 2
  MaxClock = 1
  MaxCalls = 2
  MaxStarts = 1
  MaxEnrolments = 0
INVARIANTS AdmittedWhole LeasesAccount WindowKept VolumeKept
PROPERTIES LimitsTrue KeptThenReturned NeverEarly
CHECK_DEADLOCK FALSE
