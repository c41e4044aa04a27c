SPECIFICATION SceneSpec
CONSTANTS
  Requests = {r1, r2}
  Alone = r1
  Named = {r1}
  Instances = {i1, i2}
  NoInstance = NoInstance
  Images = {m1, m2}
  Subnets = {s1}
  MaxAttempts = 2
  Ports = {p1}
  NoPort = NoPort
  MaxLaunches = 2
INVARIANTS
  LaunchesBounded
  LostAnswerInvitesRetry
  DestroyedIsGone
  NoneLeftBehind
  OwnCallsOnly
PROPERTIES
  HostNeverHangs
CHECK_DEADLOCK FALSE
