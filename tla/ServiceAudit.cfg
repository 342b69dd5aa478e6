CONSTANTS
  ann = ann
  bob = bob
  demo = demo
  Users <- MCUsers
  Codes = {c1, c2, cd}
  Procs = {p1, p2}
  NoUser = NoUser
  NoCode = NoCode
  DemoCode = cd
  MaxCollisionRetries = 2
  Ips = {ip1}
  NoIp = NoIp
  Devices = {d1}
  Demo = demo
  Admins = {bob}
  LoggedIn <- MCLoggedIn
  GraceDays = 1
  TokenDays = 0
  StaleDays = 0
  DemoMaxTokens = 1
  IpFailLimit = 1
  GlobalFailLimit = 2
  DemoRateLimit = 1
  MaxDay = 2
  MaxCalls = 2
  Mixes <- MCMixes
  Workers = {w1, w2}
  DedupDays = 1
  HourlyLimit = 1
  DailyLimit = 1
SPECIFICATION Spec
CHECK_DEADLOCK FALSE
SYMMETRY MCSymmetry
INVARIANT OneRequestedEvent
