CONSTANTS
  e1 = e1
  e2 = e2
  s1 = s1
  n1 = n1
  n2 = n2
  t2 = t2
  t3 = t3
  Users = {ann, bob}
  Names = {n1, n2}
  Procs = {p1, p2}
  Workers = {w1, w2}
  IgdbIds = {e1, e2}
  SteamIds = {s1}
  NoId = NoId
  TitleOf <- MCTitleOf
  Uploaded = Uploaded
  NoCover = NoCover
  MaxGames = 3
  MaxRetries = 1
  Seed <- MCSeed
  Mixes <- MCMixes
SPECIFICATION Spec
CHECK_DEADLOCK FALSE
INVARIANT TypeOK
INVARIANT IdentityAgrees
INVARIANT SessionsFollowAlias
PROPERTY IdsKept
PROPERTY NeverDemoted
PROPERTY ReviewAnswersKept
SYMMETRY MCSymmetry
