SPECIFICATION MCSpec
CONSTANTS
  Fellows = {f1, f2, f3}
  Window = 2
  Decay <- MCDecay
  Boost <- MCBoost
  Runs = {r1, r2}
  LevelOf <- MCLevelOf
  Boosters = {b1}
  InitialBoost = 3
  MaxAdds = 1
  MaxRuns = 2
  MaxDays = 2
  MaxMarks = 2
  UserPods = {p1}
  Services = {ck, tk}
  AsyncServices = {tk}
  Clients = {c1}
  MaxPassword = 2
  MaxCredentials = 2
  Students = {s1}
  Requests = {q1}
  Heartbeats = {h1}
  FlushBatch = 1
  RetentionDays = 2
  WindowDays = 2
  MinActiveDays = 2
  MaxDay = 3
  MaxLosses = 1
  Sessions = {l1, l2}
  TokenLife = 1
  RefreshLife = 3
  HandlerTime = 1
  MaxTime = 8
INVARIANT NoDebt
INVARIANT AnswersWereLive
INVARIANT AccountJustified
INVARIANT CertifiedIsExact
INVARIANT SelectionIsExact
PROPERTY LoggedOutStaysOut
CONSTRAINT MCBound
CHECK_DEADLOCK FALSE
