SPECIFICATION MCSpec
CONSTANTS
  Procs = {p1}
  Callers = {u1}
  Home <- MCHome
  LogIds = {1, 2, 3, 4, 5, 6}
  MaxRefreshRetryAttempts = 2
  MaxCopies = 2
  MaxCalls = 2
  MaxOutages = 1
  Courses = {c1}
  Hosts = {g1, g2}
  Workers = {w1}
  MaxScore = 2
  MaxErrors = 1
  Plans = {m1}
  Holidays = {h1}
  Members = 2
  Jobs = {j1, j2}
  PageSize = 1
  MaxFailures = 1
INVARIANT ReadyMeansStored
INVARIANT ScorePushedOnce
INVARIANT AnnouncedOnce
INVARIANT RightRecipients
PROPERTY NoRetryForgotten
PROPERTY RequestsAnswered
 
PROPERTY AnnouncementsArrive
CHECK_DEADLOCK FALSE
