CONSTANTS
  d1 = d1
  d2 = d2
  p1 = p1
  p2 = p2
  s1 = s1
  c1 = c1
  c2 = c2
  c3 = c3
  Deliveries = {d1}
  Students = {s1}
  Types = {"library"}
  Library = "library"
  Owner <- MCOwner
  TypeOf <- MCTypeOf
  Urgent = {d1}
  Perishable = {d1}
  Procs = {p1,p2}
  CIDs = {c1,c2,c3}
  NoCID = "none"
  MaxAttempts = 2
  BatchSize = 1
  GroupSize = 1
  Overrun = TRUE
  Invitees = {1, 2}
  Teams = {t1, t2}
  Masters = {o1, o2}
  Notifiers = {n1, n2}
  RecipientDailyLimit = 1
  Tries = 2
  MaxPreference = 2
  LastDay = 1
  MaxNotified = 2
  Mates = {m1}
  Groups = {g1, g2}
  Scanners = {x1, x2}
  Baseline = TRUE
  MaxTurns = 3
  MaxMoves = 3
SPECIFICATION MCSpec
CONSTRAINT MCBound
SYMMETRY MCSymmetry
INVARIANT BudgetRespected
INVARIANT OneCIDPerDelivery
PROPERTY ClosedIsNotPushed
INVARIANT DailyLimitKept
INVARIANT InvitationsKept
INVARIANT NoOldNews
CHECK_DEADLOCK FALSE
