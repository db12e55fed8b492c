SPECIFICATION MCSpec
CONSTANTS
  s1 = s1
  s2 = s2
  Id <- MCId
  Students = {s1, s2}
  PageSize = 1
  ChangeLimit = 1
  BatchSize = 1
  Invitation = FALSE
  MaxRevision = 3
INVARIANT ConsumedAgrees
INVARIANT WorkIsCurrent
PROPERTY NoSilentReopen
PROPERTY Converges
