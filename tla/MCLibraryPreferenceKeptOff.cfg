CONSTANTS
  s1 = s1
  s2 = s2
  Id <- MCId
  Students = {s1, s2}
  PageSize = 1
  ChangeLimit = 2
  BatchSize = 1
  Invitation = FALSE
  MaxRevision = 3
SPECIFICATION KeptSpec
INVARIANT SavedOffStaysOff
