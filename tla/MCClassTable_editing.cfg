SPECIFICATION TableFairSpec
CONSTANTS
  c1 = c1
  c2 = c2
  a1 = a1
  a2 = a2
  Students = {s1}
  Classes = {c1, c2}
  Actors = {a1, a2}
  SlotsOf <- MCSlotsOf
  MaxNum = 1
  MaxNotes = 1
  MaxRequests = 2
  MaxFaults = 1
INVARIANT CachesAgree
PROPERTY NotesNeverGoBack
PROPERTY CachesHeal
CHECK_DEADLOCK FALSE
