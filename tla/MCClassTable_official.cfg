SPECIFICATION TableSpec
CONSTANTS
  c1 = c1
  c2 = c2
  a1 = a1
  a2 = a2
  Students = {s1}
  Classes = {c1, c2}
  Actors = {a1}
  SlotsOf <- MCSlotsOf
  MaxNum = 1
  MaxNotes = 0
  MaxRequests = 1
  MaxFaults = 0
INVARIANT OfficialListed
CHECK_DEADLOCK FALSE
