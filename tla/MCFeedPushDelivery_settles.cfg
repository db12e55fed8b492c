CONSTANTS
  d1 = d1
  d2 = d2
  p1 = p1
  p2 = p2
  s1 = s1
  c1 = c1
  c2 = c2
  c3 = c3
  Deliveries = {d1,d2}
  Students = {s1}
  Types = {"grade","library"}
  Library = "library"
  Owner <- MCOwner
  TypeOf <- MCTypeOf
  Urgent = {d1}
  Perishable = {d1}
  Procs = {p1}
  CIDs = {c1}
  NoCID = "none"
  MaxAttempts = 2
  BatchSize = 2
  GroupSize = 1
  Overrun = FALSE
SPECIFICATION FairSpec
PROPERTY RetriesAreCounted
PROPERTY EveryDeliverySettles
