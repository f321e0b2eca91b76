SPECIFICATION FairSpec
CONSTANTS
  x1 = x1
  x2 = x2
  x3 = x3
  a1 = a1
  a2 = a2
  a3 = a3
  Addresses = {x1, x2, x3}
  Agents = {a1, a2, a3}
  NoAgent = NoAgent
  AddressOf <- OwnAddress
  Cap <- Cap1
  Roots = {a1, a2, a3}
  Readers = {}
  Ops <- TrackingAndShutdowns
  MaxPosts = 2
INVARIANTS
  NoEviction
  NoDuplicateTracking
PROPERTIES
  TrackersNotified
CHECK_DEADLOCK FALSE
