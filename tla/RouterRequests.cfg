SPECIFICATION FairSpec
CONSTANTS
  x1 = x1
  x2 = x2
  x3 = x3
  a1 = a1
  a2 = a2
  a3 = a3
  Addresses = {x1, x2}
  Agents = {a1, a2, a3}
  NoAgent = NoAgent
  AddressOf <- SharedAddress
  Cap <- CapUnbounded
  Roots = {a1, a2}
  Readers = {a3}
  Ops <- OnlyA1Asks
  MaxPosts = 2
PROPERTIES
  DeadUnregistered
  RequestResolves
  RegistrationResolves
CHECK_DEADLOCK FALSE
