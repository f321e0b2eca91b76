SPECIFICATION FairServerSpec
CONSTANTS
  xs = xs
  xb = xb
  x1 = x1
  x2 = x2
  s = s
  b = b
  c1 = c1
  c2 = c2
  Addresses = {xs, xb, x1, x2}
  Agents = {s, b, c1, c2}
  NoAgent = NoAgent
  AddressOf <- TwoAddresses
  Cap <- AllOne
  Roots = {s, b}
  Readers = {c1, c2}
  Ops <- OnlySends
  MaxPosts = 5
  ServerAgent = s
  Events <- OneSlowPeer
  Targets = {xs}
  Split = {c1}
  OutRoom = 1
INVARIANTS
  OwnShutdown
PROPERTIES
  ReaderEndsConnection
  TaskEndsReader
  NextReturns
CHECK_DEADLOCK FALSE
