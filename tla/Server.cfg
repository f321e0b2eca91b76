SPECIFICATION FairServerSpec
CONSTANTS
  xs = xs
  xb = xb
  x1 = x1
  x2 = x2
  s = s
  b = b
  c1 = c1
  c2 = c2
  Addresses = {xs, xb, x1}
  Agents = {s, b, c1, c2}
  NoAgent = NoAgent
  AddressOf <- OwnAddress
  Cap <- ServerUnbounded
  Roots = {s, b}
  Readers = {c1, c2}
  Ops <- OnlyApps
  MaxPosts = 3
  ServerAgent = s
  Events <- OneBusyPeer
  Targets = {xb}
  Split = {}
  OutRoom = 1
INVARIANTS
  ServerTypeOK
  ReaderReaps
PROPERTIES
  ImplementsRouter
  ReaderEndsConnection
  TaskEndsReader
  NextReturns
  ServerStops
CHECK_DEADLOCK FALSE
