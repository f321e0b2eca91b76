SPECIFICATION Spec
CONSTANTS
  x1 = x1
  x2 = x2
  x3 = x3
  a1 = a1
  a2 = a2
  a3 = a3
  Addresses = {x1, x2}
  Agents = {a1, a2, a3}
  NoAgent = NoAgent
  AddressOf <- SharedAddress
  Cap <- Cap1
  Roots = {a1, a2}
  Readers = {}
  Ops <- OnlyMessages
  MaxPosts = 1
INVARIANTS
  NoEviction
CHECK_DEADLOCK FALSE
