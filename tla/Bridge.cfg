SPECIFICATION FairSpec
CONSTANTS
  Asked <- TwoBridges
  Contents <- SepAndEmpty
  Sep = "|"
  Bytes = {"|", "r", "s", "m"}
  Cap = 1
  Modulus = 4
  MaxMsgs = 2
  WireRoom = 1
  MaxClients = 2
  MaxFails = 2
INVARIANTS
  TypeOK
  BackOffLaw
  Accounted
  ArrivesAsMeant
PROPERTIES
  RetriesAsAsked
  AgentServed
  ReplacedClientsEnd
CHECK_DEADLOCK FALSE
