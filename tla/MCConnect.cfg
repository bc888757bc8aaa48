SPECIFICATION FairParts
CONSTANTS
  MaxKeys = 2
  MaxConns = 2
  Connecting = TRUE
  NoKey = NoKey
  Hosts = {a, b}
  MediatorChanges = 2
  MediatorErrors = 1
  MaxId = 1
  MaxPackets = 1
  RegistrationFaults = 1
  Taken = {a}
  MayFail = {a}
  Starters = {"udp"}
  ConnectFaults = 2
  MaxRounds = 5
  RoundFaults = 4
  Ports = {a, b}
  MaxListeners = 2
  MaxAccepts = 1
  MaxLogins = 1
INVARIANTS
  TypesOK
  InStep
  ListenersApart
PROPERTIES
  
  EndsForGood
\* A part that has used up its bounds stops.
CHECK_DEADLOCK FALSE
