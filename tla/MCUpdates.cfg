SPECIFICATION FairParts
CONSTANTS
  Chunks = 1
  MaxCalls = 2
  Conns = {a}
  HeartbeatChanges = 1
  HeartbeatFaults = 1
  MaxStrategies = 1
  Public = 0
  Procs = {a, b}
  MaxSets = 2
  ConfigFaults = 1
  Tries = 2
  Sessions = {a, b}
  Versions = {1, 2}
  MaxChanges = 2
  MaxConns = 1
  MaxLost = 1
  MaxFaults = 1
  Tabs = {a, b, c}
  MaxThreads = 3
  Typists = {a, b}
  Keys = {shift, x}
  Modifiers = {shift}
  MaxEvents = 3
INVARIANTS
  TypesOK
  WholeIsRun
  
  OneForAll
PROPERTIES
  UpdatedUnused
  
  
\* A part that has used up its bounds stops.
CHECK_DEADLOCK FALSE
