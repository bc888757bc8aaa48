SPECIFICATION Parts
CONSTANTS
  w1 = w1
  w2 = w2
  t1 = t1
  t2 = t2
  ApproveMode = "both"
  TemporaryEnabled = TRUE
  PermanentEnabled = FALSE
  TwoFactor = TRUE
  MaxTemp = 2
  MaxEvents = 2
INVARIANTS
  TypesOK
  WindowsGetIn
  TerminalsTell
PROPERTIES
  AuthorizedIsProved
  
\* A part that has used up its bounds stops.
CHECK_DEADLOCK FALSE
