CONSTANTS
  Conns = {c1, c2}
  WebConns = {c2}
  MaxFrames = 2
SPECIFICATION Spec
INVARIANTS
  FlowControl
  Decodable
  RefreshNotLost
PROPERTIES
  ServiceSafety
CHECK_DEADLOCK FALSE
