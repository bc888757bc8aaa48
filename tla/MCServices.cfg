SPECIFICATION FairParts
CONSTANTS
  c1 = c1
  c2 = c2
  d1 = d1
  d2 = d2
  Conns = {c1, c2}
  NeedSnapshot = TRUE
  Repeat = FALSE
INVARIANTS
  TypesOK
  Subscriptions
PROPERTIES
  SubscribeTakesEffect
  ThreadsEnd
  SubscribersServed
\* A part that has used up its bounds stops.
CHECK_DEADLOCK FALSE
