SPECIFICATION FairParts
CONSTANTS
  NoAddr = NoAddr
  Peers = {c1, c2}
  Controllers = {c1, c2}
  Async = TRUE
  MaxToggles = 2
  PrivacyFaults = 1
  Viewers = {1, 2}
  MIN_SAMPLES = 3
  WINDOW_SAMPLES = 4
  Delays = {0, 20, 260}
  Customs = {20}
  Qualities = {"best"}
  Ordered = FALSE
  TogetherChanges = 0
  TogetherOptions = 0
  MaxOpens = 2
INVARIANTS
  TypesOK
  RequestsHandled
  

  
\* A part that has used up its bounds stops.
CHECK_DEADLOCK FALSE
