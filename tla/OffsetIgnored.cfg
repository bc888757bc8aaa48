CONSTANTS
  NFiles = 2
  NBlocks = 2
  MaxVersion = 1
  MaxJobs = 3
  MaxFaults = 0
  Upload = FALSE
SPECIFICATION Spec
INVARIANTS
  OffsetIsTaken
CHECK_DEADLOCK FALSE
