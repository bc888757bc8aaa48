SPECIFICATION FairParts
CONSTANTS
  NFiles = 2
  NBlocks = 1
  MaxVersion = 1
  MaxFaults = 0
  DownJobs = 2
  ResumeJobs = 0
  UpJobs = 2
  MaxCalls = 2
  MaxCancels = 0
PROPERTIES
  TasksEnd
\* A part that has used up its bounds stops.
CHECK_DEADLOCK FALSE
