SPECIFICATION Parts
CONSTANTS
  NFiles = 2
  NBlocks = 2
  MaxVersion = 2
  MaxFaults = 1
  DownJobs = 2
  ResumeJobs = 3
  UpJobs = 2
  MaxCalls = 2
  MaxCancels = 1
INVARIANTS
  TypesOK
  ReadsApart
  OneTask
PROPERTIES
  FilesWhole
  WantedOnly
\* A part that has used up its bounds stops.
CHECK_DEADLOCK FALSE
