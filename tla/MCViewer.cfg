SPECIFICATION Parts
CONSTANTS
  B = 8
  Lengths = {0, 1, 2, 16, 128}
  Frames = 2
  Raws = 1
  max_packet_length = 127
INVARIANTS
  TypesOK
  Pictures
  Faithful
  Complete
\* A part that has used up its bounds stops.
CHECK_DEADLOCK FALSE
