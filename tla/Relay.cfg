\* A camera, its relay, the server and one reader, until the file is full.
SPECIFICATION FairSpec
CONSTANTS
  Camera = camera
  Readers = {r1}
  NoClient = none
  Procs = {1, 2}
  Main = 1
  Strays <- BothStrays
  Block = 2
  MaxPieces = 3
  MaxFile = 2
  Zeros = {2}
  Window = 1
INVARIANTS TypeOK  NoGap  
PROPERTIES  RelayEnds
CHECK_DEADLOCK FALSE
