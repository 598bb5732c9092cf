\* Two clients of the echo server, with every value of the stray pid.
SPECIFICATION FairSpec
CONSTANTS
  Clients = {c1, c2}
  NoClient = none
  Procs = {1, 2, 3}
  Main = 1
  Strays <- AllStrays
  Backlog = 1
  MaxLines = 2
INVARIANTS TypeOK EchoedOnce InOrder HeldByTwo
PROPERTIES ClosedEverywhere Accepted
CHECK_DEADLOCK FALSE
