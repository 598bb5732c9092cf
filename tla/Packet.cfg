\* Requests, responses and answers of up to two words over one connection.
SPECIFICATION FairSpec
CONSTANTS
  Header = 4
  MaxPkt = 12
  Texts = {0, 7, 8}
  Bodies = {0, 4, 8}
  MaxAsked = 2
  MaxSent = 2
INVARIANTS OutFramed SentFits
PROPERTIES   EndNoticed
CHECK_DEADLOCK FALSE
