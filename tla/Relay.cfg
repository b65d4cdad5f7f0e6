SPECIFICATION FairSpec
CONSTANTS
  NoTask = NoTask
  UpSize = 1
  DownSize = 3
  Room = 2
  SockCap = 3
  StatusLen = 1
  HeadLen = 2
  MaxUp = 3
  MaxDown = 4
INVARIANTS RelayInv ShortMessagesArriveWhole
PROPERTY EndsOrIsStuck
CHECK_DEADLOCK FALSE
