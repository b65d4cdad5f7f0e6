SPECIFICATION FairSpec
CONSTANTS
  NoTask = NoTask
  Size = 3
  MaxChunk = 4
  MaxBytes = 7
INVARIANT IInv
PROPERTIES ImplementsPipe WaitersGoOn
CHECK_DEADLOCK FALSE
