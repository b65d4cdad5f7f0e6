SPECIFICATION ReaderSpec
CONSTANTS
  Streams <- SomeStreams
  BufferSize = 3
INVARIANTS ReaderInv HeadAsSent ReadsOnlyWhatItNeeds
CHECK_DEADLOCK FALSE
