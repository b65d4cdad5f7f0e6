SPECIFICATION FairSpec
CONSTANTS
  Nobody = Nobody
  None = None
  Most = 2
  Keepalives <- AllKinds
INVARIANTS TypeOK CheckerHasItsHandle
PROPERTIES VerdictIsEarned UpdateEndsOrLocksUp OthersGoOnOrLockUp DownIsNoticed
CHECK_DEADLOCK FALSE
