SPECIFICATION FairSpec
CONSTANTS
  a = a
  b = b
  Addresses = {a, b}
  Configs <- SomeConfigs
  Requests = {1, 2}
  Tls = TRUE
  MaxUpdates = 2
  MaxMessages = 3
  MaxTasks = 4
INVARIANTS ListedHaveSenders TasksInv
PROPERTIES DropsForAReason DiesOfAnEmptySelection UpdatesKeepStatuses RequestsEnd
CHECK_DEADLOCK FALSE
